----------------------------- MODULE DashScreen -----------------------------
(* The driver's display: dashd (main.rs) and the page in the car's browser    *)
(* (Dashboard.tsx, DashContext.tsx, useCarData.ts, useEnergyPacing.ts,        *)
(* LapCardOverlay.tsx, ConnectivityIndicator.tsx). The page shows the screen  *)
(* of the gear, a screen trackside forces, and a card for each finished lap.  *)
EXTENDS Integers, FiniteSets

CONSTANTS Overrides,  \* what trackside puts on lhre/dash/screen
          Durations,  \* what it puts on lhre/dash/lapCardMs, in ticks
          MaxLaps,    \* bound on laps
          Moves,      \* bound on what people do
          Allowed,    \* which of Rare happen
          None

Rare == {"demo", "outage", "deselect", "quick", "nodiag", "blind", "mqtt"}
ScreenAssumption == Allowed \subseteq Rare /\ MaxLaps \in Nat /\ Moves \in Nat /\ Durations \subseteq Nat

VARIABLES car,      \* dashd: decoded gear and last_prndl, is the CAN fresh, lap_count, last_lap, screen_override, lapCardMs, telemetry
          linked,   \* is the WebSocket open?
          live,     \* lastJsonMessage, or None
          demo,     \* the demo message, or None
          isDemo,
          page,     \* the page's state: see NewPage
          known,    \* the last gear dashd decoded
          seen,     \* the last gear the page was given
          shown,    \* laps whose card was shown
          adopted,  \* laps the page found on its first frame
          under,    \* what was on the screen before an override
          up,       \* ticks the card has been up with its present duration
          moves

viewed == <<page, seen, shown, adopted, under, up>>
history == <<known, seen, shown, adopted, under, up>>
vars == <<car, linked, live, demo, isDemo, page, history, moves>>

Gears == {"P", "D"}
Screens == 0..3       \* Driving, PitDiagnostic, Shutdown, Settings
ScreenOf(gear) == IF gear = "P" THEN 1 ELSE 0
\* OVERRIDE_INDEX; a name it does not have falls through.
OverrideIndex(name) ==
  CASE name = "driving" -> 0 [] name = "park" -> 1 [] name = "shutdown" -> 2 [] name = "settings" -> 3 [] OTHER -> None

\* LAP_CARD_MS and the clamp, in ticks.
DefaultMs == 2
MinMs == 1
MaxMs == 3
LapCardMs(ms) == IF ms = None THEN DefaultMs ELSE IF ms < MinMs THEN MinMs ELSE IF ms > MaxMs THEN MaxMs ELSE ms

NewPage == [index |-> 0, lastGear |-> None, inited |-> FALSE, baseline |-> None,
            card |-> None, frozen |-> None, ms |-> DefaultMs, left |-> 0]

Init ==
  /\ car = [gear |-> None, prev |-> None, fresh |-> TRUE, count |-> 0, laps |-> 0, last |-> None,
            over |-> None, ms |-> None, tele |-> FALSE]
  /\ linked = FALSE /\ live = None /\ demo = None /\ isDemo = FALSE /\ page = NewPage
  /\ known = None /\ seen = None /\ shown = {} /\ adopted = {} /\ under = 0 /\ up = 0 /\ moves = 0

\* The message dashd sends: a stale CAN bus blanks what comes from it.
Message == [gear |-> IF car.fresh THEN car.gear ELSE None, last |-> car.last,
            over |-> car.over, ms |-> car.ms, tele |-> car.tele]

Data == IF isDemo THEN demo ELSE live
Overridden(d) == d # None /\ OverrideIndex(d.over) # None
\* effectiveIndex.
Screen == IF Overridden(Data) THEN OverrideIndex(Data.over) ELSE page.index

-----------------------------------------------------------------------------
(* What the page does with its data: a render and the effects behind it.      *)

\* The PRNDL effect.
Routed(p, d) ==
  IF d = None \/ d.gear \in {None, p.lastGear} THEN p
  ELSE [p EXCEPT !.lastGear = d.gear, !.index = ScreenOf(d.gear)]

\* Mutant: the page starts with nothing shown.
PacedEager(p, d) ==
  IF d = None THEN p
  ELSE IF d.last = None THEN [p EXCEPT !.inited = TRUE, !.baseline = None]
  ELSE IF p.baseline # None /\ d.last.n <= p.baseline THEN [p EXCEPT !.inited = TRUE]
  ELSE [p EXCEPT !.inited = TRUE, !.baseline = d.last.n, !.card = d.last]
\* The lap effect of useEnergyPacing.
Paced(p, d) ==
  IF d = None THEN p
  ELSE IF ~p.inited THEN [p EXCEPT !.inited = TRUE, !.baseline = IF d.last = None THEN None ELSE d.last.n]
  ELSE IF d.last = None THEN [p EXCEPT !.baseline = None]
  ELSE IF p.baseline # None /\ d.last.n <= p.baseline THEN p
  ELSE [p EXCEPT !.baseline = d.last.n, !.card = d.last]

\* Mutant: every message starts the timer again.
TimedAlways(p, was, d) ==
  LET ms == LapCardMs(IF d = None THEN None ELSE d.ms)
  IN [p EXCEPT !.ms = ms, !.left = IF p.card = None THEN 0 ELSE ms]
\* The timer effect starts again when the card or its duration changes.
Timed(p, was, d) ==
  LET ms == LapCardMs(IF d = None THEN None ELSE d.ms)
  IN [p EXCEPT !.ms = ms, !.left = IF p.card = None THEN 0 ELSE IF p.card # was.card \/ ms # was.ms THEN ms ELSE @]

\* frozenRef of LapCardOverlay: taken again when the lap number changes.
Snapshot(p) ==
  [p EXCEPT !.frozen = IF p.card = None THEN None ELSE IF @ # None /\ @.n = p.card.n THEN @ ELSE p.card]

Rendered(p, d) == Snapshot(Timed(Paced(Routed(p, d), d), p, d))

\* The page shows d; what the properties remember is kept beside it.
Show(d) ==
  /\ page' = Rendered(page, d)
  /\ seen' = IF d = None \/ d.gear = None THEN seen ELSE d.gear
  /\ shown' = IF page'.card # None /\ page'.card # page.card THEN shown \cup {page'.card.id} ELSE shown
  /\ adopted' = IF page'.inited /\ ~page.inited /\ d.last # None THEN adopted \cup {d.last.id} ELSE adopted
  /\ under' = IF seen' # seen THEN ScreenOf(seen')
              ELSE IF Overridden(Data) THEN under ELSE Screen
  /\ up' = IF page'.card # page.card \/ page'.ms # page.ms THEN 0 ELSE up

-----------------------------------------------------------------------------
(* dashd                                                                      *)

Move == moves < Moves /\ moves' = moves + 1
OnCar == UNCHANGED <<linked, live, demo, isDemo, viewed>>

\* A CAN snapshot with another gear, or with none.
CanFrame(g) ==
  /\ Move /\ g # car.gear /\ (g # None \/ "nodiag" \in Allowed)
  /\ car' = [car EXCEPT !.gear = g, !.prev = g, !.fresh = TRUE,
                        !.over = IF car.prev # None /\ g # None /\ car.prev # g THEN None ELSE @]
  /\ known' = (IF g = None THEN known ELSE g)
  /\ OnCar
CanStale == /\ Move /\ car.gear # None /\ car' = [car EXCEPT !.fresh = ~@] /\ UNCHANGED known /\ OnCar

\* Messages go out many times a second: what a lap changes is on the page
\* before the next lap, unless the link is down.
Prompt == linked => live # None /\ live.last = car.last
CompleteLap ==
  /\ Prompt /\ car.laps < MaxLaps
  /\ car' = [car EXCEPT !.count = @ + 1, !.laps = @ + 1, !.last = [n |-> car.count + 1, id |-> car.laps + 1]]
  /\ UNCHANGED <<known, moves>> /\ OnCar
LapCount ==
  /\ "deselect" \in Allowed /\ Move /\ Prompt /\ car.count > 0
  /\ car' = [car EXCEPT !.count = @ - 1] /\ UNCHANGED known /\ OnCar
LapReset ==
  /\ Move /\ Prompt /\ (linked \/ "outage" \in Allowed) /\ (page.card = None \/ "quick" \in Allowed) /\ car.last # None
  /\ car' = [car EXCEPT !.count = 0, !.last = None] /\ UNCHANGED known /\ OnCar
ScreenOverride(name) ==
  /\ Move /\ name # car.over /\ car' = [car EXCEPT !.over = name] /\ UNCHANGED known /\ OnCar
SetLapCardMs(ms) == /\ Move /\ car' = [car EXCEPT !.ms = ms] /\ UNCHANGED known /\ OnCar
Telemetry == /\ "mqtt" \in Allowed /\ Move /\ car' = [car EXCEPT !.tele = ~@] /\ UNCHANGED known /\ OnCar

-----------------------------------------------------------------------------
(* The page                                                                   *)

Connect == /\ ~linked /\ linked' = TRUE
           /\ UNCHANGED <<car, live, demo, isDemo, page, history, moves>>
Disconnect == /\ Move /\ linked /\ (Prompt \/ "outage" \in Allowed) /\ linked' = FALSE
              /\ UNCHANGED <<car, live, demo, isDemo, page, history>>
Frame ==
  /\ linked /\ live' = Message
  /\ IF isDemo THEN UNCHANGED viewed ELSE Show(Message)
  /\ UNCHANGED <<car, linked, demo, isDemo, known, moves>>

\* useDemoData: laps of its own, in gear once moving. Its ids are above MaxLaps.
DemoTick(g, lap) ==
  /\ "demo" \in Allowed /\ Move
  /\ LET n == (IF demo = None \/ demo.last = None THEN 0 ELSE demo.last.n) + (IF lap THEN 1 ELSE 0)
     IN demo' = [gear |-> g, last |-> IF n = 0 THEN None ELSE [n |-> n, id |-> MaxLaps + n],
                 over |-> None, ms |-> None, tele |-> TRUE]
  /\ IF isDemo THEN Show(demo') ELSE UNCHANGED viewed
  /\ UNCHANGED <<car, linked, live, isDemo, known>>
KeyD == /\ "demo" \in Allowed /\ Move /\ isDemo' = ~isDemo /\ Show(IF isDemo' THEN demo ELSE live)
        /\ UNCHANGED <<car, linked, live, demo, known>>
KeyEnter == /\ Move /\ (~Overridden(Data) \/ "blind" \in Allowed)
            /\ page' = [page EXCEPT !.index = (@ + 1) % Cardinality(Screens)]
            /\ UNCHANGED <<car, linked, live, demo, isDemo, history>>

\* A tick of the card's timer; at its end the card goes and its snapshot too.
Tick ==
  /\ page.card # None
  /\ page' = IF page.left > 1 THEN [page EXCEPT !.left = @ - 1]
             ELSE [page EXCEPT !.card = None, !.frozen = None, !.left = 0]
  /\ up' = IF page.left <= 1 THEN 0 ELSE IF up < MaxMs THEN up + 1 ELSE up
  /\ UNCHANGED <<car, linked, live, demo, isDemo, known, seen, shown, adopted, under, moves>>

Reload == /\ Move /\ page' = NewPage /\ live' = None /\ demo' = None /\ isDemo' = FALSE /\ linked' = FALSE
          /\ seen' = None /\ under' = 0 /\ up' = 0 /\ UNCHANGED <<car, known, shown, adopted>>

Next == \/ \E g \in Gears \cup {None} : CanFrame(g)
        \/ CanStale \/ CompleteLap \/ LapCount \/ LapReset \/ Telemetry
        \/ \E name \in Overrides \cup {None} : ScreenOverride(name)
        \/ \E ms \in Durations : SetLapCardMs(ms)
        \/ Connect \/ Disconnect \/ Frame
        \/ \E g \in Gears, lap \in BOOLEAN : DemoTick(g, lap)
        \/ KeyD \/ KeyEnter \/ Tick \/ Reload

\* The browser reconnects, dashd keeps sending, and timers run.
Fairness == WF_vars(Tick) /\ WF_vars(Connect) /\ WF_vars(Frame)
Spec == Init /\ [][Next]_vars /\ Fairness

-----------------------------------------------------------------------------
\* Only Enter, another gear and a reload move the screen the crew chose: a
\* message without a gear between two of the same gear does not.
NoYank == page'.index # page.index => KeyEnter \/ Reload \/ seen' # seen

\* When an override is released, the page shows what it showed before.
ReleaseReturns == Overridden(Data) /\ ~Overridden(Data)' => Screen' = under'

\* The last lap on the page had its card, or was there when the page loaded: of every
\* frame that comes, so of every lap that a frame brings.
EveryLapShown ==
  page.inited /\ ~isDemo /\ live # None /\ live.last # None => live.last.id \in shown \cup adopted

\* No lap gets a second card, whether the page reloads or reconnects.
NoRepeat == page'.card \notin {None, page.card} => page'.card.id \notin shown \cup adopted

\* What the card shows is the lap it is for.
CardIsLap == page.frozen = page.card

\* A card goes away by itself, however often messages arrive.
CardClears == (page.card # None) ~> (page.card = None)

=============================================================================
