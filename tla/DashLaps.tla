------------------------------ MODULE DashLaps ------------------------------
(***************************************************************************)
(* The lap number on the driver's dash.  The leader's page counts the      *)
(* selected laps; effects of the page publish lapTrigger (fires a card,    *)
(* forward only), lapCount (no card, either direction) and lapReset over   *)
(* MQTT, dashd applies them in order and mirrors its own count back, which *)
(* the page uses to keep its counter rising and to republish what the car  *)
(* missed.                                                                 *)
(***************************************************************************)
EXTENDS Integers, Sequences, SequencesExt, FiniteSets, FiniteSetsExt

CONSTANTS
    Cards,          \* laps ask for a card (auto-card, or manual Log Lap)
    MaxLaps,        \* bound: laps logged
    MaxCuts,        \* bound: laps deselected and sessions reset
    MaxReloads,     \* bound: page reloads
    MaxDrops,       \* bound: times the page loses the broker
    MaxLoss,        \* bound: messages lost between broker and dashd
    OfflineResets,  \* a session may be reset while the link is down
    None

DashLapsParams ==
    /\ Cards \in BOOLEAN /\ OfflineResets \in BOOLEAN
    /\ {MaxLaps, MaxCuts, MaxReloads, MaxDrops, MaxLoss} \subseteq Nat

VARIABLES
    page,    \* selected laps n, link, lapCounterRef, dashLastLapCountRef and
             \* dashState.lapCount
    saved,   \* the lap count a reloading page will restore, or None
    down,    \* messages from the page to dashd, in order
    up,      \* state frames from dashd to the page
    car,     \* lap_count of dashd
    cards,   \* lap cards shown
    logged, cuts, reloads, drops, losses

vars == <<page, saved, down, up, car, cards, logged, cuts, reloads, drops, losses>>

Fresh == [n |-> 0, link |-> FALSE, counter |-> 0, last |-> 0, seen |-> None]

Init ==
    /\ page = [Fresh EXCEPT !.link = TRUE]
    /\ saved = None /\ down = <<>> /\ up = <<>> /\ car = 0 /\ cards = 0
    /\ logged = 0 /\ cuts = 0 /\ reloads = 0 /\ drops = 0 /\ losses = 0

-----------------------------------------------------------------------------
(* The page *)

Msg(t, v) == [topic |-> t, value |-> v]

\* sendLap: the number to publish rises strictly above the last one.
SendLap(p) ==
    LET n == Max({p.n, p.counter + 1})
    IN  [page |-> [p EXCEPT !.counter = n], out |-> <<Msg("lapTrigger", n)>>]

\* publishLapCount: absolute, in either direction.
PublishLapCount(p) ==
    [page |-> [p EXCEPT !.counter = p.n], out |-> <<Msg("lapCount", p.n)>>]

\* Mutant: the count is only ever published upwards.
SyncEffectForward(p) ==
    IF ~p.link \/ p.n <= p.last THEN [page |-> p, out |-> <<>>]
    ELSE PublishLapCount([p EXCEPT !.last = p.n])

\* The sync effect: publish the selected count when it changed.
SyncEffect(p) ==
    IF ~p.link \/ p.n = p.last THEN [page |-> p, out |-> <<>>]
    ELSE LET q == [p EXCEPT !.last = p.n]
         IN  IF p.n > p.last /\ Cards THEN SendLap(q) ELSE PublishLapCount(q)

\* The drain effect: the car's mirror shows fewer laps.
DrainEffect(p) ==
    IF p.link /\ p.seen # None /\ p.n > p.seen /\ p.n > 0
    THEN <<Msg("lapTrigger", p.n)>> ELSE <<>>

\* A render with new state p: the two effects run, each if what it depends on
\* changed.
Render(p) ==
    LET moved == <<p.n, p.link>> # <<page.n, page.link>>
        s == IF moved THEN SyncEffect(p) ELSE [page |-> p, out |-> <<>>]
        d == IF moved \/ p.seen # page.seen THEN DrainEffect(p) ELSE <<>>
    IN  /\ page' = s.page
        /\ down' = down \o s.out \o d

\* A lap is completed or logged and selected, or selected again.
LogLap ==
    /\ logged < MaxLaps /\ saved = None
    /\ logged' = logged + 1
    /\ Render([page EXCEPT !.n = @ + 1])
    /\ UNCHANGED <<saved, up, car, cards, cuts, reloads, drops, losses>>

\* A lap is deselected or deleted.
Deselect ==
    /\ page.n > 0 /\ cuts < MaxCuts
    /\ cuts' = cuts + 1
    /\ Render([page EXCEPT !.n = @ - 1])
    /\ UNCHANGED <<saved, up, car, cards, logged, reloads, drops, losses>>

\* Stop, Reset and New session: the counters are cleared here, and on the car if
\* the link is up.
ResetSession ==
    /\ cuts < MaxCuts /\ saved = None
    /\ page.link \/ OfflineResets
    /\ cuts' = cuts + 1
    /\ IF page.link
       THEN /\ page' = [page EXCEPT !.n = 0, !.last = 0, !.counter = 0]
            /\ down' = Append(down, Msg("lapReset", 1))
       ELSE /\ page' = [page EXCEPT !.n = 0, !.last = 0]
            /\ UNCHANGED down
    /\ UNCHANGED <<saved, up, car, cards, logged, reloads, drops, losses>>

\* mqtt.js loses the broker; unsent messages stay in its outgoing store.
LinkDown ==
    /\ page.link /\ drops < MaxDrops
    /\ drops' = drops + 1
    /\ page' = [page EXCEPT !.link = FALSE]
    /\ up' = <<>>
    /\ UNCHANGED <<saved, down, car, cards, logged, cuts, reloads, losses>>

LinkUp ==
    /\ ~page.link
    /\ Render([page EXCEPT !.link = TRUE])
    /\ UNCHANGED <<saved, up, car, cards, logged, cuts, reloads, drops, losses>>

\* The page reloads: its refs start over and the session is restored later.
Reload ==
    /\ reloads < MaxReloads /\ saved = None
    /\ reloads' = reloads + 1
    /\ page' = Fresh
    /\ saved' = page.n
    /\ down' = IF page.link THEN down ELSE <<>>
    /\ up' = <<>>
    /\ UNCHANGED <<car, cards, logged, cuts, drops, losses>>

Restore ==
    /\ saved # None
    /\ Render([page EXCEPT !.n = saved])
    /\ saved' = None
    /\ UNCHANGED <<up, car, cards, logged, cuts, reloads, drops, losses>>

\* The state frame: mirrored, and the counter never falls behind the car.
ReceiveState ==
    /\ up # <<>>
    /\ Render([page EXCEPT !.seen = Head(up),
                           !.counter = Max({@, Head(up)})])
    /\ up' = Tail(up)
    /\ UNCHANGED <<saved, car, cards, logged, cuts, reloads, drops, losses>>

-----------------------------------------------------------------------------
(* dashd *)

\* lapTrigger only rises, and fires a card for a rise by one.
OnMessage(m) ==
    \/ /\ m.topic = "lapTrigger"
       /\ car' = Max({car, m.value})
       /\ cards' = IF m.value = car + 1 THEN cards + 1 ELSE cards
    \/ m.topic = "lapCount" /\ car' = m.value /\ UNCHANGED cards
    \/ m.topic = "lapReset" /\ car' = 0 /\ UNCHANGED cards

Deliver ==
    /\ down # <<>> /\ page.link
    /\ OnMessage(Head(down))
    /\ down' = Tail(down)
    /\ UNCHANGED <<page, saved, up, logged, cuts, reloads, drops, losses>>

\* Broker and dashd lose a message, or dashd restarts and misses it.
Lose(restart) ==
    /\ down # <<>> /\ page.link /\ losses < MaxLoss
    /\ losses' = losses + 1
    /\ down' = Tail(down)
    /\ car' = IF restart THEN 0 ELSE car
    /\ UNCHANGED <<page, saved, up, cards, logged, cuts, reloads, drops>>

\* dashd publishes its state.
PublishState ==
    /\ Len(up) < 2 /\ page.link
    /\ up' = Append(up, car)
    /\ UNCHANGED <<page, saved, down, car, cards, logged, cuts, reloads, drops, losses>>

Next ==
    \/ LogLap \/ Deselect \/ ResetSession \/ LinkDown \/ LinkUp \/ Reload \/ Restore
    \/ ReceiveState \/ Deliver \/ PublishState
    \/ \E restart \in BOOLEAN : Lose(restart)

Spec == Init /\ [][Next]_vars

-----------------------------------------------------------------------------
(* Properties *)

\* Nothing is under way, and the page has seen the car's present count.
Quiet == page.link /\ saved = None /\ down = <<>> /\ up = <<>> /\ page.seen = car

\* "the dash displays the same number as trackside": whenever everything
\* published has arrived both ways, the driver sees the selected count.
SameNumber == Quiet => car = page.n

\* Republishing, reconnecting and reloading never fire a card for a lap that was
\* not logged.
NoExtraCard == cards <= logged
=============================================================================
