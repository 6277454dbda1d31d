--------------------------------- MODULE Dash ---------------------------------
(*****************************************************************************)
(* The driver's dash: what trackside sends to it, what dashd keeps and what  *)
(* the page in the car shows, scene by scene.  A behaviour plays one         *)
(* component, in the conditions of its scene; the configuration says which   *)
(* scenes are played.  The lap counter, the commands and the screen come     *)
(* first, each with its instances, its invariant and the lemmas about its    *)
(* steps; then the other components, Init, Next, Spec, the properties and    *)
(* the theorems about them.                                                  *)
(*****************************************************************************)
EXTENDS Integers, Sequences, FiniteSets, TLC, TLAPS

CONSTANTS
    Scenes,
    None,
    Asked,
    CmdPages, CmdPowers, CmdStale, CmdPresses,      \* "commands", "roles": see DashCommands
    CutLaps, CutCuts, CutDrops,                     \* "cuts", and so on: see DashLaps
    CardLaps, CardDrops,
    ResumeLaps, ResumeReloads, ResumeDrops,
    RepairLaps, RepairCuts, RepairReloads, RepairDrops,
    RaceOverrides, RaceDurations, RaceLaps, RaceMoves,  \* scene "race": see DashScreen
    DemoOverrides, DemoDurations, DemoLaps, DemoMoves   \* scene "demo"

VARIABLES
    scene,
    leader, status, net, cmdShown, delta, setting, powerRef, deltaRef, outbox,
    retained, cmdCar, gear, last, presses,
    countPage, saved, down, countUp, countCar, cards, logged, cuts, reloads, drops,
    losses,
    lib, msgOpen, msgTimer, pull, puts, msgServer, msgLinked, msgCar, msgEdits, opens,
    designServer, ed, designTimer, cache, calls, designCar, high, mine, designEdits,
    screenCar, screenLinked, live, demo, isDemo, screenPage, known, seen, screenShown,
    adopted, under, screenUp, screenMoves,
    settings, stored, light, setOpen, focus, time, setMoves,
    value, widget,
    shutdown, flags, layout

\* None is no number and no state of a link.
ASSUME DashNone == None \notin Nat /\ None \notin {"down", "up", "half"}

(* ----- The lap counter ----- *)

\* The lap counter: broken links; lap cards; reloads; a lost message.
LapsCut ==
    INSTANCE DashLaps WITH
        Cards <- FALSE, MaxLaps <- CutLaps, MaxCuts <- CutCuts, MaxReloads <- 0,
        MaxDrops <- CutDrops, MaxLoss <- 0, OfflineResets <- FALSE, page <- countPage, up <- countUp,
        car <- countCar
LapsCards ==
    INSTANCE DashLaps WITH
        Cards <- TRUE, MaxLaps <- CardLaps, MaxCuts <- 0, MaxReloads <- 0,
        MaxDrops <- CardDrops, MaxLoss <- 0, OfflineResets <- FALSE, page <- countPage, up <- countUp,
        car <- countCar
LapsResume ==
    INSTANCE DashLaps WITH
        Cards <- FALSE, MaxLaps <- ResumeLaps, MaxCuts <- 0, MaxReloads <- ResumeReloads,
        MaxDrops <- ResumeDrops, MaxLoss <- 0, OfflineResets <- FALSE, page <- countPage, up <- countUp,
        car <- countCar
LapsRepair ==
    INSTANCE DashLaps WITH
        Cards <- FALSE, MaxLaps <- RepairLaps, MaxCuts <- RepairCuts, MaxReloads <- RepairReloads,
        MaxDrops <- RepairDrops, MaxLoss <- 1, OfflineResets <- FALSE, page <- countPage, up <- countUp,
        car <- countCar

ASSUME LapsBounds ==
    /\ LapsCut!DashLapsParams
    /\ LapsCards!DashLapsParams
    /\ LapsResume!DashLapsParams
    /\ LapsRepair!DashLapsParams

(* ----- The lap count: the invariant of the scenes without cards ----- *)

\* The messages q take a count from g to e, and no lapTrigger among them changes it.
Echoes(q, g, e) ==
    \E h \in [0..Len(q) -> Nat] :
        /\ h[0] = g /\ h[Len(q)] = e
        /\ \A i \in 1..Len(q) :
              \/ q[i].topic = "lapTrigger" /\ q[i].value = h[i - 1] /\ h[i] = h[i - 1]
              \/ q[i].topic = "lapCount" /\ h[i] = q[i].value
              \/ q[i].topic = "lapReset" /\ h[i] = 0

\* The five fields of the page's state.
CountPage(n, l, c, k, s) == [n |-> n, link |-> l, counter |-> c, last |-> k, seen |-> s]

CountMessage == [topic : {"lapTrigger", "lapCount", "lapReset"}, value : Nat]

EchoTypes ==
    /\ \E c, s : \E n, k \in Nat : \E l \in BOOLEAN : countPage = CountPage(n, l, c, k, s)
    /\ down \in Seq(CountMessage)
    /\ {countCar, cards, logged, cuts, reloads, losses} \subseteq Nat
    /\ saved \in Nat \cup {None}

\* What the page has: while linked it has published its count; no count, and none in a
\* message, is above the laps logged.
EchoCounts ==
    /\ countPage.link => countPage.last = countPage.n
    /\ saved # None => countPage.n = 0 /\ saved <= logged
    /\ reloads = 0 => saved = None
    /\ countPage.n <= logged
    /\ cuts = 0 => logged = IF saved = None THEN countPage.n ELSE saved
    /\ \A i \in 1..Len(down) : down[i].topic # "lapReset" => down[i].value <= logged

\* What the car would have had it missed nothing is g: of the one loss the card comes
\* that brings it there, and no other.
EchoCar(g, e) ==
    /\ countPage.last # 0 \/ reloads = 0 => e = countPage.last
    /\ g <= logged /\ e <= logged
    /\ losses <= 1 /\ cards <= 1 /\ cards <= logged
    /\ losses = 0 => g = countCar /\ cards = 0
    /\ countCar < g => cards = 0

EchoInv ==
    /\ EchoTypes
    /\ EchoCounts
    /\ \E g, e \in Nat : Echoes(down, g, e) /\ EchoCar(g, e)

TriggerMessage == [topic : {"lapTrigger"}, value : Nat]

\* The messages q bring a car at c to the number k, and none of them beyond it.
TriggersUpTo(q, c, k) ==
    /\ q \in Seq(TriggerMessage)
    /\ \A i \in 1..Len(q) : q[i].value <= k
    /\ IF q = <<>> THEN c = k ELSE q[Len(q)].value = k

\* With cards: only lapTriggers, up to the last number published.
CardsInv ==
    /\ \E c, s : \E n, k \in Nat : \E l \in BOOLEAN : countPage = CountPage(n, l, c, k, s)
    /\ countUp \in Seq(Nat)
    /\ {countCar, cards, logged} \subseteq Nat
    /\ saved = None /\ cuts = 0 /\ reloads = 0 /\ losses = 0
    /\ countPage.counter = countPage.last
    /\ countPage.link => countPage.last = countPage.n
    /\ countPage.last <= countPage.n /\ countPage.n = logged
    /\ cards <= countCar /\ countCar <= countPage.last
    /\ \A i \in 1..Len(countUp) : countUp[i] <= countPage.last
    /\ TriggersUpTo(down, countCar, countPage.last)

\* The scenes without cards, as one: a bound for each that is none of theirs.
LapsEcho ==
    INSTANCE DashLaps WITH
        Cards <- FALSE, MaxLaps <- CutLaps + ResumeLaps + RepairLaps,
        MaxCuts <- CutCuts + RepairCuts, MaxReloads <- ResumeReloads + RepairReloads,
        MaxDrops <- CutDrops + ResumeDrops + RepairDrops, MaxLoss <- 1,
        OfflineResets <- FALSE, page <- countPage, up <- countUp, car <- countCar

(* ----- Messages that echo the count ----- *)

LEMMA EchoEmpty ==
    ASSUME NEW g \in Nat
    PROVE  Echoes(<<>>, g, g)
  <1> DEFINE h == [i \in 0..0 |-> g]
  <1>1. h \in [0..Len(<<>>) -> Nat] /\ h[0] = g /\ h[Len(<<>>)] = g
    OBVIOUS
  <1>2. \A i \in 1..Len(<<>>) : FALSE
    OBVIOUS
  <1> QED
    BY <1>1, <1>2 DEF Echoes

LEMMA EchoNothing ==
    ASSUME NEW g, NEW e, Echoes(<<>>, g, e)
    PROVE  g = e
  BY DEF Echoes

LEMMA EchoAppend ==
    ASSUME NEW q \in Seq(CountMessage), NEW m \in CountMessage, NEW g \in Nat, NEW e \in Nat,
           NEW e2 \in Nat, Echoes(q, g, e),
           \/ m.topic = "lapTrigger" /\ m.value = e /\ e2 = e
           \/ m.topic = "lapCount" /\ e2 = m.value
           \/ m.topic = "lapReset" /\ e2 = 0
    PROVE  Echoes(Append(q, m), g, e2)
  <1> DEFINE Q == Append(q, m)
  <1>1. PICK h \in [0..Len(q) -> Nat] :
            /\ h[0] = g /\ h[Len(q)] = e
            /\ \A i \in 1..Len(q) :
                  \/ q[i].topic = "lapTrigger" /\ q[i].value = h[i - 1] /\ h[i] = h[i - 1]
                  \/ q[i].topic = "lapCount" /\ h[i] = q[i].value
                  \/ q[i].topic = "lapReset" /\ h[i] = 0
    BY DEF Echoes
  <1>2. Len(q) \in Nat /\ Len(Q) = Len(q) + 1 /\ Q[Len(q) + 1] = m /\ \A i \in 1..Len(q) : Q[i] = q[i]
    OBVIOUS
  <1> HIDE DEF Q
  <1> DEFINE k == [i \in 0..(Len(q) + 1) |-> IF i = Len(q) + 1 THEN e2 ELSE h[i]]
  <1>3. k \in [0..Len(Q) -> Nat]
    BY <1>1, <1>2
  <1>4. k[Len(q) + 1] = e2 /\ \A i \in 0..Len(q) : k[i] = h[i]
    BY <1>2
  <1> HIDE DEF k
  <1>5. k[0] = g /\ k[Len(Q)] = e2
    BY <1>1, <1>2, <1>4
  <1>6. ASSUME NEW i \in 1..Len(Q)
        PROVE  \/ Q[i].topic = "lapTrigger" /\ Q[i].value = k[i - 1] /\ k[i] = k[i - 1]
               \/ Q[i].topic = "lapCount" /\ k[i] = Q[i].value
               \/ Q[i].topic = "lapReset" /\ k[i] = 0
    <2>1. CASE i = Len(q) + 1
      <3>1. k[i - 1] = e
        BY <1>1, <1>2, <1>4, <2>1
      <3> QED
        BY <1>2, <1>4, <2>1, <3>1
    <2>2. CASE i \in 1..Len(q)
      <3>1. k[i] = h[i] /\ k[i - 1] = h[i - 1] /\ Q[i] = q[i]
        BY <1>2, <1>4, <2>2
      <3> QED
        BY <1>1, <2>2, <3>1
    <2> QED
      BY <1>2, <2>1, <2>2
  <1>7. Echoes(Q, g, e2)
    BY <1>3, <1>5, <1>6 DEF Echoes
  <1> QED
    BY <1>7 DEF Q

LEMMA EchoTail ==
    ASSUME NEW q \in Seq(CountMessage), q # <<>>, NEW g \in Nat, NEW e \in Nat, Echoes(q, g, e)
    PROVE  \E g2 \in Nat :
              /\ Echoes(Tail(q), g2, e)
              /\ \/ Head(q).topic = "lapTrigger" /\ Head(q).value = g /\ g2 = g
                 \/ Head(q).topic = "lapCount" /\ g2 = Head(q).value
                 \/ Head(q).topic = "lapReset" /\ g2 = 0
  <1> DEFINE Q == Tail(q)
  <1>1. PICK h \in [0..Len(q) -> Nat] :
            /\ h[0] = g /\ h[Len(q)] = e
            /\ \A i \in 1..Len(q) :
                  \/ q[i].topic = "lapTrigger" /\ q[i].value = h[i - 1] /\ h[i] = h[i - 1]
                  \/ q[i].topic = "lapCount" /\ h[i] = q[i].value
                  \/ q[i].topic = "lapReset" /\ h[i] = 0
    BY DEF Echoes
  <1>2. /\ Len(q) \in Nat /\ Len(q) > 0 /\ Len(Q) = Len(q) - 1 /\ Head(q) = q[1]
        /\ \A i \in 1..(Len(q) - 1) : Q[i] = q[i + 1]
    OBVIOUS
  <1> HIDE DEF Q
  <1> DEFINE k == [i \in 0..(Len(q) - 1) |-> h[i + 1]]
  <1>3. k \in [0..Len(Q) -> Nat]
    BY <1>1, <1>2
  <1>4. \A i \in 0..(Len(q) - 1) : k[i] = h[i + 1]
    BY <1>2
  <1> HIDE DEF k
  <1>5. k[0] = h[1] /\ k[Len(Q)] = e
    BY <1>1, <1>2, <1>4
  <1>6. ASSUME NEW i \in 1..Len(Q)
        PROVE  \/ Q[i].topic = "lapTrigger" /\ Q[i].value = k[i - 1] /\ k[i] = k[i - 1]
               \/ Q[i].topic = "lapCount" /\ k[i] = Q[i].value
               \/ Q[i].topic = "lapReset" /\ k[i] = 0
    <2>1. i + 1 \in 1..Len(q) /\ i \in 0..(Len(q) - 1) /\ i - 1 \in 0..(Len(q) - 1)
      BY <1>2
    <2>2. Q[i] = q[i + 1] /\ k[i] = h[i + 1] /\ k[i - 1] = h[(i + 1) - 1]
      BY <1>2, <1>4, <2>1
    <2> QED
      BY <1>1, <2>1, <2>2
  <1>7. h[1] \in Nat
    BY <1>1, <1>2
  <1>8. Echoes(Q, h[1], e)
    BY <1>3, <1>5, <1>6 DEF Echoes
  <1>9. \/ Head(q).topic = "lapTrigger" /\ Head(q).value = g /\ h[1] = g
        \/ Head(q).topic = "lapCount" /\ h[1] = Head(q).value
        \/ Head(q).topic = "lapReset" /\ h[1] = 0
    <2>1. 1 \in 1..Len(q) /\ 1 - 1 = 0
      BY <1>2
    <2> QED
      BY <1>1, <1>2, <2>1
  <1> QED
    BY <1>7, <1>8, <1>9 DEF Q

(* ----- A render of the lap count ----- *)

\* What a page of count n on link l that had published k sends after the messages q.
CountOut(n, l, k, n0, l0, k2, q, q2) ==
    \/ /\ l /\ n # k /\ (n # n0 \/ l # l0) /\ k2 = n
       /\ \/ q2 = Append(q, LapsEcho!Msg("lapCount", n))
          \/ n > 0 /\ q2 = Append(Append(q, LapsEcho!Msg("lapCount", n)), LapsEcho!Msg("lapTrigger", n))
    \/ /\ ~l \/ n = k \/ (n = n0 /\ l = l0)
       /\ k2 = k
       /\ \/ q2 = q
          \/ l /\ n > 0 /\ q2 = Append(q, LapsEcho!Msg("lapTrigger", n))

LEMMA CountRender ==
    ASSUME NEW n \in Nat, NEW l \in BOOLEAN, NEW c, NEW k \in Nat, NEW s,
           NEW n0, NEW l0, NEW c0, NEW k0, NEW s0, countPage = CountPage(n0, l0, c0, k0, s0),
           down \in Seq(CountMessage), LapsEcho!Render(CountPage(n, l, c, k, s))
    PROVE  \E c2, k2 : /\ countPage' = CountPage(n, l, c2, k2, s)
                       /\ CountOut(n, l, k, n0, l0, k2, down, down')
  <1> DEFINE p == CountPage(n, l, c, k, s)
             moved == <<p.n, p.link>> # <<countPage.n, countPage.link>>
             sync == IF moved THEN LapsEcho!SyncEffect(p) ELSE [page |-> p, out |-> <<>>]
             drain == IF moved \/ p.seen # countPage.seen THEN LapsEcho!DrainEffect(p) ELSE <<>>
             M1 == LapsEcho!Msg("lapCount", n)
             M2 == LapsEcho!Msg("lapTrigger", n)
  <1>1. countPage' = sync.page /\ down' = down \o sync.out \o drain
    BY DEF LapsEcho!Render
  <1>2. /\ p.n = n /\ p.link = l /\ p.last = k /\ p.seen = s
        /\ countPage.n = n0 /\ countPage.link = l0
    BY DEF CountPage
  <1>3. moved <=> (n # n0 \/ l # l0)
    BY <1>2
  <1>4. drain = <<>> \/ (l /\ n > 0 /\ drain = <<M2>>)
    BY <1>2 DEF LapsEcho!DrainEffect
  <1>5. CASE moved /\ l /\ n # k
    <2>1. [p EXCEPT !.last = n] = CountPage(n, l, c, n, s)
      BY DEF CountPage
    <2>2. [CountPage(n, l, c, n, s) EXCEPT !.counter = n] = CountPage(n, l, n, n, s)
      BY DEF CountPage
    <2>3. LapsEcho!SyncEffect(p) = LapsEcho!PublishLapCount(CountPage(n, l, c, n, s))
      BY <1>2, <1>5, <2>1 DEF LapsEcho!SyncEffect
    <2>4. CountPage(n, l, c, n, s).n = n
      BY DEF CountPage
    <2>5. LapsEcho!SyncEffect(p) = [page |-> CountPage(n, l, n, n, s), out |-> <<M1>>]
      BY <2>2, <2>3, <2>4 DEF LapsEcho!PublishLapCount
    <2>6. sync.page = CountPage(n, l, n, n, s) /\ sync.out = <<M1>>
      <3>1. sync = LapsEcho!SyncEffect(p)
        BY <1>5, Zenon
      <3> HIDE DEF sync, M1
      <3> QED
        BY <2>5, <3>1
    <2>7. M1 \in CountMessage /\ M2 \in CountMessage
      BY DEF LapsEcho!Msg, CountMessage
    <2> HIDE DEF sync, drain, moved, M1, M2
    <2>8. down \o <<M1>> \o <<>> = Append(down, M1) /\ down \o <<M1>> \o <<M2>> = Append(Append(down, M1), M2)
      BY <2>7
    <2>9. down' = Append(down, M1) \/ (n > 0 /\ down' = Append(Append(down, M1), M2))
      BY <1>1, <1>4, <2>6, <2>8
    <2> QED
      BY <1>1, <1>3, <1>5, <2>6, <2>9 DEF CountOut, M1, M2
  <1>6. CASE ~(moved /\ l /\ n # k)
    <2>1. sync = [page |-> p, out |-> <<>>]
      BY <1>2, <1>6 DEF LapsEcho!SyncEffect
    <2>2. sync.page = p /\ sync.out = <<>>
      BY <2>1
    <2>7. M2 \in CountMessage
      BY DEF LapsEcho!Msg, CountMessage
    <2> HIDE DEF sync, drain, moved, M1, M2
    <2>3. down \o <<>> \o <<>> = down /\ down \o <<>> \o <<M2>> = Append(down, M2)
      BY <2>7
    <2>4. down' = down \/ (l /\ n > 0 /\ down' = Append(down, M2))
      BY <1>1, <1>4, <2>2, <2>3
    <2> QED
      BY <1>1, <1>3, <1>6, <2>2, <2>4 DEF CountOut, M2
  <1> QED
    BY <1>5, <1>6

\* A render keeps the echo: whatever it sends, the car comes to the count published.
LEMMA EchoRender ==
    ASSUME NEW n \in Nat, NEW l \in BOOLEAN, NEW c, NEW k \in Nat, NEW s,
           NEW n0, NEW l0, NEW c0, NEW k0, NEW s0, countPage = CountPage(n0, l0, c0, k0, s0),
           down \in Seq(CountMessage), LapsEcho!Render(CountPage(n, l, c, k, s)),
           NEW g \in Nat, NEW e \in Nat, Echoes(down, g, e),
           k # 0 => e = k,
           l /\ n = n0 /\ l = l0 => k = n
    PROVE  \E c2, k2, e2 :
              /\ countPage' = CountPage(n, l, c2, k2, s)
              /\ k2 \in Nat /\ e2 \in Nat
              /\ down' \in Seq(CountMessage) /\ Echoes(down', g, e2)
              /\ l => k2 = n
              /\ (k2 = k /\ e2 = e) \/ (k2 = n /\ e2 = n)
              /\ \A i \in 1..Len(down') : (i \in 1..Len(down) /\ down'[i] = down[i]) \/ down'[i].value = n
  <1>1. PICK c2, k2 : /\ countPage' = CountPage(n, l, c2, k2, s)
                      /\ CountOut(n, l, k, n0, l0, k2, down, down')
    BY CountRender
  <1> DEFINE M1 == LapsEcho!Msg("lapCount", n)
             M2 == LapsEcho!Msg("lapTrigger", n)
             D1 == Append(down, M1)
             D2 == Append(D1, M2)
             D3 == Append(down, M2)
  <1>2. /\ M1 \in CountMessage /\ M2 \in CountMessage /\ M1.value = n /\ M2.value = n
        /\ M1.topic = "lapCount" /\ M2.topic = "lapTrigger"
    BY DEF LapsEcho!Msg, CountMessage
  <1> HIDE DEF M1, M2
  <1>3. /\ D1 \in Seq(CountMessage) /\ Echoes(D1, g, n)
        /\ \A i \in 1..Len(D1) : (i \in 1..Len(down) /\ D1[i] = down[i]) \/ D1[i].value = n
    <2>1. D1 \in Seq(CountMessage)
      BY <1>2
    <2>2. Echoes(D1, g, n)
      BY <1>2, EchoAppend
    <2>3. \A i \in 1..Len(D1) : (i \in 1..Len(down) /\ D1[i] = down[i]) \/ D1[i] = M1
      BY <1>2
    <2> QED
      BY <1>2, <2>1, <2>2, <2>3
  <1>4. /\ D2 \in Seq(CountMessage) /\ Echoes(D2, g, n)
        /\ \A i \in 1..Len(D2) : (i \in 1..Len(down) /\ D2[i] = down[i]) \/ D2[i].value = n
    <2> HIDE DEF D1
    <2>1. D2 \in Seq(CountMessage)
      BY <1>2, <1>3
    <2>2. Echoes(D2, g, n)
      BY <1>2, <1>3, EchoAppend
    <2>3. \A i \in 1..Len(D2) : (i \in 1..Len(D1) /\ D2[i] = D1[i]) \/ D2[i] = M2
      BY <1>2, <1>3
    <2> QED
      BY <1>2, <1>3, <2>1, <2>2, <2>3
  <1>5. e = n => /\ D3 \in Seq(CountMessage) /\ Echoes(D3, g, n)
                 /\ \A i \in 1..Len(D3) : (i \in 1..Len(down) /\ D3[i] = down[i]) \/ D3[i].value = n
    <2>1. D3 \in Seq(CountMessage)
      BY <1>2
    <2>2. e = n => Echoes(D3, g, n)
      BY <1>2, EchoAppend
    <2>3. \A i \in 1..Len(D3) : (i \in 1..Len(down) /\ D3[i] = down[i]) \/ D3[i] = M2
      BY <1>2
    <2> QED
      BY <1>2, <2>1, <2>2, <2>3
  <1> HIDE DEF D1, D2, D3
  <1>6. CASE l /\ n # k /\ (n # n0 \/ l # l0) /\ k2 = n
              /\ (down' = D1 \/ (n > 0 /\ down' = D2))
    <2> WITNESS c2, n, n
    <2> QED
      BY <1>1, <1>3, <1>4, <1>6
  <1>7. CASE (~l \/ n = k \/ (n = n0 /\ l = l0)) /\ k2 = k
              /\ (down' = down \/ (l /\ n > 0 /\ down' = D3))
    <2>1. l => k = n
      BY <1>7
    <2>2. CASE down' = down
      <3> WITNESS c2, k, e
      <3> QED
        BY <1>1, <1>7, <2>1, <2>2
    <2>3. CASE l /\ n > 0 /\ down' = D3
      <3>1. e = n /\ k = n
        BY <2>1, <2>3
      <3> WITNESS c2, n, n
      <3> QED
        BY <1>1, <1>5, <1>7, <2>3, <3>1
    <2> QED
      BY <1>7, <2>2, <2>3
  <1> QED
    BY <1>1, <1>6, <1>7 DEF CountOut, M1, M2, D1, D2, D3

(* ----- The steps of the scenes without cards ----- *)

\* A step that only renders the page, with count n and link l.
LEMMA EchoRendered ==
    ASSUME EchoInv,
           NEW n0, NEW l0, NEW c0, NEW k0, NEW s0, countPage = CountPage(n0, l0, c0, k0, s0),
           NEW n \in Nat, NEW l \in BOOLEAN, NEW c, NEW s,
           LapsEcho!Render(CountPage(n, l, c, k0, s)),
           l /\ n = n0 /\ l = l0 => k0 = n,
           UNCHANGED <<countCar, cards, reloads, losses>>,
           logged' \in Nat, logged <= logged', n <= logged', cuts' \in Nat,
           saved' \in Nat \cup {None}, saved' # None => n = 0 /\ saved' <= logged',
           reloads = 0 => saved' = None,
           cuts' = 0 => logged' = IF saved' = None THEN n ELSE saved'
    PROVE  EchoInv'
  <1>0. countPage.n = n0 /\ countPage.link = l0 /\ countPage.last = k0
    BY DEF CountPage
  <1>a. /\ k0 \in Nat /\ down \in Seq(CountMessage)
        /\ countCar \in Nat /\ cards \in Nat /\ logged \in Nat /\ reloads \in Nat /\ losses \in Nat
    <2>1. PICK c_, s_ : \E n_, k_ \in Nat : \E l_ \in BOOLEAN : countPage = CountPage(n_, l_, c_, k_, s_)
      BY DEF EchoInv, EchoTypes
    <2>2. PICK n_, k_ \in Nat : \E l_ \in BOOLEAN : countPage = CountPage(n_, l_, c_, k_, s_)
      BY <2>1
    <2>3. countPage.last \in Nat
      BY <2>2 DEF CountPage
    <2> QED
      BY <1>0, <2>3 DEF EchoInv, EchoTypes
  <1>b. PICK g \in Nat, e \in Nat : Echoes(down, g, e) /\ EchoCar(g, e)
    BY DEF EchoInv
  <1>c. k0 # 0 => e = k0
    BY <1>0, <1>b DEF EchoCar
  <1>d. PICK c2, k2, e2 :
              /\ countPage' = CountPage(n, l, c2, k2, s)
              /\ k2 \in Nat /\ e2 \in Nat
              /\ down' \in Seq(CountMessage) /\ Echoes(down', g, e2)
              /\ l => k2 = n
              /\ (k2 = k0 /\ e2 = e) \/ (k2 = n /\ e2 = n)
              /\ \A i \in 1..Len(down') : (i \in 1..Len(down) /\ down'[i] = down[i]) \/ down'[i].value = n
    BY <1>a, <1>b, <1>c, EchoRender
  <1>e. countPage'.n = n /\ countPage'.link = l /\ countPage'.last = k2
    BY <1>d DEF CountPage
  <1>1. EchoTypes'
    <2>1. \E c_, s_ : \E n_, k_ \in Nat : \E l_ \in BOOLEAN : countPage' = CountPage(n_, l_, c_, k_, s_)
      BY <1>d
    <2> QED
      BY <1>a, <1>d, <2>1 DEF EchoTypes
  <1>2. EchoCounts'
    <2>1. \A i \in 1..Len(down') : down'[i].topic # "lapReset" => down'[i].value <= logged'
      <3>1. \A i \in 1..Len(down) : down[i].topic # "lapReset" => down[i].value <= logged
        BY DEF EchoInv, EchoCounts
      <3>2. \A i \in 1..Len(down) : down[i].value \in Nat
        <4>1. \A i \in 1..Len(down) : down[i] \in CountMessage
          BY <1>a
        <4>2. \A m \in CountMessage : m.value \in Nat
          BY DEF CountMessage
        <4> QED
          BY <4>1, <4>2
      <3>3. \A i \in 1..Len(down) : down[i].topic # "lapReset" => down[i].value <= logged'
        BY <1>a, <3>1, <3>2
      <3> QED
        BY <1>d, <3>3
    <2> QED
      BY <1>d, <1>e, <2>1 DEF EchoCounts
  <1>3. EchoCar(g, e2)'
    BY <1>0, <1>a, <1>b, <1>d, <1>e DEF EchoCar
  <1>4. \E g_, e_ \in Nat : Echoes(down', g_, e_) /\ EchoCar(g_, e_)'
    BY <1>b, <1>d, <1>3
  <1> QED
    BY <1>1, <1>2, <1>4 DEF EchoInv

\* The page's fields, and what is known of them.
LEMMA EchoPage ==
    ASSUME EchoInv
    PROVE  \E n, l, c, k, s :
              /\ countPage = CountPage(n, l, c, k, s)
              /\ n \in Nat /\ l \in BOOLEAN /\ k \in Nat
              /\ l => k = n
              /\ saved # None => n = 0
              /\ n <= logged
              /\ cuts = 0 => logged = IF saved = None THEN n ELSE saved
  <1>1. PICK c, s : \E n, k \in Nat : \E l \in BOOLEAN : countPage = CountPage(n, l, c, k, s)
    BY DEF EchoInv, EchoTypes
  <1>2. PICK n, k \in Nat : \E l \in BOOLEAN : countPage = CountPage(n, l, c, k, s)
    BY <1>1
  <1>3. PICK l \in BOOLEAN : countPage = CountPage(n, l, c, k, s)
    BY <1>2
  <1>4. countPage.n = n /\ countPage.link = l /\ countPage.last = k
    BY <1>3 DEF CountPage
  <1>5. /\ l => k = n
        /\ saved # None => n = 0
        /\ n <= logged
        /\ cuts = 0 => logged = IF saved = None THEN n ELSE saved
    BY <1>4 DEF EchoInv, EchoCounts
  <1> WITNESS n, l, c, k, s
  <1> QED
    BY <1>3, <1>5

LEMMA EchoLogLap ==
    ASSUME EchoInv, LapsEcho!LogLap
    PROVE  EchoInv'
  <1>1. PICK n, l, c, k, s :
              /\ countPage = CountPage(n, l, c, k, s)
              /\ n \in Nat /\ l \in BOOLEAN /\ k \in Nat
              /\ l => k = n
              /\ saved # None => n = 0
              /\ n <= logged
              /\ cuts = 0 => logged = IF saved = None THEN n ELSE saved
    BY EchoPage
  <1>2. [countPage EXCEPT !.n = countPage.n + 1] = CountPage(n + 1, l, c, k, s)
    BY <1>1 DEF CountPage
  <1>3. LapsEcho!Render(CountPage(n + 1, l, c, k, s))
    BY <1>2 DEF LapsEcho!LogLap
  <1>4. saved = None /\ logged' = logged + 1 /\ UNCHANGED <<saved, countCar, cards, cuts, reloads, losses>>
    BY DEF LapsEcho!LogLap
  <1>5. logged \in Nat /\ cuts \in Nat
    BY DEF EchoInv, EchoTypes
  <1> QED
    BY <1>1, <1>3, <1>4, <1>5, EchoRendered

LEMMA EchoDeselect ==
    ASSUME EchoInv, LapsEcho!Deselect
    PROVE  EchoInv'
  <1>1. PICK n, l, c, k, s :
              /\ countPage = CountPage(n, l, c, k, s)
              /\ n \in Nat /\ l \in BOOLEAN /\ k \in Nat
              /\ l => k = n
              /\ saved # None => n = 0
              /\ n <= logged
              /\ cuts = 0 => logged = IF saved = None THEN n ELSE saved
    BY EchoPage
  <1>2. countPage.n = n /\ [countPage EXCEPT !.n = countPage.n - 1] = CountPage(n - 1, l, c, k, s)
    BY <1>1 DEF CountPage
  <1>3. LapsEcho!Render(CountPage(n - 1, l, c, k, s))
    BY <1>2 DEF LapsEcho!Deselect
  <1>4. n > 0 /\ cuts' = cuts + 1 /\ UNCHANGED <<saved, logged, countCar, cards, reloads, losses>>
    BY <1>2 DEF LapsEcho!Deselect
  <1>5. logged \in Nat /\ cuts \in Nat
    BY DEF EchoInv, EchoTypes
  <1>6. n - 1 \in Nat /\ n - 1 <= logged /\ saved = None /\ cuts' # 0 /\ n - 1 # n
    BY <1>1, <1>4, <1>5
  <1>7. n - 1 <= logged' /\ saved' = None /\ logged' \in Nat /\ logged <= logged' /\ cuts' \in Nat
    BY <1>4, <1>5, <1>6
  <1> QED
    BY <1>1, <1>3, <1>4, <1>6, <1>7, EchoRendered

LEMMA EchoLinkUp ==
    ASSUME EchoInv, LapsEcho!LinkUp
    PROVE  EchoInv'
  <1>1. PICK n, l, c, k, s :
              /\ countPage = CountPage(n, l, c, k, s)
              /\ n \in Nat /\ l \in BOOLEAN /\ k \in Nat
              /\ l => k = n
              /\ saved # None => n = 0
              /\ n <= logged
              /\ cuts = 0 => logged = IF saved = None THEN n ELSE saved
    BY EchoPage
  <1>2. countPage.link = l /\ \A v : [countPage EXCEPT !.link = v] = CountPage(n, v, c, k, s)
    BY <1>1 DEF CountPage
  <1>3. LapsEcho!Render(CountPage(n, TRUE, c, k, s))
    BY <1>2, Zenon DEF LapsEcho!LinkUp
  <1>4. l # TRUE
    BY <1>2 DEF LapsEcho!LinkUp
  <1>5. UNCHANGED <<saved, logged, cuts, countCar, cards, reloads, losses>>
    BY DEF LapsEcho!LinkUp
  <1>6. /\ logged' \in Nat /\ cuts' \in Nat /\ logged <= logged' /\ saved' \in Nat \cup {None}
        /\ saved' # None => saved' <= logged'
        /\ reloads = 0 => saved' = None
    BY <1>5 DEF EchoInv, EchoTypes, EchoCounts
  <1>7. /\ n <= logged' /\ (saved' # None => n = 0 /\ saved' <= logged')
        /\ cuts' = 0 => logged' = IF saved' = None THEN n ELSE saved'
        /\ UNCHANGED <<countCar, cards, reloads, losses>>
    BY <1>1, <1>5, <1>6
  <1>8. PICK l2 \in BOOLEAN : l2 = TRUE
    OBVIOUS
  <1>9. LapsEcho!Render(CountPage(n, l2, c, k, s)) /\ l2 # l
    BY <1>3, <1>4, <1>8
  <1> QED
    BY <1>1, <1>6, <1>7, <1>9, EchoRendered

LEMMA EchoRestore ==
    ASSUME EchoInv, LapsEcho!Restore
    PROVE  EchoInv'
  <1>1. PICK n, l, c, k, s :
              /\ countPage = CountPage(n, l, c, k, s)
              /\ n \in Nat /\ l \in BOOLEAN /\ k \in Nat
              /\ l => k = n
              /\ saved # None => n = 0
              /\ n <= logged
              /\ cuts = 0 => logged = IF saved = None THEN n ELSE saved
    BY EchoPage
  <1>2. [countPage EXCEPT !.n = saved] = CountPage(saved, l, c, k, s)
    BY <1>1 DEF CountPage
  <1>3. LapsEcho!Render(CountPage(saved, l, c, k, s))
    BY <1>2 DEF LapsEcho!Restore
  <1>4. saved # None /\ saved' = None /\ UNCHANGED <<logged, cuts, countCar, cards, reloads, losses>>
    BY DEF LapsEcho!Restore
  <1>5. /\ saved \in Nat /\ saved <= logged
        /\ logged' \in Nat /\ cuts' \in Nat /\ logged <= logged'
    BY <1>4 DEF EchoInv, EchoTypes, EchoCounts
  <1> QED
    BY <1>1, <1>3, <1>4, <1>5, EchoRendered

LEMMA EchoReceiveState ==
    ASSUME EchoInv, LapsEcho!ReceiveState
    PROVE  EchoInv'
  <1>1. PICK n, l, c, k, s :
              /\ countPage = CountPage(n, l, c, k, s)
              /\ n \in Nat /\ l \in BOOLEAN /\ k \in Nat
              /\ l => k = n
              /\ saved # None => n = 0
              /\ n <= logged
              /\ cuts = 0 => logged = IF saved = None THEN n ELSE saved
    BY EchoPage
  <1>2. PICK c2, s2 : LapsEcho!Render(CountPage(n, l, c2, k, s2))
    <2>1. PICK c2, s2 : LapsEcho!Render([countPage EXCEPT !.seen = s2, !.counter = c2])
      BY Zenon DEF LapsEcho!ReceiveState
    <2>2. [countPage EXCEPT !.seen = s2] = CountPage(n, l, c, k, s2)
      BY <1>1 DEF CountPage
    <2>3. [CountPage(n, l, c, k, s2) EXCEPT !.counter = c2] = CountPage(n, l, c2, k, s2)
      BY DEF CountPage
    <2>4. [countPage EXCEPT !.seen = s2, !.counter = c2] = [[countPage EXCEPT !.seen = s2] EXCEPT !.counter = c2]
      OBVIOUS
    <2>5. [countPage EXCEPT !.seen = s2, !.counter = c2] = CountPage(n, l, c2, k, s2)
      BY <2>2, <2>3, <2>4
    <2>6. LapsEcho!Render(CountPage(n, l, c2, k, s2))
      BY <2>1, <2>5
    <2> QED
      BY <2>6
  <1>3. UNCHANGED <<saved, logged, cuts, countCar, cards, reloads, losses>>
    BY DEF LapsEcho!ReceiveState
  <1>4. /\ logged' \in Nat /\ cuts' \in Nat /\ logged <= logged' /\ saved' \in Nat \cup {None}
        /\ saved' # None => saved' <= logged'
        /\ reloads = 0 => saved' = None
    BY <1>3 DEF EchoInv, EchoTypes, EchoCounts
  <1> QED
    BY <1>1, <1>2, <1>3, <1>4, EchoRendered

LEMMA EchoResetSession ==
    ASSUME EchoInv, LapsEcho!ResetSession
    PROVE  EchoInv'
  <1>1. PICK n, l, c, k, s :
              /\ countPage = CountPage(n, l, c, k, s)
              /\ n \in Nat /\ l \in BOOLEAN /\ k \in Nat
              /\ l => k = n
              /\ saved # None => n = 0
              /\ n <= logged
              /\ cuts = 0 => logged = IF saved = None THEN n ELSE saved
    BY EchoPage
  <1>2. countPage.link = l
    BY <1>1 DEF CountPage
  <1>3. l = TRUE
    BY <1>1, <1>2 DEF LapsEcho!ResetSession
  <1>4. /\ countPage' = [countPage EXCEPT !.n = 0, !.last = 0, !.counter = 0]
        /\ down' = Append(down, LapsEcho!Msg("lapReset", 1))
        /\ cuts' = cuts + 1 /\ saved = None
        /\ UNCHANGED <<saved, countCar, cards, logged, reloads, losses>>
    BY <1>2, <1>3 DEF LapsEcho!ResetSession
  <1>5. countPage' = CountPage(0, l, 0, 0, s)
    <2>1. [countPage EXCEPT !.n = 0] = CountPage(0, l, c, k, s)
      BY <1>1 DEF CountPage
    <2>2. [CountPage(0, l, c, k, s) EXCEPT !.last = 0] = CountPage(0, l, c, 0, s)
      BY DEF CountPage
    <2>3. [CountPage(0, l, c, 0, s) EXCEPT !.counter = 0] = CountPage(0, l, 0, 0, s)
      BY DEF CountPage
    <2>4. [countPage EXCEPT !.n = 0, !.last = 0, !.counter = 0]
            = [[[countPage EXCEPT !.n = 0] EXCEPT !.last = 0] EXCEPT !.counter = 0]
      OBVIOUS
    <2> QED
      BY <1>4, <2>1, <2>2, <2>3, <2>4
  <1>6. countPage'.n = 0 /\ countPage'.last = 0 /\ countPage'.link = l
    BY <1>5 DEF CountPage
  <1> DEFINE m == LapsEcho!Msg("lapReset", 1)
  <1>7. m \in CountMessage /\ m.topic = "lapReset"
    BY DEF LapsEcho!Msg, CountMessage
  <1>8. down' = Append(down, m)
    BY <1>4
  <1> HIDE DEF m
  <1>9. down \in Seq(CountMessage) /\ cuts \in Nat /\ logged \in Nat
    BY DEF EchoInv, EchoTypes
  <1>a. PICK g \in Nat, e \in Nat : Echoes(down, g, e) /\ EchoCar(g, e)
    BY DEF EchoInv
  <1>b. down' \in Seq(CountMessage) /\ Echoes(down', g, 0)
    BY <1>7, <1>8, <1>9, <1>a, EchoAppend
  <1>c. EchoTypes'
    <2>1. \E c_, s_ : \E n_, k_ \in Nat : \E l_ \in BOOLEAN : countPage' = CountPage(n_, l_, c_, k_, s_)
      BY <1>1, <1>5
    <2>2. {countCar, cards, logged, cuts, reloads, losses}' \subseteq Nat
      <3>1. {countCar, cards, logged, cuts, reloads, losses} \subseteq Nat
        BY DEF EchoInv, EchoTypes
      <3> QED
        BY <1>4, <3>1
    <2>3. saved' \in Nat \cup {None}
      BY <1>4
    <2> QED
      BY <1>b, <2>1, <2>2, <2>3, Zenon DEF EchoTypes
  <1>d. EchoCounts'
    <2>1. \A i \in 1..Len(down') : (i \in 1..Len(down) /\ down'[i] = down[i]) \/ down'[i] = m
      BY <1>7, <1>8, <1>9
    <2>2. \A i \in 1..Len(down') : down'[i].topic # "lapReset" => down'[i].value <= logged
      BY <1>7, <2>1 DEF EchoInv, EchoCounts
    <2> QED
      BY <1>4, <1>6, <1>9, <2>2 DEF EchoInv, EchoCounts
  <1>e. EchoCar(g, 0)'
    BY <1>4, <1>6, <1>9, <1>a DEF EchoCar
  <1> QED
    BY <1>a, <1>b, <1>c, <1>d, <1>e DEF EchoInv

LEMMA EchoLinkDown ==
    ASSUME EchoInv, LapsEcho!LinkDown
    PROVE  EchoInv'
  <1>1. PICK n, l, c, k, s :
              /\ countPage = CountPage(n, l, c, k, s)
              /\ n \in Nat /\ l \in BOOLEAN /\ k \in Nat
              /\ l => k = n
              /\ saved # None => n = 0
              /\ n <= logged
              /\ cuts = 0 => logged = IF saved = None THEN n ELSE saved
    BY EchoPage
  <1>2. countPage' = CountPage(n, FALSE, c, k, s)
    <2>1. \A v : [countPage EXCEPT !.link = v] = CountPage(n, v, c, k, s)
      BY <1>1 DEF CountPage
    <2> QED
      BY <2>1, Zenon DEF LapsEcho!LinkDown
  <1>3. UNCHANGED <<saved, down, countCar, cards, logged, cuts, reloads, losses>>
    BY DEF LapsEcho!LinkDown
  <1>4. /\ countPage'.n = countPage.n /\ countPage'.last = countPage.last
        /\ countPage'.link = FALSE
    BY <1>1, <1>2 DEF CountPage
  <1>5. EchoTypes'
    <2>1. \E c_, s_ : \E n_, k_ \in Nat : \E l_ \in BOOLEAN : countPage' = CountPage(n_, l_, c_, k_, s_)
      BY <1>1, <1>2
    <2> QED
      BY <1>3, <2>1 DEF EchoInv, EchoTypes
  <1>6. EchoCounts'
    BY <1>3, <1>4 DEF EchoInv, EchoCounts
  <1>7. \A g, e \in Nat : Echoes(down, g, e) /\ EchoCar(g, e) => Echoes(down', g, e) /\ EchoCar(g, e)'
    BY <1>3, <1>4 DEF EchoCar
  <1>8. \E g, e \in Nat : Echoes(down', g, e) /\ EchoCar(g, e)'
    BY <1>7 DEF EchoInv
  <1> QED
    BY <1>5, <1>6, <1>8 DEF EchoInv

\* A reload on a broken link forgets what the client had not delivered.
LEMMA EchoReload ==
    ASSUME EchoInv, LapsEcho!Reload
    PROVE  EchoInv'
  <1>1. PICK n, l, c, k, s :
              /\ countPage = CountPage(n, l, c, k, s)
              /\ n \in Nat /\ l \in BOOLEAN /\ k \in Nat
              /\ l => k = n
              /\ saved # None => n = 0
              /\ n <= logged
              /\ cuts = 0 => logged = IF saved = None THEN n ELSE saved
    BY EchoPage
  <1>2. countPage' = CountPage(0, FALSE, 0, 0, None)
    BY Zenon DEF LapsEcho!Reload, LapsEcho!Fresh, CountPage
  <1>3. countPage.n = n
    BY <1>1 DEF CountPage
  <1>4. /\ saved = None /\ saved' = n /\ reloads' = reloads + 1
        /\ down' = down \/ down' = <<>>
        /\ UNCHANGED <<countCar, cards, logged, cuts, losses>>
    BY <1>3 DEF LapsEcho!Reload
  <1>5. /\ countPage'.n = 0 /\ countPage'.last = 0 /\ countPage'.link = FALSE
    BY <1>2 DEF CountPage
  <1>6. reloads \in Nat /\ n # None /\ down \in Seq(CountMessage)
    BY <1>1, DashNone DEF EchoInv, EchoTypes
  <1>7. EchoTypes'
    <2>1. \E c_, s_ : \E n_, k_ \in Nat : \E l_ \in BOOLEAN : countPage' = CountPage(n_, l_, c_, k_, s_)
      BY <1>2
    <2>2. down' \in Seq(CountMessage)
      <3>1. <<>> \in Seq(CountMessage)
        OBVIOUS
      <3> QED
        BY <1>4, <1>6, <3>1, Zenon
    <2> QED
      <3>1. {countCar, cards, logged, cuts, reloads, losses}' \subseteq Nat
        <4>1. {countCar, cards, logged, cuts, reloads, losses} \subseteq Nat
          BY DEF EchoInv, EchoTypes
        <4> QED
          BY <1>4, <1>6, <4>1
      <3>2. saved' \in Nat \cup {None}
        BY <1>1, <1>4
      <3> QED
        BY <2>1, <2>2, <3>1, <3>2, Zenon DEF EchoTypes
  <1>8. EchoCounts'
    <2>1. \A i \in 1..Len(down') : down'[i].topic # "lapReset" => down'[i].value <= logged
      BY <1>4 DEF EchoInv, EchoCounts
    <2>2. 0 <= logged
      BY DEF EchoInv, EchoTypes
    <2> QED
      BY <1>1, <1>4, <1>5, <1>6, <2>1, <2>2 DEF EchoCounts
  <1>9. PICK g \in Nat, e \in Nat : Echoes(down, g, e) /\ EchoCar(g, e)
    BY DEF EchoInv
  <1>10. CASE down' = down
    <2>1. EchoCar(g, e)'
      BY <1>4, <1>5, <1>6, <1>9 DEF EchoCar
    <2> QED
      BY <1>7, <1>8, <1>9, <1>10, <2>1 DEF EchoInv
  <1>11. CASE down' = <<>>
    <2>1. EchoCar(g, g)'
      BY <1>4, <1>5, <1>6, <1>9 DEF EchoCar
    <2>2. Echoes(down', g, g)
      BY <1>11, EchoEmpty
    <2> QED
      BY <1>7, <1>8, <1>9, <2>1, <2>2 DEF EchoInv
  <1> QED
    BY <1>4, <1>10, <1>11

LEMMA LargerOfTwo ==
    ASSUME NEW a \in Nat, NEW b \in Nat
    PROVE  LapsEcho!Max({a, b}) = IF a >= b THEN a ELSE b
  <1>1. \A x : (x \in {a, b} /\ \A y \in {a, b} : x >= y) => x = IF a >= b THEN a ELSE b
    OBVIOUS
  <1>2. \E x \in {a, b} : \A y \in {a, b} : x >= y
    OBVIOUS
  <1> QED
    BY <1>1, <1>2 DEF LapsEcho!Max

\* What the messages still under way are after the first of them is gone.
LEMMA EchoShorter ==
    ASSUME EchoInv, down # <<>>, down' = Tail(down), UNCHANGED logged
    PROVE  /\ down' \in Seq(CountMessage)
           /\ \A i \in 1..Len(down') : down'[i].topic # "lapReset" => down'[i].value <= logged'
           /\ Head(down) \in CountMessage
           /\ Head(down).topic # "lapReset" => Head(down).value <= logged
  <1>1. down \in Seq(CountMessage)
    BY DEF EchoInv, EchoTypes
  <1>2. down' \in Seq(CountMessage)
    BY <1>1
  <1>3. /\ Len(down) \in Nat /\ Len(down) > 0 /\ Len(down') = Len(down) - 1 /\ Head(down) = down[1]
        /\ \A i \in 1..(Len(down) - 1) : down'[i] = down[i + 1]
    BY <1>1
  <1>4. \A i \in 1..Len(down) : down[i].topic # "lapReset" => down[i].value <= logged
    BY DEF EchoInv, EchoCounts
  <1>5. \A i \in 1..Len(down') : i + 1 \in 1..Len(down) /\ down'[i] = down[i + 1]
    BY <1>3
  <1>6. 1 \in 1..Len(down)
    BY <1>3
  <1> QED
    BY <1>1, <1>2, <1>3, <1>4, <1>5, <1>6

LEMMA EchoDeliver ==
    ASSUME EchoInv, LapsEcho!Deliver
    PROVE  EchoInv'
  <1>1. down # <<>> /\ down' = Tail(down) /\ LapsEcho!OnMessage(Head(down))
          /\ UNCHANGED <<countPage, saved, logged, cuts, reloads, losses>>
    BY DEF LapsEcho!Deliver
  <1> DEFINE m == Head(down)
  <1>2. /\ down' \in Seq(CountMessage) /\ m \in CountMessage
        /\ \A i \in 1..Len(down') : down'[i].topic # "lapReset" => down'[i].value <= logged'
        /\ m.topic # "lapReset" => m.value <= logged
    BY <1>1, EchoShorter
  <1>3. PICK g \in Nat, e \in Nat : Echoes(down, g, e) /\ EchoCar(g, e)
    BY DEF EchoInv
  <1>4. PICK g2 \in Nat :
            /\ Echoes(down', g2, e)
            /\ \/ m.topic = "lapTrigger" /\ m.value = g /\ g2 = g
               \/ m.topic = "lapCount" /\ g2 = m.value
               \/ m.topic = "lapReset" /\ g2 = 0
    BY <1>1, <1>3, EchoTail DEF EchoInv, EchoTypes
  <1>5. LapsEcho!OnMessage(m)
    BY <1>1
  <1> HIDE DEF m
  <1>6. /\ m.value \in Nat /\ countCar \in Nat /\ cards \in Nat /\ logged \in Nat /\ losses \in Nat
    BY <1>2 DEF CountMessage, EchoInv, EchoTypes
  <1>7. LapsEcho!Max({countCar, m.value}) = IF countCar >= m.value THEN countCar ELSE m.value
    BY <1>6, LargerOfTwo
  <1>8. /\ m.topic = "lapTrigger" =>
              /\ countCar' = IF countCar >= m.value THEN countCar ELSE m.value
              /\ cards' = IF m.value = countCar + 1 THEN cards + 1 ELSE cards
        /\ m.topic = "lapCount" => countCar' = m.value /\ cards' = cards
        /\ m.topic = "lapReset" => countCar' = 0 /\ cards' = cards
    BY <1>5, <1>7 DEF LapsEcho!OnMessage
  <1>9. EchoCar(g2, e)' /\ countCar' \in Nat /\ cards' \in Nat
    <2>1. CASE m.topic = "lapTrigger"
      <3>1. m.value = g /\ g2 = g
        BY <1>4, <2>1
      <3> QED
        BY <1>1, <1>2, <1>3, <1>6, <1>8, <2>1, <3>1 DEF EchoCar
    <2>2. CASE m.topic = "lapCount"
      <3>1. g2 = m.value
        BY <1>4, <2>2
      <3> QED
        BY <1>1, <1>2, <1>3, <1>6, <1>8, <2>2, <3>1 DEF EchoCar
    <2>3. CASE m.topic = "lapReset"
      <3>1. g2 = 0
        BY <1>4, <2>3
      <3> QED
        BY <1>1, <1>2, <1>3, <1>6, <1>8, <2>3, <3>1 DEF EchoCar
    <2> QED
      BY <1>4, <2>1, <2>2, <2>3
  <1>10. EchoTypes'
    <2>1. \E c_, s_ : \E n_, k_ \in Nat : \E l_ \in BOOLEAN : countPage' = CountPage(n_, l_, c_, k_, s_)
      BY <1>1 DEF EchoInv, EchoTypes
    <2> QED
      BY <1>1, <1>2, <1>9, <2>1 DEF EchoInv, EchoTypes
  <1>11. EchoCounts'
    BY <1>1, <1>2 DEF EchoInv, EchoCounts
  <1> QED
    BY <1>3, <1>4, <1>9, <1>10, <1>11 DEF EchoInv

LEMMA EchoLose ==
    ASSUME EchoInv, NEW restart \in BOOLEAN, LapsEcho!Lose(restart)
    PROVE  EchoInv'
  <1>1. down # <<>> /\ down' = Tail(down) /\ losses < 1 /\ losses' = losses + 1
          /\ (countCar' = 0 \/ countCar' = countCar)
          /\ UNCHANGED <<countPage, saved, cards, logged, cuts, reloads>>
    BY DEF LapsEcho!Lose
  <1>2. /\ down' \in Seq(CountMessage) /\ Head(down) \in CountMessage
        /\ \A i \in 1..Len(down') : down'[i].topic # "lapReset" => down'[i].value <= logged'
        /\ Head(down).topic # "lapReset" => Head(down).value <= logged
    BY <1>1, EchoShorter
  <1>3. PICK g \in Nat, e \in Nat : Echoes(down, g, e) /\ EchoCar(g, e)
    BY DEF EchoInv
  <1>4. PICK g2 \in Nat :
            /\ Echoes(down', g2, e)
            /\ \/ Head(down).topic = "lapTrigger" /\ Head(down).value = g /\ g2 = g
               \/ Head(down).topic = "lapCount" /\ g2 = Head(down).value
               \/ Head(down).topic = "lapReset" /\ g2 = 0
    BY <1>1, <1>3, EchoTail DEF EchoInv, EchoTypes
  <1>5. countCar \in Nat /\ cards \in Nat /\ logged \in Nat /\ losses \in Nat /\ losses = 0
    BY <1>1 DEF EchoInv, EchoTypes
  <1>6. g2 <= logged
    BY <1>2, <1>3, <1>4, <1>5 DEF EchoCar
  <1>7. EchoCar(g2, e)'
    BY <1>1, <1>3, <1>5, <1>6 DEF EchoCar
  <1>8. EchoTypes'
    <2>1. \E c_, s_ : \E n_, k_ \in Nat : \E l_ \in BOOLEAN : countPage' = CountPage(n_, l_, c_, k_, s_)
      BY <1>1 DEF EchoInv, EchoTypes
    <2> QED
      BY <1>1, <1>2, <1>5, <2>1 DEF EchoInv, EchoTypes
  <1>9. EchoCounts'
    BY <1>1, <1>2 DEF EchoInv, EchoCounts
  <1> QED
    BY <1>3, <1>4, <1>7, <1>8, <1>9 DEF EchoInv

LEMMA EchoPublishState ==
    ASSUME EchoInv, UNCHANGED <<countPage, saved, down, countCar, cards, logged, cuts, reloads, losses>>
    PROVE  EchoInv'
  <1>1. EchoTypes'
    <2>1. \E c_, s_ : \E n_, k_ \in Nat : \E l_ \in BOOLEAN : countPage' = CountPage(n_, l_, c_, k_, s_)
      BY DEF EchoInv, EchoTypes
    <2> QED
      BY <2>1 DEF EchoInv, EchoTypes
  <1>2. EchoCounts'
    BY DEF EchoInv, EchoCounts
  <1>3. \A g, e \in Nat : Echoes(down, g, e) /\ EchoCar(g, e) => Echoes(down', g, e) /\ EchoCar(g, e)'
    BY DEF EchoCar
  <1> QED
    BY <1>1, <1>2, <1>3 DEF EchoInv

LEMMA EchoNext ==
    ASSUME EchoInv, LapsEcho!Next
    PROVE  EchoInv'
  <1>1. CASE LapsEcho!LogLap
    BY <1>1, EchoLogLap
  <1>2. CASE LapsEcho!Deselect
    BY <1>2, EchoDeselect
  <1>3. CASE LapsEcho!ResetSession
    BY <1>3, EchoResetSession
  <1>4. CASE LapsEcho!LinkDown
    BY <1>4, EchoLinkDown
  <1>5. CASE LapsEcho!LinkUp
    BY <1>5, EchoLinkUp
  <1>6. CASE LapsEcho!Reload
    BY <1>6, EchoReload
  <1>7. CASE LapsEcho!Restore
    BY <1>7, EchoRestore
  <1>8. CASE LapsEcho!ReceiveState
    BY <1>8, EchoReceiveState
  <1>9. CASE LapsEcho!Deliver
    BY <1>9, EchoDeliver
  <1>10. CASE LapsEcho!PublishState
    BY <1>10, EchoPublishState DEF LapsEcho!PublishState
  <1>11. CASE \E restart \in BOOLEAN : LapsEcho!Lose(restart)
    BY <1>11, EchoLose
  <1> QED
    BY <1>1, <1>2, <1>3, <1>4, <1>5, <1>6, <1>7, <1>8, <1>9, <1>10, <1>11, Zenon DEF LapsEcho!Next

(* ----- The steps of the scene with cards ----- *)

LEMMA LargerCard ==
    ASSUME NEW a \in Nat, NEW b \in Nat
    PROVE  LapsCards!Max({a, b}) = IF a >= b THEN a ELSE b
  <1>1. \A x : (x \in {a, b} /\ \A y \in {a, b} : x >= y) => x = IF a >= b THEN a ELSE b
    OBVIOUS
  <1>2. \E x \in {a, b} : \A y \in {a, b} : x >= y
    OBVIOUS
  <1> QED
    BY <1>1, <1>2 DEF LapsCards!Max

\* What a page of count n on link l that had published k sends after the messages q.
CardsOut(n, l, k, n0, l0, k2, q, q2) ==
    \/ /\ l /\ n # k /\ (n # n0 \/ l # l0) /\ k2 = n
       /\ \/ q2 = Append(q, LapsCards!Msg("lapTrigger", n))
          \/ q2 = Append(Append(q, LapsCards!Msg("lapTrigger", n)), LapsCards!Msg("lapTrigger", n))
    \/ /\ ~l \/ n = k \/ (n = n0 /\ l = l0)
       /\ k2 = k
       /\ \/ q2 = q
          \/ l /\ n > 0 /\ q2 = Append(q, LapsCards!Msg("lapTrigger", n))

LEMMA CardsRender ==
    ASSUME NEW n \in Nat, NEW l \in BOOLEAN, NEW k \in Nat, k <= n, NEW s,
           NEW n0, NEW l0, NEW c0, NEW k0, NEW s0, countPage = CountPage(n0, l0, c0, k0, s0),
           down \in Seq(TriggerMessage), LapsCards!Render(CountPage(n, l, k, k, s))
    PROVE  \E k2 : /\ countPage' = CountPage(n, l, k2, k2, s)
                   /\ CardsOut(n, l, k, n0, l0, k2, down, down')
  <1> DEFINE p == CountPage(n, l, k, k, s)
             moved == <<p.n, p.link>> # <<countPage.n, countPage.link>>
             sync == IF moved THEN LapsCards!SyncEffect(p) ELSE [page |-> p, out |-> <<>>]
             drain == IF moved \/ p.seen # countPage.seen THEN LapsCards!DrainEffect(p) ELSE <<>>
             M == LapsCards!Msg("lapTrigger", n)
  <1>1. countPage' = sync.page /\ down' = down \o sync.out \o drain
    BY DEF LapsCards!Render
  <1>2. /\ p.n = n /\ p.link = l /\ p.last = k /\ p.counter = k /\ p.seen = s
        /\ countPage.n = n0 /\ countPage.link = l0
    BY DEF CountPage
  <1>3. moved <=> (n # n0 \/ l # l0)
    BY <1>2
  <1>4. drain = <<>> \/ (l /\ n > 0 /\ drain = <<M>>)
    BY <1>2 DEF LapsCards!DrainEffect
  <1>7. M \in TriggerMessage
    BY DEF LapsCards!Msg, TriggerMessage
  <1>5. CASE moved /\ l /\ n # k
    <2>1. [p EXCEPT !.last = n] = CountPage(n, l, k, n, s)
      BY DEF CountPage
    <2>2. [CountPage(n, l, k, n, s) EXCEPT !.counter = n] = CountPage(n, l, n, n, s)
      BY DEF CountPage
    <2>3. LapsCards!SyncEffect(p) = LapsCards!SendLap(CountPage(n, l, k, n, s))
      <3>1. p.link = TRUE /\ p.n > p.last /\ p.n # p.last
        BY <1>2, <1>5
      <3>2. [p EXCEPT !.last = p.n] = CountPage(n, l, k, n, s)
        BY <1>2, <2>1
      <3> HIDE DEF p
      <3> QED
        BY <3>1, <3>2, Zenon DEF LapsCards!SyncEffect
    <2>4. CountPage(n, l, k, n, s).n = n /\ CountPage(n, l, k, n, s).counter = k
      BY DEF CountPage
    <2>5. LapsCards!Max({n, k + 1}) = n
      <3>1. k + 1 \in Nat /\ n >= k + 1
        BY <1>5
      <3> QED
        BY <3>1, LargerCard
    <2>6. LapsCards!SyncEffect(p) = [page |-> CountPage(n, l, n, n, s), out |-> <<M>>]
      BY <2>2, <2>3, <2>4, <2>5 DEF LapsCards!SendLap
    <2>7. sync.page = CountPage(n, l, n, n, s) /\ sync.out = <<M>>
      <3>1. sync = LapsCards!SyncEffect(p)
        BY <1>5, Zenon
      <3> HIDE DEF sync, M
      <3> QED
        BY <2>6, <3>1
    <2> HIDE DEF sync, drain, moved, M
    <2>8. down \o <<M>> \o <<>> = Append(down, M) /\ down \o <<M>> \o <<M>> = Append(Append(down, M), M)
      BY <1>7
    <2>9. down' = Append(down, M) \/ down' = Append(Append(down, M), M)
      BY <1>1, <1>4, <2>7, <2>8
    <2> QED
      BY <1>1, <1>3, <1>5, <2>7, <2>9 DEF CardsOut, M
  <1>6. CASE ~(moved /\ l /\ n # k)
    <2>1. sync = [page |-> p, out |-> <<>>]
      BY <1>2, <1>6 DEF LapsCards!SyncEffect
    <2>2. sync.page = p /\ sync.out = <<>>
      BY <2>1
    <2> HIDE DEF sync, drain, moved, M
    <2>3. down \o <<>> \o <<>> = down /\ down \o <<>> \o <<M>> = Append(down, M)
      BY <1>7
    <2>4. down' = down \/ (l /\ n > 0 /\ down' = Append(down, M))
      BY <1>1, <1>4, <2>2, <2>3
    <2> QED
      BY <1>1, <1>3, <1>6, <2>2, <2>4 DEF CardsOut, M
  <1> QED
    BY <1>5, <1>6

LEMMA TriggersAppend ==
    ASSUME NEW q, NEW c \in Nat, NEW k \in Nat, NEW n \in Nat, k <= n, TriggersUpTo(q, c, k)
    PROVE  TriggersUpTo(Append(q, LapsCards!Msg("lapTrigger", n)), c, n)
  <1> DEFINE M == LapsCards!Msg("lapTrigger", n)
             Q == Append(q, M)
  <1>1. M \in TriggerMessage /\ M.value = n
    BY DEF LapsCards!Msg, TriggerMessage
  <1> HIDE DEF M
  <1>2. q \in Seq(TriggerMessage)
    BY DEF TriggersUpTo
  <1>3. /\ Q \in Seq(TriggerMessage) /\ Q # <<>> /\ Len(Q) = Len(q) + 1 /\ Q[Len(q) + 1] = M
        /\ \A i \in 1..Len(q) : Q[i] = q[i]
    BY <1>1, <1>2
  <1>4. \A i \in 1..Len(q) : q[i].value \in Nat /\ q[i].value <= k
    <2>1. \A i \in 1..Len(q) : q[i] \in TriggerMessage
      BY <1>2
    <2>2. \A m \in TriggerMessage : m.value \in Nat
      BY DEF TriggerMessage
    <2> QED
      BY <2>1, <2>2 DEF TriggersUpTo
  <1> HIDE DEF Q
  <1>5. \A i \in 1..Len(Q) : Q[i].value <= n
    <2> TAKE i \in 1..Len(Q)
    <2>1. CASE i = Len(q) + 1
      BY <1>1, <1>3, <2>1
    <2>2. CASE i \in 1..Len(q)
      BY <1>3, <1>4, <2>2
    <2>3. i = Len(q) + 1 \/ i \in 1..Len(q)
      BY <1>2, <1>3
    <2> QED
      BY <2>1, <2>2, <2>3
  <1>6. TriggersUpTo(Q, c, n)
    BY <1>1, <1>3, <1>5 DEF TriggersUpTo
  <1> QED
    BY <1>6 DEF Q, M

\* The page's fields, and what is known of them.
LEMMA CardsPage ==
    ASSUME CardsInv
    PROVE  \E n, l, k, s :
              /\ countPage = CountPage(n, l, k, k, s)
              /\ n \in Nat /\ l \in BOOLEAN /\ k \in Nat
              /\ l => k = n
              /\ k <= n /\ n = logged /\ countCar <= k
              /\ TriggersUpTo(down, countCar, k)
              /\ \A i \in 1..Len(countUp) : countUp[i] <= k
  <1>1. PICK c, s : \E n, k \in Nat : \E l \in BOOLEAN : countPage = CountPage(n, l, c, k, s)
    BY DEF CardsInv
  <1>2. PICK n, k \in Nat : \E l \in BOOLEAN : countPage = CountPage(n, l, c, k, s)
    BY <1>1
  <1>3. PICK l \in BOOLEAN : countPage = CountPage(n, l, c, k, s)
    BY <1>2
  <1>4. countPage.n = n /\ countPage.link = l /\ countPage.last = k /\ countPage.counter = c
    BY <1>3 DEF CountPage
  <1>5. c = k
    BY <1>4 DEF CardsInv
  <1>6. countPage = CountPage(n, l, k, k, s)
    BY <1>3, <1>5
  <1>7. /\ l => k = n
        /\ k <= n /\ n = logged /\ countCar <= k
        /\ TriggersUpTo(down, countCar, k)
        /\ \A i \in 1..Len(countUp) : countUp[i] <= k
    BY <1>4 DEF CardsInv
  <1> WITNESS n, l, k, s
  <1> QED
    BY <1>6, <1>7

\* A step that only renders the page, with count n and link l.
LEMMA CardsRendered ==
    ASSUME CardsInv,
           NEW n0, NEW l0, NEW k, NEW s0, countPage = CountPage(n0, l0, k, k, s0),
           NEW n \in Nat, NEW l \in BOOLEAN, NEW s,
           LapsCards!Render(CountPage(n, l, k, k, s)),
           n0 <= n, l /\ n = n0 /\ l = l0 => k = n,
           UNCHANGED <<countCar, cards, saved, cuts, reloads, losses>>,
           logged' = n, countUp' \in Seq(Nat),
           \A i \in 1..Len(countUp') : countUp'[i] <= k
    PROVE  CardsInv'
  <1>0. countPage.n = n0 /\ countPage.link = l0 /\ countPage.last = k
    BY DEF CountPage
  <1>a. PICK n_, l_, k_, s_ :
              /\ countPage = CountPage(n_, l_, k_, k_, s_)
              /\ n_ \in Nat /\ l_ \in BOOLEAN /\ k_ \in Nat
              /\ l_ => k_ = n_
              /\ k_ <= n_ /\ n_ = logged /\ countCar <= k_
              /\ TriggersUpTo(down, countCar, k_)
              /\ \A i \in 1..Len(countUp) : countUp[i] <= k_
    BY CardsPage
  <1>b. n0 = n_ /\ k = k_
    BY <1>0, <1>a DEF CountPage
  <1>c. k \in Nat /\ k <= n /\ countCar \in Nat /\ cards \in Nat /\ countCar <= k /\ cards <= countCar
    BY <1>a, <1>b DEF CardsInv
  <1>d. TriggersUpTo(down, countCar, k) /\ down \in Seq(TriggerMessage)
    BY <1>a, <1>b DEF TriggersUpTo
  <1>e. PICK k2 : /\ countPage' = CountPage(n, l, k2, k2, s)
                  /\ CardsOut(n, l, k, n0, l0, k2, down, down')
    BY <1>c, <1>d, CardsRender
  <1>f. /\ countPage'.n = n /\ countPage'.link = l /\ countPage'.last = k2 /\ countPage'.counter = k2
    BY <1>e DEF CountPage
  <1> DEFINE M == LapsCards!Msg("lapTrigger", n)
             D1 == Append(down, M)
             D2 == Append(D1, M)
  <1>g. TriggersUpTo(D1, countCar, n)
    BY <1>c, <1>d, TriggersAppend
  <1>h. TriggersUpTo(D2, countCar, n)
    <2> HIDE DEF D1
    <2>1. n <= n
      OBVIOUS
    <2> QED
      BY <1>c, <1>g, <2>1, TriggersAppend
  <1> HIDE DEF M, D1, D2
  <1>i. (k2 = k \/ k2 = n) /\ (l => k2 = n) /\ TriggersUpTo(down', countCar, k2)
    <2>1. CASE l /\ n # k /\ (n # n0 \/ l # l0) /\ k2 = n /\ (down' = D1 \/ down' = D2)
      BY <1>g, <1>h, <2>1
    <2>2. CASE (~l \/ n = k \/ (n = n0 /\ l = l0)) /\ k2 = k
                  /\ (down' = down \/ (l /\ n > 0 /\ down' = D1))
      BY <1>d, <1>g, <2>2
    <2> QED
      BY <1>e, <2>1, <2>2 DEF CardsOut, M, D1, D2
  <1>j. \A i \in 1..Len(countUp') : countUp'[i] <= k2
    <2>1. \A i \in 1..Len(countUp') : countUp'[i] \in Nat
      OBVIOUS
    <2> QED
      BY <1>c, <1>i, <2>1
  <1>1. \E c_, s1 : \E n1, k1 \in Nat : \E l1 \in BOOLEAN : countPage' = CountPage(n1, l1, c_, k1, s1)
    BY <1>c, <1>e, <1>i
  <1> QED
    BY <1>c, <1>f, <1>i, <1>j, <1>1 DEF CardsInv

LEMMA CardsDeliver ==
    ASSUME CardsInv, LapsCards!Deliver
    PROVE  CardsInv'
  <1>1. PICK n, l, k, s :
              /\ countPage = CountPage(n, l, k, k, s)
              /\ n \in Nat /\ l \in BOOLEAN /\ k \in Nat
              /\ l => k = n
              /\ k <= n /\ n = logged /\ countCar <= k
              /\ TriggersUpTo(down, countCar, k)
              /\ \A i \in 1..Len(countUp) : countUp[i] <= k
    BY CardsPage
  <1>2. countPage.last = k
    BY <1>1 DEF CountPage
  <1>3. /\ down # <<>> /\ down' = Tail(down) /\ LapsCards!OnMessage(Head(down))
        /\ UNCHANGED <<countPage, saved, countUp, logged, cuts, reloads, losses>>
    BY DEF LapsCards!Deliver
  <1>4. /\ down \in Seq(TriggerMessage) /\ \A i \in 1..Len(down) : down[i].value <= k
        /\ down[Len(down)].value = k
    BY <1>1, <1>3 DEF TriggersUpTo
  <1> DEFINE m == Head(down)
  <1>5. /\ Len(down) \in Nat /\ Len(down) > 0 /\ Len(down') = Len(down) - 1 /\ m = down[1]
        /\ \A i \in 1..(Len(down) - 1) : down'[i] = down[i + 1]
        /\ down' \in Seq(TriggerMessage) /\ (down' = <<>> <=> Len(down) = 1)
    <2>1. /\ Len(down) \in Nat /\ Len(down) > 0 /\ Len(down') = Len(down) - 1 /\ m = down[1]
          /\ \A i \in 1..(Len(down) - 1) : down'[i] = down[i + 1]
          /\ down' \in Seq(TriggerMessage)
      BY <1>3, <1>4
    <2>2. down' = <<>> <=> Len(down') = 0
      BY <2>1
    <2>3. Len(down') = 0 <=> Len(down) = 1
      BY <2>1
    <2> QED
      BY <2>1, <2>2, <2>3
  <1>6. m \in TriggerMessage
    BY <1>3, <1>4
  <1>a. LapsCards!OnMessage(m)
    BY <1>3
  <1> HIDE DEF m
  <1>7. m.topic = "lapTrigger" /\ m.value \in Nat /\ countCar \in Nat /\ cards \in Nat /\ cards <= countCar
    BY <1>6 DEF TriggerMessage, CardsInv
  <1>8. LapsCards!Max({countCar, m.value}) = IF countCar >= m.value THEN countCar ELSE m.value
    BY <1>7, LargerCard
  <1>9. /\ countCar' = IF countCar >= m.value THEN countCar ELSE m.value
        /\ cards' = IF m.value = countCar + 1 THEN cards + 1 ELSE cards
    BY <1>7, <1>8, <1>a DEF LapsCards!OnMessage
  <1>10. m.value <= k
    BY <1>4, <1>5
  <1>11. countCar' \in Nat /\ cards' \in Nat /\ cards' <= countCar' /\ countCar' <= k
    BY <1>1, <1>7, <1>9, <1>10
  <1>12. TriggersUpTo(down', countCar', k)
    <2>1. \A i \in 1..Len(down') : down'[i].value <= k
      <3>1. \A i \in 1..Len(down') : i + 1 \in 1..Len(down) /\ down'[i] = down[i + 1]
        BY <1>5
      <3> QED
        BY <1>4, <3>1
    <2>2. CASE Len(down) = 1
      <3>1. m.value = k
        BY <1>4, <1>5, <2>2
      <3>2. countCar' = k
        BY <1>1, <1>7, <1>9, <3>1
      <3> QED
        BY <1>5, <2>1, <2>2, <3>2 DEF TriggersUpTo
    <2>3. CASE Len(down) # 1
      <3>1. down' # <<>> /\ down'[Len(down')] = down[Len(down)]
        BY <1>5, <2>3
      <3> QED
        BY <1>4, <1>5, <2>1, <3>1 DEF TriggersUpTo
    <2> QED
      BY <2>2, <2>3
  <1> QED
    BY <1>2, <1>3, <1>11, <1>12 DEF CardsInv

LEMMA CardsNext ==
    ASSUME CardsInv, LapsCards!Next
    PROVE  CardsInv'
  <1>1. PICK n, l, k, s :
              /\ countPage = CountPage(n, l, k, k, s)
              /\ n \in Nat /\ l \in BOOLEAN /\ k \in Nat
              /\ l => k = n
              /\ k <= n /\ n = logged /\ countCar <= k
              /\ TriggersUpTo(down, countCar, k)
              /\ \A i \in 1..Len(countUp) : countUp[i] <= k
    BY CardsPage
  <1>2. countPage.n = n /\ countPage.link = l /\ countPage.last = k /\ countPage.counter = k
    BY <1>1 DEF CountPage
  <1>3. countUp \in Seq(Nat) /\ saved = None /\ cuts = 0 /\ reloads = 0 /\ losses = 0
    BY DEF CardsInv
  <1>4. CASE LapsCards!LogLap
    <2>1. [countPage EXCEPT !.n = countPage.n + 1] = CountPage(n + 1, l, k, k, s)
      BY <1>1 DEF CountPage
    <2>2. LapsCards!Render(CountPage(n + 1, l, k, k, s))
      BY <1>4, <2>1 DEF LapsCards!LogLap
    <2>3. UNCHANGED <<countUp, countCar, cards, saved, cuts, reloads, losses>> /\ logged' = n + 1
      BY <1>1, <1>4 DEF LapsCards!LogLap
    <2>4. n + 1 \in Nat /\ n <= n + 1 /\ n + 1 # n
      BY <1>1
    <2> QED
      BY <1>1, <1>3, <2>2, <2>3, <2>4, CardsRendered
  <1>5. CASE LapsCards!LinkDown
    <2>1. countPage' = CountPage(n, FALSE, k, k, s)
      <3>1. \A v : [countPage EXCEPT !.link = v] = CountPage(n, v, k, k, s)
        BY <1>1 DEF CountPage
      <3> QED
        BY <1>5, <3>1, Zenon DEF LapsCards!LinkDown
    <2>2. countUp' = <<>> /\ UNCHANGED <<saved, down, countCar, cards, logged, cuts, reloads, losses>>
      BY <1>5 DEF LapsCards!LinkDown
    <2>3. countPage'.n = n /\ countPage'.link = FALSE /\ countPage'.last = k /\ countPage'.counter = k
      BY <2>1 DEF CountPage
    <2>4. \E c_, s_ : \E n_, k_ \in Nat : \E l_ \in BOOLEAN : countPage' = CountPage(n_, l_, c_, k_, s_)
      BY <1>1, <2>1
    <2>5. countUp' \in Seq(Nat) /\ \A i \in 1..Len(countUp') : countUp'[i] <= k
      BY <2>2
    <2> QED
      BY <1>1, <1>2, <2>2, <2>3, <2>4, <2>5 DEF CardsInv
  <1>6. CASE LapsCards!LinkUp
    <2>1. \A v : [countPage EXCEPT !.link = v] = CountPage(n, v, k, k, s)
      BY <1>1 DEF CountPage
    <2>2. LapsCards!Render(CountPage(n, TRUE, k, k, s)) /\ l # TRUE
      BY <1>2, <1>6, <2>1, Zenon DEF LapsCards!LinkUp
    <2>3. UNCHANGED <<countUp, countCar, cards, logged, saved, cuts, reloads, losses>>
      BY <1>6 DEF LapsCards!LinkUp
    <2>4. logged' = n /\ countUp' \in Seq(Nat) /\ \A i \in 1..Len(countUp') : countUp'[i] <= k
      BY <1>1, <1>3, <2>3
    <2>5. n <= n
      BY <1>1
    <2>6. ~(TRUE = l)
      BY <2>2
    <2> QED
      BY <1>1, <2>2, <2>3, <2>4, <2>5, <2>6, CardsRendered
  <1>7. CASE LapsCards!ReceiveState
    <2>0. countUp # <<>> /\ Head(countUp) \in Nat /\ Head(countUp) <= k
            /\ Tail(countUp) \in Seq(Nat) /\ \A i \in 1..Len(Tail(countUp)) : Tail(countUp)[i] <= k
      <3>1. countUp # <<>>
        BY <1>7 DEF LapsCards!ReceiveState
      <3>2. /\ Len(countUp) \in Nat /\ Len(countUp) > 0 /\ Head(countUp) = countUp[1]
            /\ Len(Tail(countUp)) = Len(countUp) - 1
            /\ \A i \in 1..(Len(countUp) - 1) : Tail(countUp)[i] = countUp[i + 1]
            /\ Tail(countUp) \in Seq(Nat) /\ \A i \in 1..Len(countUp) : countUp[i] \in Nat
        BY <1>3, <3>1
      <3>3. \A i \in 1..Len(Tail(countUp)) : i + 1 \in 1..Len(countUp) /\ Tail(countUp)[i] = countUp[i + 1]
        BY <3>2
      <3>4. 1 \in 1..Len(countUp)
        BY <3>2
      <3> QED
        BY <1>1, <3>1, <3>2, <3>3, <3>4
    <2> DEFINE s2 == Head(countUp)
    <2>1. LapsCards!Max({k, s2}) = k
      BY <1>1, <2>0, LargerCard
    <2>2. LapsCards!Render([countPage EXCEPT !.seen = s2, !.counter = k])
      BY <1>2, <1>7, <2>1 DEF LapsCards!ReceiveState
    <2>3. countUp' = Tail(countUp) /\ UNCHANGED <<countCar, cards, logged, saved, cuts, reloads, losses>>
      BY <1>7 DEF LapsCards!ReceiveState
    <2> HIDE DEF s2
    <2>4. [countPage EXCEPT !.seen = s2] = CountPage(n, l, k, k, s2)
      BY <1>1 DEF CountPage
    <2>5. [CountPage(n, l, k, k, s2) EXCEPT !.counter = k] = CountPage(n, l, k, k, s2)
      BY DEF CountPage
    <2>6. [countPage EXCEPT !.seen = s2, !.counter = k] = [[countPage EXCEPT !.seen = s2] EXCEPT !.counter = k]
      OBVIOUS
    <2>7. LapsCards!Render(CountPage(n, l, k, k, s2))
      BY <2>2, <2>4, <2>5, <2>6
    <2> QED
      BY <1>1, <1>3, <2>0, <2>3, <2>7, CardsRendered
  <1>8. CASE LapsCards!Deliver
    BY <1>8, CardsDeliver
  <1>9. CASE LapsCards!PublishState
    <2>1. countUp' = Append(countUp, countCar)
            /\ UNCHANGED <<countPage, saved, down, countCar, cards, logged, cuts, reloads, losses>>
      BY <1>9 DEF LapsCards!PublishState
    <2>2. countCar \in Nat
      BY DEF CardsInv
    <2>3. countUp' \in Seq(Nat) /\ \A i \in 1..Len(countUp') : countUp'[i] <= k
      <3>1. /\ countUp' \in Seq(Nat) /\ Len(countUp') = Len(countUp) + 1 /\ countUp'[Len(countUp) + 1] = countCar
            /\ \A i \in 1..Len(countUp) : countUp'[i] = countUp[i]
        BY <1>3, <2>1, <2>2
      <3>2. \A i \in 1..Len(countUp') : i \in 1..Len(countUp) \/ i = Len(countUp) + 1
        BY <1>3, <3>1
      <3> QED
        BY <1>1, <3>1, <3>2
    <2> QED
      BY <1>2, <2>1, <2>3 DEF CardsInv
  <1>10. ~LapsCards!Deselect /\ ~LapsCards!ResetSession /\ ~LapsCards!Reload /\ ~LapsCards!Restore
    BY <1>3 DEF LapsCards!Deselect, LapsCards!ResetSession, LapsCards!Reload, LapsCards!Restore
  <1>11. \A restart \in BOOLEAN : ~LapsCards!Lose(restart)
    BY <1>3 DEF LapsCards!Lose
  <1> QED
    BY <1>4, <1>5, <1>6, <1>7, <1>8, <1>9, <1>10, <1>11, Zenon DEF LapsCards!Next

(* ----- The scenes without cards are steps of LapsEcho ----- *)

LEMMA CountBounds ==
    /\ CutLaps \in Nat /\ CutCuts \in Nat /\ CutDrops \in Nat
    /\ ResumeLaps \in Nat /\ ResumeReloads \in Nat /\ ResumeDrops \in Nat
    /\ RepairLaps \in Nat /\ RepairCuts \in Nat /\ RepairReloads \in Nat /\ RepairDrops \in Nat
  BY LapsBounds DEF LapsCut!DashLapsParams, LapsResume!DashLapsParams, LapsRepair!DashLapsParams

\* Scene "cuts".
LEMMA CutIsEcho ==
    ASSUME EchoInv, LapsCut!Next, drops \in Nat
    PROVE  LapsEcho!Next
  <1>0. logged \in Nat /\ cuts \in Nat /\ reloads \in Nat /\ losses \in Nat
    BY DEF EchoInv, EchoTypes
  <1>1. \A p : LapsCut!Render(p) => LapsEcho!Render(p)
    BY Zenon DEF LapsCut!Render, LapsEcho!Render, LapsCut!SyncEffect, LapsEcho!SyncEffect,
       LapsCut!SendLap, LapsEcho!SendLap, LapsCut!PublishLapCount, LapsEcho!PublishLapCount,
       LapsCut!DrainEffect, LapsEcho!DrainEffect, LapsCut!Msg, LapsEcho!Msg, LapsCut!Max, LapsEcho!Max
  <1>2. \A m : LapsCut!OnMessage(m) => LapsEcho!OnMessage(m)
    BY Zenon DEF LapsCut!OnMessage, LapsEcho!OnMessage, LapsCut!Max, LapsEcho!Max
  <1>3. CASE LapsCut!LogLap
    <2>1. logged < CutLaps
      BY <1>3, Zenon DEF LapsCut!LogLap
    <2>2. logged < CutLaps + ResumeLaps + RepairLaps
      BY <1>0, <2>1, CountBounds
    <2>3. LapsEcho!LogLap
      BY <1>3, <2>2, <1>1, <1>2, Zenon DEF LapsCut!LogLap, LapsEcho!LogLap
    <2> QED
      BY <2>3, Zenon DEF LapsEcho!Next
  <1>4. CASE LapsCut!Deselect
    <2>1. cuts < CutCuts
      BY <1>4, Zenon DEF LapsCut!Deselect
    <2>2. cuts < CutCuts + RepairCuts
      BY <1>0, <2>1, CountBounds
    <2>3. LapsEcho!Deselect
      BY <1>4, <2>2, <1>1, <1>2, Zenon DEF LapsCut!Deselect, LapsEcho!Deselect
    <2> QED
      BY <2>3, Zenon DEF LapsEcho!Next
  <1>5. CASE LapsCut!ResetSession
    <2>1. cuts < CutCuts
      BY <1>5, Zenon DEF LapsCut!ResetSession
    <2>2. cuts < CutCuts + RepairCuts
      BY <1>0, <2>1, CountBounds
    <2>3. LapsEcho!ResetSession
      BY <1>5, <2>2, <1>1, <1>2, Zenon DEF LapsCut!ResetSession, LapsEcho!ResetSession, LapsCut!Msg, LapsEcho!Msg
    <2> QED
      BY <2>3, Zenon DEF LapsEcho!Next
  <1>6. CASE LapsCut!LinkDown
    <2>1. drops < CutDrops
      BY <1>6, Zenon DEF LapsCut!LinkDown
    <2>2. drops < CutDrops + ResumeDrops + RepairDrops
      BY <1>0, <2>1, CountBounds
    <2>3. LapsEcho!LinkDown
      BY <1>6, <2>2, <1>1, <1>2, Zenon DEF LapsCut!LinkDown, LapsEcho!LinkDown
    <2> QED
      BY <2>3, Zenon DEF LapsEcho!Next
  <1>7. CASE LapsCut!LinkUp
    <2>3. LapsEcho!LinkUp
      BY <1>7, <1>1, <1>2, Zenon DEF LapsCut!LinkUp, LapsEcho!LinkUp
    <2> QED
      BY <2>3, Zenon DEF LapsEcho!Next
  <1>8. ~LapsCut!Reload
    BY <1>0 DEF LapsCut!Reload
  <1>9. CASE LapsCut!Restore
    <2>3. LapsEcho!Restore
      BY <1>9, <1>1, <1>2, Zenon DEF LapsCut!Restore, LapsEcho!Restore
    <2> QED
      BY <2>3, Zenon DEF LapsEcho!Next
  <1>10. CASE LapsCut!ReceiveState
    <2>3. LapsEcho!ReceiveState
      BY <1>10, <1>1, <1>2, Zenon DEF LapsCut!ReceiveState, LapsEcho!ReceiveState, LapsCut!Max, LapsEcho!Max
    <2> QED
      BY <2>3, Zenon DEF LapsEcho!Next
  <1>11. CASE LapsCut!Deliver
    <2>3. LapsEcho!Deliver
      BY <1>11, <1>1, <1>2, Zenon DEF LapsCut!Deliver, LapsEcho!Deliver
    <2> QED
      BY <2>3, Zenon DEF LapsEcho!Next
  <1>12. CASE LapsCut!PublishState
    <2>3. LapsEcho!PublishState
      BY <1>12, <1>1, <1>2, Zenon DEF LapsCut!PublishState, LapsEcho!PublishState
    <2> QED
      BY <2>3, Zenon DEF LapsEcho!Next
  <1>13. \A restart \in BOOLEAN : ~LapsCut!Lose(restart)
    BY <1>0 DEF LapsCut!Lose
  <1> QED
    BY <1>3, <1>4, <1>5, <1>6, <1>7, <1>8, <1>9, <1>10, <1>11, <1>12, <1>13, Zenon DEF LapsCut!Next

\* Scene "resume".
LEMMA ResumeIsEcho ==
    ASSUME EchoInv, LapsResume!Next, drops \in Nat
    PROVE  LapsEcho!Next
  <1>0. logged \in Nat /\ cuts \in Nat /\ reloads \in Nat /\ losses \in Nat
    BY DEF EchoInv, EchoTypes
  <1>1. \A p : LapsResume!Render(p) => LapsEcho!Render(p)
    BY Zenon DEF LapsResume!Render, LapsEcho!Render, LapsResume!SyncEffect, LapsEcho!SyncEffect,
       LapsResume!SendLap, LapsEcho!SendLap, LapsResume!PublishLapCount, LapsEcho!PublishLapCount,
       LapsResume!DrainEffect, LapsEcho!DrainEffect, LapsResume!Msg, LapsEcho!Msg, LapsResume!Max, LapsEcho!Max
  <1>2. \A m : LapsResume!OnMessage(m) => LapsEcho!OnMessage(m)
    BY Zenon DEF LapsResume!OnMessage, LapsEcho!OnMessage, LapsResume!Max, LapsEcho!Max
  <1>3. CASE LapsResume!LogLap
    <2>1. logged < ResumeLaps
      BY <1>3, Zenon DEF LapsResume!LogLap
    <2>2. logged < CutLaps + ResumeLaps + RepairLaps
      BY <1>0, <2>1, CountBounds
    <2>3. LapsEcho!LogLap
      BY <1>3, <2>2, <1>1, <1>2, Zenon DEF LapsResume!LogLap, LapsEcho!LogLap
    <2> QED
      BY <2>3, Zenon DEF LapsEcho!Next
  <1>4. ~LapsResume!Deselect
    BY <1>0 DEF LapsResume!Deselect
  <1>5. ~LapsResume!ResetSession
    BY <1>0 DEF LapsResume!ResetSession
  <1>6. CASE LapsResume!LinkDown
    <2>1. drops < ResumeDrops
      BY <1>6, Zenon DEF LapsResume!LinkDown
    <2>2. drops < CutDrops + ResumeDrops + RepairDrops
      BY <1>0, <2>1, CountBounds
    <2>3. LapsEcho!LinkDown
      BY <1>6, <2>2, <1>1, <1>2, Zenon DEF LapsResume!LinkDown, LapsEcho!LinkDown
    <2> QED
      BY <2>3, Zenon DEF LapsEcho!Next
  <1>7. CASE LapsResume!LinkUp
    <2>3. LapsEcho!LinkUp
      BY <1>7, <1>1, <1>2, Zenon DEF LapsResume!LinkUp, LapsEcho!LinkUp
    <2> QED
      BY <2>3, Zenon DEF LapsEcho!Next
  <1>8. CASE LapsResume!Reload
    <2>1. reloads < ResumeReloads
      BY <1>8, Zenon DEF LapsResume!Reload
    <2>2. reloads < ResumeReloads + RepairReloads
      BY <1>0, <2>1, CountBounds
    <2>3. LapsEcho!Reload
      BY <1>8, <2>2, <1>1, <1>2, Zenon DEF LapsResume!Reload, LapsEcho!Reload, LapsResume!Fresh, LapsEcho!Fresh
    <2> QED
      BY <2>3, Zenon DEF LapsEcho!Next
  <1>9. CASE LapsResume!Restore
    <2>3. LapsEcho!Restore
      BY <1>9, <1>1, <1>2, Zenon DEF LapsResume!Restore, LapsEcho!Restore
    <2> QED
      BY <2>3, Zenon DEF LapsEcho!Next
  <1>10. CASE LapsResume!ReceiveState
    <2>3. LapsEcho!ReceiveState
      BY <1>10, <1>1, <1>2, Zenon DEF LapsResume!ReceiveState, LapsEcho!ReceiveState, LapsResume!Max, LapsEcho!Max
    <2> QED
      BY <2>3, Zenon DEF LapsEcho!Next
  <1>11. CASE LapsResume!Deliver
    <2>3. LapsEcho!Deliver
      BY <1>11, <1>1, <1>2, Zenon DEF LapsResume!Deliver, LapsEcho!Deliver
    <2> QED
      BY <2>3, Zenon DEF LapsEcho!Next
  <1>12. CASE LapsResume!PublishState
    <2>3. LapsEcho!PublishState
      BY <1>12, <1>1, <1>2, Zenon DEF LapsResume!PublishState, LapsEcho!PublishState
    <2> QED
      BY <2>3, Zenon DEF LapsEcho!Next
  <1>13. \A restart \in BOOLEAN : ~LapsResume!Lose(restart)
    BY <1>0 DEF LapsResume!Lose
  <1> QED
    BY <1>3, <1>4, <1>5, <1>6, <1>7, <1>8, <1>9, <1>10, <1>11, <1>12, <1>13, Zenon DEF LapsResume!Next

\* Scene "repair".
LEMMA RepairIsEcho ==
    ASSUME EchoInv, LapsRepair!Next, drops \in Nat
    PROVE  LapsEcho!Next
  <1>0. logged \in Nat /\ cuts \in Nat /\ reloads \in Nat /\ losses \in Nat
    BY DEF EchoInv, EchoTypes
  <1>1. \A p : LapsRepair!Render(p) => LapsEcho!Render(p)
    BY Zenon DEF LapsRepair!Render, LapsEcho!Render, LapsRepair!SyncEffect, LapsEcho!SyncEffect,
       LapsRepair!SendLap, LapsEcho!SendLap, LapsRepair!PublishLapCount, LapsEcho!PublishLapCount,
       LapsRepair!DrainEffect, LapsEcho!DrainEffect, LapsRepair!Msg, LapsEcho!Msg, LapsRepair!Max, LapsEcho!Max
  <1>2. \A m : LapsRepair!OnMessage(m) => LapsEcho!OnMessage(m)
    BY Zenon DEF LapsRepair!OnMessage, LapsEcho!OnMessage, LapsRepair!Max, LapsEcho!Max
  <1>3. CASE LapsRepair!LogLap
    <2>1. logged < RepairLaps
      BY <1>3, Zenon DEF LapsRepair!LogLap
    <2>2. logged < CutLaps + ResumeLaps + RepairLaps
      BY <1>0, <2>1, CountBounds
    <2>3. LapsEcho!LogLap
      BY <1>3, <2>2, <1>1, <1>2, Zenon DEF LapsRepair!LogLap, LapsEcho!LogLap
    <2> QED
      BY <2>3, Zenon DEF LapsEcho!Next
  <1>4. CASE LapsRepair!Deselect
    <2>1. cuts < RepairCuts
      BY <1>4, Zenon DEF LapsRepair!Deselect
    <2>2. cuts < CutCuts + RepairCuts
      BY <1>0, <2>1, CountBounds
    <2>3. LapsEcho!Deselect
      BY <1>4, <2>2, <1>1, <1>2, Zenon DEF LapsRepair!Deselect, LapsEcho!Deselect
    <2> QED
      BY <2>3, Zenon DEF LapsEcho!Next
  <1>5. CASE LapsRepair!ResetSession
    <2>1. cuts < RepairCuts
      BY <1>5, Zenon DEF LapsRepair!ResetSession
    <2>2. cuts < CutCuts + RepairCuts
      BY <1>0, <2>1, CountBounds
    <2>3. LapsEcho!ResetSession
      BY <1>5, <2>2, <1>1, <1>2, Zenon DEF LapsRepair!ResetSession, LapsEcho!ResetSession, LapsRepair!Msg, LapsEcho!Msg
    <2> QED
      BY <2>3, Zenon DEF LapsEcho!Next
  <1>6. CASE LapsRepair!LinkDown
    <2>1. drops < RepairDrops
      BY <1>6, Zenon DEF LapsRepair!LinkDown
    <2>2. drops < CutDrops + ResumeDrops + RepairDrops
      BY <1>0, <2>1, CountBounds
    <2>3. LapsEcho!LinkDown
      BY <1>6, <2>2, <1>1, <1>2, Zenon DEF LapsRepair!LinkDown, LapsEcho!LinkDown
    <2> QED
      BY <2>3, Zenon DEF LapsEcho!Next
  <1>7. CASE LapsRepair!LinkUp
    <2>3. LapsEcho!LinkUp
      BY <1>7, <1>1, <1>2, Zenon DEF LapsRepair!LinkUp, LapsEcho!LinkUp
    <2> QED
      BY <2>3, Zenon DEF LapsEcho!Next
  <1>8. CASE LapsRepair!Reload
    <2>1. reloads < RepairReloads
      BY <1>8, Zenon DEF LapsRepair!Reload
    <2>2. reloads < ResumeReloads + RepairReloads
      BY <1>0, <2>1, CountBounds
    <2>3. LapsEcho!Reload
      BY <1>8, <2>2, <1>1, <1>2, Zenon DEF LapsRepair!Reload, LapsEcho!Reload, LapsRepair!Fresh, LapsEcho!Fresh
    <2> QED
      BY <2>3, Zenon DEF LapsEcho!Next
  <1>9. CASE LapsRepair!Restore
    <2>3. LapsEcho!Restore
      BY <1>9, <1>1, <1>2, Zenon DEF LapsRepair!Restore, LapsEcho!Restore
    <2> QED
      BY <2>3, Zenon DEF LapsEcho!Next
  <1>10. CASE LapsRepair!ReceiveState
    <2>3. LapsEcho!ReceiveState
      BY <1>10, <1>1, <1>2, Zenon DEF LapsRepair!ReceiveState, LapsEcho!ReceiveState, LapsRepair!Max, LapsEcho!Max
    <2> QED
      BY <2>3, Zenon DEF LapsEcho!Next
  <1>11. CASE LapsRepair!Deliver
    <2>3. LapsEcho!Deliver
      BY <1>11, <1>1, <1>2, Zenon DEF LapsRepair!Deliver, LapsEcho!Deliver
    <2> QED
      BY <2>3, Zenon DEF LapsEcho!Next
  <1>12. CASE LapsRepair!PublishState
    <2>3. LapsEcho!PublishState
      BY <1>12, <1>1, <1>2, Zenon DEF LapsRepair!PublishState, LapsEcho!PublishState
    <2> QED
      BY <2>3, Zenon DEF LapsEcho!Next
  <1>13. ASSUME NEW restart \in BOOLEAN, LapsRepair!Lose(restart) PROVE LapsEcho!Next
    <2>1. LapsEcho!Lose(restart)
      BY <1>13, Zenon DEF LapsRepair!Lose, LapsEcho!Lose
    <2> QED
      BY <2>1, Zenon DEF LapsEcho!Next
  <1> QED
    BY <1>3, <1>4, <1>5, <1>6, <1>7, <1>8, <1>9, <1>10, <1>11, <1>12, <1>13, Zenon DEF LapsRepair!Next

(* ----- The lap count of each scene ----- *)

LEMMA EchoDrops ==
    ASSUME LapsEcho!Next, drops \in Nat
    PROVE  drops' \in Nat
  <1>1. CASE LapsEcho!LinkDown
    BY <1>1 DEF LapsEcho!LinkDown
  <1>2. CASE UNCHANGED drops
    BY <1>2
  <1>3. CASE ~LapsEcho!LinkDown
    <2>1. UNCHANGED drops
      BY <1>3, Zenon DEF LapsEcho!Next, LapsEcho!LogLap, LapsEcho!Deselect, LapsEcho!ResetSession,
         LapsEcho!LinkUp, LapsEcho!Reload, LapsEcho!Restore, LapsEcho!ReceiveState, LapsEcho!Deliver,
         LapsEcho!PublishState, LapsEcho!Lose
    <2> QED
      BY <1>2, <2>1
  <1> QED
    BY <1>1, <1>3

LEMMA CutNext ==
    ASSUME EchoInv, drops \in Nat, reloads = 0, losses = 0, LapsCut!Next
    PROVE  EchoInv' /\ drops' \in Nat /\ reloads' = 0 /\ losses' = 0
  <1>1. LapsEcho!Next
    BY CutIsEcho
  <1>2. ~LapsCut!Reload /\ \A restart \in BOOLEAN : ~LapsCut!Lose(restart)
    BY DEF LapsCut!Reload, LapsCut!Lose
  <1>3. UNCHANGED <<reloads, losses>>
    BY <1>2, Zenon DEF LapsCut!Next, LapsCut!LogLap, LapsCut!Deselect, LapsCut!ResetSession,
       LapsCut!LinkDown, LapsCut!LinkUp, LapsCut!Restore, LapsCut!ReceiveState, LapsCut!Deliver,
       LapsCut!PublishState
  <1> QED
    BY <1>1, <1>3, EchoNext, EchoDrops

LEMMA ResumeNext ==
    ASSUME EchoInv, drops \in Nat, cuts = 0, losses = 0, LapsResume!Next
    PROVE  EchoInv' /\ drops' \in Nat /\ cuts' = 0 /\ losses' = 0
  <1>1. LapsEcho!Next
    BY ResumeIsEcho
  <1>2. ~LapsResume!Deselect /\ ~LapsResume!ResetSession /\ \A restart \in BOOLEAN : ~LapsResume!Lose(restart)
    BY DEF LapsResume!Deselect, LapsResume!ResetSession, LapsResume!Lose
  <1>3. UNCHANGED <<cuts, losses>>
    BY <1>2, Zenon DEF LapsResume!Next, LapsResume!LogLap, LapsResume!Reload,
       LapsResume!LinkDown, LapsResume!LinkUp, LapsResume!Restore, LapsResume!ReceiveState,
       LapsResume!Deliver, LapsResume!PublishState
  <1> QED
    BY <1>1, <1>3, EchoNext, EchoDrops

LEMMA CountStarts ==
    ASSUME LapsCut!Init
    PROVE  /\ EchoInv /\ CardsInv /\ drops = 0
           /\ cuts = 0 /\ reloads = 0 /\ losses = 0
  <1>1. /\ saved = None /\ down = <<>> /\ countUp = <<>> /\ countCar = 0 /\ cards = 0
        /\ logged = 0 /\ cuts = 0 /\ reloads = 0 /\ drops = 0 /\ losses = 0
    BY DEF LapsCut!Init
  <1>2. countPage = CountPage(0, TRUE, 0, 0, None)
    <2>1. \A v : [LapsCut!Fresh EXCEPT !.link = v] = CountPage(0, v, 0, 0, None)
      BY DEF LapsCut!Fresh, CountPage
    <2> QED
      BY <2>1, Zenon DEF LapsCut!Init
  <1>3. countPage.n = 0 /\ countPage.last = 0 /\ countPage.counter = 0
    BY <1>2 DEF CountPage
  <1>4. \E c_, s_ : \E n_, k_ \in Nat : \E l_ \in BOOLEAN : countPage = CountPage(n_, l_, c_, k_, s_)
    BY <1>2
  <1>5. down \in Seq(CountMessage) /\ down \in Seq(TriggerMessage) /\ countUp \in Seq(Nat)
    BY <1>1
  <1>6. Len(down) = 0 /\ Len(countUp) = 0
    BY <1>1
  <1>7. EchoInv
    <2>1. EchoTypes
      BY <1>1, <1>4, <1>5 DEF EchoTypes
    <2>2. EchoCounts
      BY <1>1, <1>3, <1>6 DEF EchoCounts
    <2>3. EchoCar(0, 0)
      BY <1>1, <1>3 DEF EchoCar
    <2>4. Echoes(down, 0, 0)
      BY <1>1, EchoEmpty
    <2> QED
      BY <2>1, <2>2, <2>3, <2>4 DEF EchoInv
  <1>8. CardsInv
    <2>1. TriggersUpTo(down, countCar, countPage.last)
      BY <1>1, <1>3, <1>5, <1>6 DEF TriggersUpTo
    <2> QED
      BY <1>1, <1>3, <1>4, <1>5, <1>6, <2>1 DEF CardsInv
  <1> QED
    BY <1>1, <1>7, <1>8

\* The dash has the page's number once nothing is under way.
LEMMA EchoSameNumber ==
    ASSUME EchoInv, losses = 0, cuts = 0 \/ reloads = 0,
           countPage.link, saved = None, down = <<>>, countPage.seen = countCar
    PROVE  countCar = countPage.n
  <1>1. PICK n, l, c, k, s :
              /\ countPage = CountPage(n, l, c, k, s)
              /\ n \in Nat /\ l \in BOOLEAN /\ k \in Nat
              /\ l => k = n
              /\ saved # None => n = 0
              /\ n <= logged
              /\ cuts = 0 => logged = IF saved = None THEN n ELSE saved
    BY EchoPage
  <1>2. countPage.n = n /\ countPage.last = k /\ countPage.link = l
    BY <1>1 DEF CountPage
  <1>3. k = n
    BY <1>1, <1>2
  <1>4. PICK g \in Nat, e \in Nat : Echoes(down, g, e) /\ EchoCar(g, e)
    BY DEF EchoInv
  <1>5. g = e
    BY <1>4, EchoNothing
  <1>6. countCar = e
    BY <1>4, <1>5 DEF EchoCar
  <1> QED
    BY <1>1, <1>2, <1>3, <1>4, <1>6 DEF EchoCar

(* ----- Commands ----- *)

\* Commands from trackside: one leader whose links fail; then a change of leader.
Commands ==
    INSTANCE DashCommands WITH
        Pages <- CmdPages, Powers <- CmdPowers, MQTT_STALE <- CmdStale,
        Moves <- {"power", "delta", "settings", "drop", "half", "disconnect", "reload", "car"},
        MaxPresses <- CmdPresses, shown <- cmdShown, car <- cmdCar
CommandsRoles ==
    INSTANCE DashCommands WITH
        Pages <- CmdPages, Powers <- CmdPowers, MQTT_STALE <- CmdStale,
        Moves <- {"settings", "oneshot", "handover", "drop", "car"},
        MaxPresses <- CmdPresses, shown <- cmdShown, car <- cmdCar

ASSUME CommandsBounds ==
    /\ Commands!DashCommandsParams
    /\ CommandsRoles!DashCommandsParams

(* ----- Commands: the invariants behind CarAgrees ----- *)

\* The fields of what the dash keeps of the commands.
CmdCarFields ==
    {"power", "led", "age", "delta", "deltaLed", "deltaAge", "setting", "screen", "message"}
IsCmdCar(c) == c = [f \in DOMAIN c |-> c[f]] /\ DOMAIN c = CmdCarFields

\* Who does not lead has no link and nothing to keep alive; what the leader's keepalive
\* sends is what its page shows.
CommandsInv ==
    /\ status \in [CmdPages -> {"idle", "connecting", "connected", "closed"}]
    /\ net \in [CmdPages -> {None, "down", "up", "half"}]
    /\ cmdShown \in [CmdPages -> CmdPowers]
    /\ delta \in [CmdPages -> CmdPowers \cup {None}]
    /\ powerRef \in [CmdPages -> CmdPowers \cup {None}]
    /\ deltaRef \in [CmdPages -> CmdPowers \cup {None}]
    /\ \A p \in CmdPages : p # leader =>
           status[p] = "idle" /\ net[p] = None /\ powerRef[p] = None /\ deltaRef[p] = None
    /\ \A p \in CmdPages : net[p] = "up" =>
           status[p] = "connected" /\ powerRef[p] \in {cmdShown[p], None}
    /\ IsCmdCar(cmdCar) /\ cmdCar.led = TRUE /\ cmdCar.deltaLed = TRUE
    /\ Commands!SendsShown

\* What is retained is in force, and is the linked leader's; an override is of the
\* present gear.
RolesInv ==
    /\ status \in [CmdPages -> {"idle", "connecting", "connected", "closed"}]
    /\ net \in [CmdPages -> {None, "down", "up"}]
    /\ setting \in [CmdPages -> Nat] /\ presses \in Nat
    /\ outbox = [p \in CmdPages |-> CommandsRoles!Empty]
    /\ IsCmdCar(cmdCar)
    /\ cmdCar.setting \in {retained, None}
    /\ leader \in CmdPages
    /\ net[leader] = "up" /\ status[leader] = "connected" => retained = setting[leader]
    /\ CommandsRoles!NotStranded

(* ----- What the dash keeps of the commands ----- *)

\* The leader's power and delta.
LEMMA LedPower ==
    ASSUME NEW c, IsCmdCar(c), NEW p, NEW v, leader' = p
    PROVE  /\ IsCmdCar(Commands!WithPower(c, p, v))
           /\ Commands!WithPower(c, p, v).led = TRUE
           /\ Commands!WithPower(c, p, v).deltaLed = c.deltaLed
  <1>1. (leader' = p) = TRUE
    BY Zenon
  <1>2. Commands!WithPower(c, p, v) = [c EXCEPT !.power = v, !.led = TRUE, !.age = 0]
    BY <1>1, Zenon DEF Commands!WithPower
  <1>3. /\ IsCmdCar([c EXCEPT !.power = v, !.led = TRUE, !.age = 0])
        /\ [c EXCEPT !.power = v, !.led = TRUE, !.age = 0].led = TRUE
        /\ [c EXCEPT !.power = v, !.led = TRUE, !.age = 0].deltaLed = c.deltaLed
    BY DEF IsCmdCar, CmdCarFields
  <1> QED
    BY <1>2, <1>3, Zenon

LEMMA LedDelta ==
    ASSUME NEW c, IsCmdCar(c), NEW p, NEW v, leader' = p
    PROVE  /\ IsCmdCar(Commands!WithDelta(c, p, v))
           /\ Commands!WithDelta(c, p, v).led = c.led
           /\ Commands!WithDelta(c, p, v).deltaLed = TRUE
  <1>1. (leader' = p) = TRUE
    BY Zenon
  <1>2. Commands!WithDelta(c, p, v) = [c EXCEPT !.delta = v, !.deltaLed = TRUE, !.deltaAge = 0]
    BY <1>1, Zenon DEF Commands!WithDelta
  <1>3. /\ IsCmdCar([c EXCEPT !.delta = v, !.deltaLed = TRUE, !.deltaAge = 0])
        /\ [c EXCEPT !.delta = v, !.deltaLed = TRUE, !.deltaAge = 0].led = c.led
        /\ [c EXCEPT !.delta = v, !.deltaLed = TRUE, !.deltaAge = 0].deltaLed = TRUE
    BY DEF IsCmdCar, CmdCarFields
  <1> QED
    BY <1>2, <1>3, Zenon

LEMMA AgedCar ==
    ASSUME NEW c, IsCmdCar(c)
    PROVE  /\ IsCmdCar(Commands!Aged(c)) /\ IsCmdCar(CommandsRoles!Aged(c))
           /\ Commands!Aged(c).led = c.led /\ Commands!Aged(c).deltaLed = c.deltaLed
           /\ CommandsRoles!Aged(c).setting = c.setting /\ CommandsRoles!Aged(c).screen = c.screen
  BY DEF IsCmdCar, CmdCarFields, Commands!Aged, CommandsRoles!Aged

LEMMA RebootedCar ==
    ASSUME NEW v
    PROVE  /\ IsCmdCar([Commands!Off EXCEPT !.setting = v])
           /\ [Commands!Off EXCEPT !.setting = v].led = TRUE
           /\ [Commands!Off EXCEPT !.setting = v].deltaLed = TRUE
           /\ IsCmdCar([CommandsRoles!Off EXCEPT !.setting = v])
           /\ [CommandsRoles!Off EXCEPT !.setting = v].setting = v
           /\ [CommandsRoles!Off EXCEPT !.setting = v].screen = None
           /\ IsCmdCar(Commands!Off) /\ Commands!Off.led = TRUE /\ Commands!Off.deltaLed = TRUE
           /\ IsCmdCar(CommandsRoles!Off) /\ CommandsRoles!Off.setting = None /\ CommandsRoles!Off.screen = None
  BY DEF IsCmdCar, CmdCarFields, Commands!Off, CommandsRoles!Off

(* ----- The steps of scene "commands" ----- *)

LEMMA CommandsPowers == CmdPowers \subseteq Nat /\ None \notin CmdPowers
  BY CommandsBounds, DashNone DEF Commands!DashCommandsParams

\* The effects of a page publish a target power and deltas only from the leader.
LEMMA CommandsCar ==
    ASSUME IsCmdCar(cmdCar), cmdCar.led = TRUE, cmdCar.deltaLed = TRUE,
           NEW p, NEW box, Commands!Effects(p, box), status'[p] = "connected" => leader' = p
    PROVE  IsCmdCar(cmdCar') /\ cmdCar'.led = TRUE /\ cmdCar'.deltaLed = TRUE
  <1> DEFINE c1 == Commands!TargetPowerEffect(p, cmdCar)
             c2 == Commands!DeltaEffect(p, c1)
  <1>1. IsCmdCar(c1) /\ c1.led = TRUE /\ c1.deltaLed = TRUE
    <2>1. CASE status'[p] = "connected" /\ cmdShown'[p] # None /\ net'[p] = "up"
      <3>1. c1 = Commands!WithPower(cmdCar, p, cmdShown'[p])
        BY <2>1, Zenon DEF Commands!TargetPowerEffect
      <3>2. leader' = p
        BY <2>1
      <3>3. /\ IsCmdCar(Commands!WithPower(cmdCar, p, cmdShown'[p]))
            /\ Commands!WithPower(cmdCar, p, cmdShown'[p]).led = TRUE
            /\ Commands!WithPower(cmdCar, p, cmdShown'[p]).deltaLed = cmdCar.deltaLed
        BY <3>2, LedPower, Zenon
      <3> QED
        BY <3>1, <3>3, Zenon
    <2>2. CASE ~(status'[p] = "connected" /\ cmdShown'[p] # None /\ net'[p] = "up")
      <3>1. c1 = cmdCar
        BY <2>2, Zenon DEF Commands!TargetPowerEffect
      <3> QED
        BY <3>1
    <2> QED
      BY <2>1, <2>2
  <1> HIDE DEF c1
  <1>2. IsCmdCar(c2) /\ c2.led = TRUE /\ c2.deltaLed = TRUE
    <2>1. CASE leader' = p /\ status'[p] = "connected" /\ delta'[p] # None /\ net'[p] = "up"
      <3>1. c2 = Commands!WithDelta(c1, p, delta'[p])
        BY <2>1, Zenon DEF Commands!DeltaEffect
      <3>3. /\ IsCmdCar(Commands!WithDelta(c1, p, delta'[p]))
            /\ Commands!WithDelta(c1, p, delta'[p]).led = c1.led
            /\ Commands!WithDelta(c1, p, delta'[p]).deltaLed = TRUE
        BY <1>1, <2>1, LedDelta, Zenon
      <3> QED
        BY <1>1, <3>1, <3>3, Zenon
    <2>2. CASE ~(leader' = p /\ status'[p] = "connected" /\ delta'[p] # None /\ net'[p] = "up")
      <3>1. c2 = c1
        BY <2>2, Zenon DEF Commands!DeltaEffect
      <3> QED
        BY <1>1, <3>1
    <2> QED
      BY <2>1, <2>2
  <1>3. cmdCar' = [c2 EXCEPT !.setting = IF retained' # retained THEN retained' ELSE @,
                             !.screen = IF box.screen # None THEN box.screen ELSE @]
    BY Zenon DEF Commands!Effects, c1
  <1> HIDE DEF c2
  <1>4. LET r == [c2 EXCEPT !.setting = IF retained' # retained THEN retained' ELSE @,
                            !.screen = IF box.screen # None THEN box.screen ELSE @]
        IN  IsCmdCar(r) /\ r.led = TRUE /\ r.deltaLed = TRUE
    BY <1>2 DEF IsCmdCar, CmdCarFields
  <1> QED
    BY <1>3, <1>4

\* A change of the state of page p, with its effects.
LEMMA CommandsEffects ==
    ASSUME CommandsInv, NEW p \in CmdPages, NEW box, Commands!Effects(p, box), UNCHANGED leader,
           status' \in [CmdPages -> {"idle", "connecting", "connected", "closed"}],
           net' \in [CmdPages -> {None, "down", "up", "half"}],
           cmdShown' \in [CmdPages -> CmdPowers],
           delta' \in [CmdPages -> CmdPowers \cup {None}],
           \A q \in CmdPages : q # leader => status'[q] = "idle" /\ net'[q] = None,
           \A q \in CmdPages : net'[q] = "up" =>
               status'[q] = "connected" /\ (q # p => powerRef[q] \in {cmdShown'[q], None})
    PROVE  CommandsInv'
  <1>1. status'[p] = "connected" => leader' = p
    OBVIOUS
  <1>2. cmdShown'[p] \in CmdPowers /\ cmdShown'[p] # None
    BY CommandsPowers
  <1>3. powerRef' = IF status'[p] = "connected" THEN [powerRef EXCEPT ![p] = cmdShown'[p]] ELSE powerRef
    BY <1>2, Zenon DEF Commands!Effects, Commands!TargetPowerRef
  <1>4. deltaRef' = IF leader' = p /\ status'[p] = "connected" THEN [deltaRef EXCEPT ![p] = delta'[p]] ELSE deltaRef
    BY Zenon DEF Commands!Effects, Commands!DeltaRef
  <1>5. powerRef' \in [CmdPages -> CmdPowers \cup {None}] /\ deltaRef' \in [CmdPages -> CmdPowers \cup {None}]
    BY <1>2, <1>3, <1>4 DEF CommandsInv
  <1>6. \A q \in CmdPages : q # leader' => powerRef'[q] = None /\ deltaRef'[q] = None
    BY <1>1, <1>3, <1>4 DEF CommandsInv
  <1>7. \A q \in CmdPages : net'[q] = "up" => powerRef'[q] \in {cmdShown'[q], None}
    BY <1>3 DEF CommandsInv
  <1>8. Commands!SendsShown'
    <2>1. CASE status'[p] = "connected"
      <3>1. last' = [value |-> cmdShown'[p], shown |-> cmdShown'[p]]
        BY <1>2, <2>1, Zenon DEF Commands!Effects
      <3> QED
        BY <3>1 DEF Commands!SendsShown
    <2>2. CASE status'[p] # "connected"
      <3>1. last' = last
        BY <2>2, Zenon DEF Commands!Effects
      <3> QED
        BY <3>1 DEF CommandsInv, Commands!SendsShown
    <2> QED
      BY <2>1, <2>2
  <1>9. IsCmdCar(cmdCar') /\ cmdCar'.led = TRUE /\ cmdCar'.deltaLed = TRUE
    BY <1>1, CommandsCar DEF CommandsInv
  <1> QED
    BY <1>5, <1>6, <1>7, <1>8, <1>9 DEF CommandsInv

\* A change of a link that publishes nothing.
LEMMA CommandsLink ==
    ASSUME CommandsInv, NEW p \in CmdPages, p = leader,
           NEW s \in {"idle", "connecting", "connected", "closed"}, NEW n \in {None, "down", "half"},
           status' = [status EXCEPT ![p] = s], net' = [net EXCEPT ![p] = n],
           powerRef' = powerRef \/ powerRef' = [powerRef EXCEPT ![p] = None],
           deltaRef' = deltaRef \/ deltaRef' = [deltaRef EXCEPT ![p] = None],
           UNCHANGED <<leader, cmdShown, delta, cmdCar, last>>
    PROVE  CommandsInv'
  <1>1. n # "up"
    BY DashNone
  <1>2. /\ status' \in [CmdPages -> {"idle", "connecting", "connected", "closed"}]
        /\ net' \in [CmdPages -> {None, "down", "up", "half"}]
    BY DEF CommandsInv
  <1>3. powerRef' \in [CmdPages -> CmdPowers \cup {None}] /\ deltaRef' \in [CmdPages -> CmdPowers \cup {None}]
    BY DEF CommandsInv
  <1>4. \A q \in CmdPages : q # leader' =>
           status'[q] = "idle" /\ net'[q] = None /\ powerRef'[q] = None /\ deltaRef'[q] = None
    BY DEF CommandsInv
  <1>5. \A q \in CmdPages : net'[q] = "up" =>
           status'[q] = "connected" /\ powerRef'[q] \in {cmdShown'[q], None}
    BY <1>1 DEF CommandsInv
  <1>6. Commands!SendsShown' /\ IsCmdCar(cmdCar') /\ cmdCar'.led = TRUE /\ cmdCar'.deltaLed = TRUE
    BY DEF CommandsInv, Commands!SendsShown
  <1> QED
    BY <1>2, <1>3, <1>4, <1>5, <1>6 DEF CommandsInv

\* The leader's links come and go.
LEMMA CommandsLinks ==
    ASSUME CommandsInv, NEW p \in CmdPages,
           \/ Commands!AutoConnect(p) \/ Commands!connect(p) \/ Commands!disconnect(p)
           \/ Commands!OnClose(p) \/ Commands!HalfOpen(p) \/ Commands!Reload(p)
    PROVE  CommandsInv'
  <1>0. /\ p # leader => status[p] = "idle" /\ net[p] = None
        /\ None \notin {"down", "up", "half"}
    BY DashNone DEF CommandsInv
  <1>1. CASE Commands!AutoConnect(p)
    <2>1. /\ p = leader /\ status' = [status EXCEPT ![p] = "connecting"] /\ net' = [net EXCEPT ![p] = "down"]
          /\ powerRef' = powerRef /\ deltaRef' = deltaRef
          /\ UNCHANGED <<leader, cmdShown, delta, cmdCar, last>>
      BY <1>1 DEF Commands!AutoConnect, Commands!isMirror, Commands!local
    <2> QED
      BY <2>1, CommandsLink
  <1>2. CASE Commands!connect(p)
    <2>1. /\ p = leader /\ status' = [status EXCEPT ![p] = "connecting"] /\ net' = [net EXCEPT ![p] = "down"]
          /\ powerRef' = powerRef /\ deltaRef' = deltaRef
          /\ UNCHANGED <<leader, cmdShown, delta, cmdCar, last>>
      BY <1>2 DEF Commands!connect, Commands!isMirror, Commands!local
    <2> QED
      BY <2>1, CommandsLink
  <1>3. CASE Commands!disconnect(p)
    <2>1. /\ p = leader /\ status' = [status EXCEPT ![p] = "closed"] /\ net' = [net EXCEPT ![p] = None]
          /\ powerRef' = powerRef /\ deltaRef' = deltaRef
          /\ UNCHANGED <<leader, cmdShown, delta, cmdCar, last>>
      BY <1>0, <1>3 DEF Commands!disconnect, Commands!local
    <2> QED
      BY <2>1, CommandsLink
  <1>4. CASE Commands!OnClose(p)
    <2>1. /\ p = leader /\ status' = [status EXCEPT ![p] = "closed"] /\ net' = [net EXCEPT ![p] = "down"]
          /\ powerRef' = powerRef /\ deltaRef' = deltaRef
          /\ UNCHANGED <<leader, cmdShown, delta, cmdCar, last>>
      BY <1>0, <1>4 DEF Commands!OnClose, Commands!Connected, Commands!local
    <2> QED
      BY <2>1, CommandsLink
  <1>5. CASE Commands!HalfOpen(p)
    <2>1. /\ p = leader /\ net' = [net EXCEPT ![p] = "half"] /\ status' = status
          /\ powerRef' = powerRef /\ deltaRef' = deltaRef
          /\ UNCHANGED <<leader, cmdShown, delta, cmdCar, last>>
      BY <1>0, <1>5 DEF Commands!HalfOpen, Commands!local
    <2>2. status' = [status EXCEPT ![p] = status[p]] /\ status[p] \in {"idle", "connecting", "connected", "closed"}
      BY <2>1 DEF CommandsInv
    <2> QED
      BY <2>1, <2>2, CommandsLink
  <1>6. CASE Commands!Reload(p)
    <2>1. /\ p = leader /\ status' = [status EXCEPT ![p] = "idle"] /\ net' = [net EXCEPT ![p] = None]
          /\ powerRef' = [powerRef EXCEPT ![p] = None] /\ deltaRef' = [deltaRef EXCEPT ![p] = None]
          /\ UNCHANGED <<leader, cmdShown, delta, cmdCar, last>>
      BY <1>0, <1>6 DEF Commands!Reload, Commands!local
    <2> QED
      BY <2>1, CommandsLink
  <1> QED
    BY <1>1, <1>2, <1>3, <1>4, <1>5, <1>6

LEMMA CommandsOnConnect ==
    ASSUME CommandsInv, NEW p \in CmdPages, Commands!OnConnect(p)
    PROVE  CommandsInv'
  <1>1. /\ net[p] = "down" /\ net' = [net EXCEPT ![p] = "up"]
        /\ status' = [status EXCEPT ![p] = "connected"]
        /\ UNCHANGED <<leader, cmdShown, delta>> /\ Commands!Effects(p, outbox[p])
    BY DEF Commands!OnConnect, Commands!local
  <1>2. p = leader
    BY <1>1, DashNone DEF CommandsInv
  <1>3. /\ status' \in [CmdPages -> {"idle", "connecting", "connected", "closed"}]
        /\ net' \in [CmdPages -> {None, "down", "up", "half"}]
        /\ cmdShown' \in [CmdPages -> CmdPowers] /\ delta' \in [CmdPages -> CmdPowers \cup {None}]
    BY <1>1 DEF CommandsInv
  <1>4. /\ \A q \in CmdPages : q # leader => status'[q] = "idle" /\ net'[q] = None
        /\ \A q \in CmdPages : net'[q] = "up" =>
               status'[q] = "connected" /\ (q # p => powerRef[q] \in {cmdShown'[q], None})
    BY <1>1, <1>2 DEF CommandsInv
  <1> QED
    BY <1>1, <1>3, <1>4, CommandsEffects

\* The leader's target power, any page's deltas, the leader's settings.
LEMMA CommandsInputs ==
    ASSUME CommandsInv, NEW p \in CmdPages, NEW v \in CmdPowers \cup {None},
           Commands!SetPower(p, v) \/ Commands!SetDelta(p, v) \/ Commands!ChangeSetting(p)
    PROVE  CommandsInv'
  <1>1. Commands!Effects(p, Commands!Empty) /\ UNCHANGED <<leader, status, net>>
    BY Zenon DEF Commands!SetPower, Commands!SetDelta, Commands!ChangeSetting
  <1>2. /\ cmdShown' \in [CmdPages -> CmdPowers] /\ delta' \in [CmdPages -> CmdPowers \cup {None}]
        /\ \A q \in CmdPages : q # p => cmdShown'[q] = cmdShown[q]
    <2>1. CASE Commands!SetPower(p, v)
      <3>1. v # None
        BY <2>1 DEF Commands!SetPower, Commands!Does
      <3>2. cmdShown' = [cmdShown EXCEPT ![p] = v] /\ delta' = delta
        BY <2>1 DEF Commands!SetPower
      <3> QED
        BY <3>1, <3>2 DEF CommandsInv
    <2>2. CASE Commands!SetDelta(p, v)
      <3>1. delta' = [delta EXCEPT ![p] = v] /\ cmdShown' = cmdShown
        BY <2>2 DEF Commands!SetDelta
      <3> QED
        BY <3>1 DEF CommandsInv
    <2>3. CASE Commands!ChangeSetting(p)
      <3>1. delta' = delta /\ cmdShown' = cmdShown
        BY <2>3 DEF Commands!ChangeSetting
      <3> QED
        BY <3>1 DEF CommandsInv
    <2> QED
      BY <2>1, <2>2, <2>3
  <1>3. /\ status' \in [CmdPages -> {"idle", "connecting", "connected", "closed"}]
        /\ net' \in [CmdPages -> {None, "down", "up", "half"}]
        /\ \A q \in CmdPages : q # leader => status'[q] = "idle" /\ net'[q] = None
        /\ \A q \in CmdPages : net'[q] = "up" =>
               status'[q] = "connected" /\ (q # p => powerRef[q] \in {cmdShown'[q], None})
    BY <1>1, <1>2 DEF CommandsInv
  <1> QED
    BY <1>1, <1>2, <1>3, CommandsEffects

\* A second: what is sent again is the leader's.
LEMMA CommandsTick ==
    ASSUME CommandsInv, Commands!Tick
    PROVE  CommandsInv'
  <1> DEFINE powers == {q \in CmdPages : Commands!Keepalive(q) /\ powerRef[q] # None}
             deltas == {q \in CmdPages : Commands!Keepalive(q) /\ deltaRef[q] # None}
  <1>1. PICK p \in (IF powers = {} THEN {None} ELSE powers), d \in (IF deltas = {} THEN {None} ELSE deltas) :
            /\ UNCHANGED <<leader, status, net, cmdShown, delta, powerRef, deltaRef>>
            /\ cmdCar' = LET c == IF p = None THEN Commands!Aged(cmdCar)
                                  ELSE Commands!WithPower(Commands!Aged(cmdCar), p, powerRef[p])
                         IN  IF d = None THEN c ELSE Commands!WithDelta(c, d, deltaRef[d])
            /\ last' = IF p = None THEN last ELSE [value |-> powerRef[p], shown |-> cmdShown[p]]
    BY Zenon DEF Commands!Tick, Commands!local
  <1>2. \A q \in CmdPages : Commands!Keepalive(q) => q = leader /\ net[q] = "up"
    BY DashNone DEF CommandsInv, Commands!Keepalive, Commands!Reaches
  <1>3. p # None => p \in CmdPages /\ p = leader' /\ net[p] = "up" /\ powerRef[p] # None
    BY <1>1, <1>2
  <1>4. d # None => d = leader'
    BY <1>1, <1>2
  <1> DEFINE c == IF p = None THEN Commands!Aged(cmdCar)
                  ELSE Commands!WithPower(Commands!Aged(cmdCar), p, powerRef[p])
  <1> HIDE DEF powers, deltas
  <1>5. IsCmdCar(Commands!Aged(cmdCar)) /\ Commands!Aged(cmdCar).led = TRUE /\ Commands!Aged(cmdCar).deltaLed = TRUE
    BY AgedCar DEF CommandsInv
  <1>6. IsCmdCar(c) /\ c.led = TRUE /\ c.deltaLed = TRUE
    <2>1. CASE p = None
      BY <1>5, <2>1
    <2>2. CASE p # None
      <3>1. c = Commands!WithPower(Commands!Aged(cmdCar), p, powerRef[p]) /\ leader' = p
        BY <1>3, <2>2
      <3> QED
        BY <1>5, <3>1, LedPower
    <2> QED
      BY <2>1, <2>2
  <1>7. cmdCar' = IF d = None THEN c ELSE Commands!WithDelta(c, d, deltaRef[d])
    BY <1>1
  <1> HIDE DEF c
  <1>8. IsCmdCar(cmdCar') /\ cmdCar'.led = TRUE /\ cmdCar'.deltaLed = TRUE
    <2>1. CASE d = None
      BY <1>6, <1>7, <2>1
    <2>2. CASE d # None
      <3>1. cmdCar' = Commands!WithDelta(c, d, deltaRef[d]) /\ leader' = d
        BY <1>4, <1>7, <2>2
      <3> QED
        BY <1>6, <3>1, LedDelta
    <2> QED
      BY <2>1, <2>2
  <1>9. Commands!SendsShown'
    <2>1. CASE p = None
      BY <1>1, <2>1 DEF CommandsInv, Commands!SendsShown
    <2>2. CASE p # None
      <3>1. powerRef[p] = cmdShown[p]
        BY <1>3, <2>2 DEF CommandsInv
      <3>2. last' = [value |-> cmdShown[p], shown |-> cmdShown[p]]
        BY <1>1, <2>2, <3>1
      <3> QED
        BY <3>2 DEF Commands!SendsShown
    <2> QED
      BY <2>1, <2>2
  <1>10. UNCHANGED <<leader, status, net, cmdShown, delta, powerRef, deltaRef>>
    BY <1>1
  <1> QED
    BY <1>8, <1>9, <1>10 DEF CommandsInv

LEMMA CommandsNext ==
    ASSUME CommandsInv, Commands!Next
    PROVE  CommandsInv'
  <1>1. ASSUME NEW p \in CmdPages, Commands!OnConnect(p)
        PROVE  CommandsInv'
    BY <1>1, CommandsOnConnect
  <1>2. ASSUME NEW p \in CmdPages,
               \/ Commands!AutoConnect(p) \/ Commands!connect(p) \/ Commands!disconnect(p)
               \/ Commands!OnClose(p) \/ Commands!HalfOpen(p) \/ Commands!Reload(p)
        PROVE  CommandsInv'
    BY <1>2, CommandsLinks
  <1>3. ASSUME NEW p \in CmdPages, NEW v \in CmdPowers \cup {None},
               Commands!SetPower(p, v) \/ Commands!SetDelta(p, v) \/ Commands!ChangeSetting(p)
        PROVE  CommandsInv'
    BY <1>3, CommandsInputs
  <1>4. \A p : ~Commands!publishScreen(p) /\ ~Commands!ReleaseScreen(p) /\ ~Commands!fireFlagDriverMessage(p)
               /\ ~Commands!clearDriverMessage(p) /\ ~Commands!Handover(p)
    BY DEF Commands!publishScreen, Commands!ReleaseScreen, Commands!fireFlagDriverMessage,
       Commands!clearDriverMessage, Commands!sendDriverMessage, Commands!Handover, Commands!Press,
       Commands!Does
  <1>5. CASE Commands!Tick
    BY <1>5, CommandsTick
  <1>6. CASE Commands!Shift \/ Commands!CarReboots
    <2>1. UNCHANGED <<leader, status, net, cmdShown, delta, powerRef, deltaRef, last>>
      BY <1>6, Zenon DEF Commands!Shift, Commands!CarReboots, Commands!local
    <2>2. cmdCar' = [cmdCar EXCEPT !.screen = None] \/ cmdCar' = [Commands!Off EXCEPT !.setting = retained]
      BY <1>6, Zenon DEF Commands!Shift, Commands!CarReboots
    <2>3. IsCmdCar(cmdCar') /\ cmdCar'.led = TRUE /\ cmdCar'.deltaLed = TRUE
      <3>1. CASE cmdCar' = [cmdCar EXCEPT !.screen = None]
        <4>1. IsCmdCar(cmdCar) /\ cmdCar.led = TRUE /\ cmdCar.deltaLed = TRUE
          BY DEF CommandsInv
        <4> QED
          BY <3>1, <4>1 DEF IsCmdCar, CmdCarFields
      <3>2. CASE cmdCar' = [Commands!Off EXCEPT !.setting = retained]
        BY <3>2, RebootedCar
      <3> QED
        BY <2>2, <3>1, <3>2
    <2> QED
      BY <2>1, <2>3 DEF CommandsInv, Commands!SendsShown
  <1>7. ASSUME NEW p \in CmdPages, Commands!ChangeSetting(p)
        PROVE  CommandsInv'
    <2>1. None \in CmdPowers \cup {None}
      OBVIOUS
    <2> QED
      BY <1>3, <1>7, <2>1
  <1> QED
    BY <1>1, <1>2, <1>3, <1>4, <1>5, <1>6, <1>7, Zenon DEF Commands!Next

(* ----- The steps of scene "roles" ----- *)

\* A page with its effects keeps an override, and takes over what is retained.
LEMMA RolesCar ==
    ASSUME IsCmdCar(cmdCar), cmdCar.setting \in {retained, None},
           NEW p, CommandsRoles!Effects(p, CommandsRoles!Empty)
    PROVE  IsCmdCar(cmdCar') /\ cmdCar'.setting \in {retained', None} /\ cmdCar'.screen = cmdCar.screen
  <1> DEFINE c1 == CommandsRoles!TargetPowerEffect(p, cmdCar)
             c2 == CommandsRoles!DeltaEffect(p, c1)
  <1>1. IsCmdCar(c1) /\ c1.setting = cmdCar.setting /\ c1.screen = cmdCar.screen
    <2>1. c1 = cmdCar \/ \E v, b : c1 = [cmdCar EXCEPT !.power = v, !.led = b, !.age = 0]
      BY Zenon DEF CommandsRoles!TargetPowerEffect, CommandsRoles!WithPower
    <2> HIDE DEF c1
    <2> QED
      BY <2>1 DEF IsCmdCar, CmdCarFields
  <1> HIDE DEF c1
  <1>2. IsCmdCar(c2) /\ c2.setting = cmdCar.setting /\ c2.screen = cmdCar.screen
    <2>1. c2 = c1 \/ \E v, b : c2 = [c1 EXCEPT !.delta = v, !.deltaLed = b, !.deltaAge = 0]
      BY Zenon DEF CommandsRoles!DeltaEffect, CommandsRoles!WithDelta
    <2> HIDE DEF c2
    <2> QED
      BY <1>1, <2>1 DEF IsCmdCar, CmdCarFields
  <1>3. CommandsRoles!Empty.screen = None
    BY DEF CommandsRoles!Empty
  <1>4. cmdCar' = [c2 EXCEPT !.setting = IF retained' # retained THEN retained' ELSE @,
                             !.screen = IF CommandsRoles!Empty.screen # None
                                        THEN CommandsRoles!Empty.screen ELSE @]
    BY Zenon DEF CommandsRoles!Effects, c1
  <1> HIDE DEF c2
  <1>5. LET r == [c2 EXCEPT !.setting = IF retained' # retained THEN retained' ELSE @,
                            !.screen = IF CommandsRoles!Empty.screen # None
                                       THEN CommandsRoles!Empty.screen ELSE @]
        IN  IsCmdCar(r) /\ r.screen = c2.screen
              /\ r.setting = (IF retained' # retained THEN retained' ELSE c2.setting)
    BY <1>2, <1>3 DEF IsCmdCar, CmdCarFields
  <1> QED
    BY <1>2, <1>4, <1>5

\* A change of the state of page p, with its effects.
LEMMA RolesEffects ==
    ASSUME RolesInv, NEW p \in CmdPages, CommandsRoles!Effects(p, CommandsRoles!Empty),
           leader' = leader \/ leader' = p, UNCHANGED gear,
           status' \in [CmdPages -> {"idle", "connecting", "connected", "closed"}],
           net' \in [CmdPages -> {None, "down", "up"}],
           setting' \in [CmdPages -> Nat], presses' \in Nat,
           \A q \in CmdPages : q # p => setting'[q] = setting[q] /\ net'[q] = net[q] /\ status'[q] = status[q]
    PROVE  RolesInv'
  <1>1. CommandsRoles!Empty.setting = None
    BY DEF CommandsRoles!Empty
  <1>2. retained' = IF leader' = p /\ status'[p] = "connected" /\ net'[p] = "up"
                    THEN setting'[p] ELSE retained
    BY <1>1, Zenon DEF CommandsRoles!Effects, CommandsRoles!Pushes
  <1>3. net'[p] # "half"
    BY DashNone
  <1>4. outbox' = outbox
    BY <1>3, Zenon DEF CommandsRoles!Effects
  <1>5. leader' \in CmdPages
    BY DEF RolesInv
  <1>6. net'[leader'] = "up" /\ status'[leader'] = "connected" => retained' = setting'[leader']
    BY <1>2, <1>5 DEF RolesInv
  <1>7. IsCmdCar(cmdCar') /\ cmdCar'.setting \in {retained', None} /\ cmdCar'.screen = cmdCar.screen
    BY RolesCar DEF RolesInv
  <1>8. CommandsRoles!NotStranded'
    BY <1>7 DEF RolesInv, CommandsRoles!NotStranded
  <1> QED
    BY <1>4, <1>5, <1>6, <1>7, <1>8 DEF RolesInv

\* A step that publishes at most a command of the moment.
LEMMA RolesQuiet ==
    ASSUME RolesInv, NEW p \in CmdPages,
           NEW s \in {"idle", "connecting", "connected", "closed"}, NEW n \in {None, "down", "up"},
           status' = [status EXCEPT ![p] = s], net' = [net EXCEPT ![p] = n],
           n # "up",
           UNCHANGED <<leader, setting, outbox, retained>>, presses' \in Nat,
           IsCmdCar(cmdCar'), cmdCar'.setting \in {retained, None}, CommandsRoles!NotStranded'
    PROVE  RolesInv'
  <1>1. /\ status' \in [CmdPages -> {"idle", "connecting", "connected", "closed"}]
        /\ net' \in [CmdPages -> {None, "down", "up"}]
    BY DEF RolesInv
  <1>2. net'[leader] = "up" /\ status'[leader] = "connected" => retained = setting[leader]
    BY DEF RolesInv
  <1> QED
    BY <1>1, <1>2 DEF RolesInv

LEMMA RolesStill ==
    ASSUME RolesInv, UNCHANGED <<status, net, leader, setting, outbox, retained>>, presses' \in Nat,
           IsCmdCar(cmdCar'), cmdCar'.setting \in {retained, None}, CommandsRoles!NotStranded'
    PROVE  RolesInv'
  BY DEF RolesInv

LEMMA RolesLinks ==
    ASSUME RolesInv, NEW p \in CmdPages,
           CommandsRoles!AutoConnect(p) \/ CommandsRoles!OnClose(p)
    PROVE  RolesInv'
  <1>1. /\ \E s \in {"idle", "connecting", "connected", "closed"} : status' = [status EXCEPT ![p] = s]
        /\ net' = [net EXCEPT ![p] = "down"]
        /\ UNCHANGED <<leader, setting, outbox, retained, cmdCar, gear>>
        /\ presses' = presses \/ presses' = presses + 1
    BY DEF CommandsRoles!AutoConnect, CommandsRoles!OnClose, CommandsRoles!Press, CommandsRoles!local
  <1>2. presses' \in Nat /\ "down" \in {None, "down", "up"} /\ "down" # "up"
    BY <1>1 DEF RolesInv
  <1>3. IsCmdCar(cmdCar') /\ cmdCar'.setting \in {retained, None} /\ CommandsRoles!NotStranded'
    BY <1>1 DEF RolesInv, CommandsRoles!NotStranded
  <1>4. PICK s \in {"idle", "connecting", "connected", "closed"} : status' = [status EXCEPT ![p] = s]
    BY <1>1
  <1> QED
    BY <1>1, <1>2, <1>3, <1>4, RolesQuiet

LEMMA RolesPages ==
    ASSUME RolesInv, NEW p \in CmdPages,
           CommandsRoles!OnConnect(p) \/ CommandsRoles!ChangeSetting(p) \/ CommandsRoles!Handover(p)
    PROVE  RolesInv'
  <1>1. outbox[p] = CommandsRoles!Empty
    BY DEF RolesInv
  <1>2. CommandsRoles!Effects(p, CommandsRoles!Empty)
    BY <1>1, Zenon DEF CommandsRoles!OnConnect, CommandsRoles!ChangeSetting, CommandsRoles!Handover
  <1>3. CASE CommandsRoles!OnConnect(p)
    <2>1. /\ status' = [status EXCEPT ![p] = "connected"] /\ net' = [net EXCEPT ![p] = "up"]
          /\ UNCHANGED <<leader, setting, gear, presses>>
      BY <1>3 DEF CommandsRoles!OnConnect, CommandsRoles!local
    <2>2. /\ status' \in [CmdPages -> {"idle", "connecting", "connected", "closed"}]
          /\ net' \in [CmdPages -> {None, "down", "up"}] /\ setting' \in [CmdPages -> Nat] /\ presses' \in Nat
          /\ \A q \in CmdPages : q # p => setting'[q] = setting[q] /\ net'[q] = net[q] /\ status'[q] = status[q]
      BY <2>1 DEF RolesInv
    <2> QED
      BY <1>2, <2>1, <2>2, RolesEffects
  <1>4. CASE CommandsRoles!ChangeSetting(p)
    <2>1. /\ setting' = [setting EXCEPT ![p] = presses + 1] /\ presses' = presses + 1
          /\ UNCHANGED <<leader, status, net, gear>>
      BY <1>4 DEF CommandsRoles!ChangeSetting, CommandsRoles!Press
    <2>2. /\ status' \in [CmdPages -> {"idle", "connecting", "connected", "closed"}]
          /\ net' \in [CmdPages -> {None, "down", "up"}] /\ setting' \in [CmdPages -> Nat] /\ presses' \in Nat
          /\ \A q \in CmdPages : q # p => setting'[q] = setting[q] /\ net'[q] = net[q] /\ status'[q] = status[q]
      BY <2>1 DEF RolesInv
    <2> QED
      BY <1>2, <2>1, <2>2, RolesEffects
  <1>5. CASE CommandsRoles!Handover(p)
    <2>1. leader' = p /\ presses' = presses + 1 /\ UNCHANGED <<status, net, setting, gear>>
      BY <1>5 DEF CommandsRoles!Handover, CommandsRoles!Press, CommandsRoles!local
    <2>2. /\ status' \in [CmdPages -> {"idle", "connecting", "connected", "closed"}]
          /\ net' \in [CmdPages -> {None, "down", "up"}] /\ setting' \in [CmdPages -> Nat] /\ presses' \in Nat
          /\ \A q \in CmdPages : q # p => setting'[q] = setting[q] /\ net'[q] = net[q] /\ status'[q] = status[q]
      BY <2>1 DEF RolesInv
    <2> QED
      BY <1>2, <2>1, <2>2, RolesEffects
  <1> QED
    BY <1>3, <1>4, <1>5

\* Commands of the moment: over a link that is up, there being no other in this scene.
LEMMA RolesOneshots ==
    ASSUME RolesInv, NEW p \in CmdPages,
           \/ CommandsRoles!publishScreen(p) \/ CommandsRoles!ReleaseScreen(p)
           \/ CommandsRoles!fireFlagDriverMessage(p) \/ CommandsRoles!clearDriverMessage(p)
    PROVE  RolesInv'
  <1>1. CASE CommandsRoles!publishScreen(p) \/ CommandsRoles!ReleaseScreen(p)
    <2>1. net[p] \in {"up", "half"} /\ net[p] \in {None, "down", "up"}
      BY <1>1 DEF RolesInv, CommandsRoles!publishScreen, CommandsRoles!ReleaseScreen, CommandsRoles!Connected
    <2>2. CommandsRoles!Reaches(p)
      BY <2>1, DashNone DEF CommandsRoles!Reaches
    <2>3. /\ cmdCar' = [cmdCar EXCEPT !.screen = gear] \/ cmdCar' = [cmdCar EXCEPT !.screen = None]
          /\ UNCHANGED <<status, net, leader, setting, outbox, retained, gear>>
          /\ presses' = presses + 1
      BY <1>1, <2>2 DEF CommandsRoles!publishScreen, CommandsRoles!ReleaseScreen, CommandsRoles!local, CommandsRoles!Press
    <2>4. /\ IsCmdCar(cmdCar') /\ cmdCar'.setting = cmdCar.setting
          /\ cmdCar'.screen \in {gear, None}
      <3>1. IsCmdCar(cmdCar)
        BY DEF RolesInv
      <3> QED
        BY <2>3, <3>1 DEF IsCmdCar, CmdCarFields
    <2>5. CommandsRoles!NotStranded' /\ presses' \in Nat /\ cmdCar'.setting \in {retained, None}
      BY <2>3, <2>4 DEF RolesInv, CommandsRoles!NotStranded
    <2> QED
      BY <2>3, <2>4, <2>5, RolesStill
  <1>2. CASE \E m : CommandsRoles!sendDriverMessage(p, m)
    <2>1. /\ cmdCar' = cmdCar \/ \E m : cmdCar' = [cmdCar EXCEPT !.message = m]
          /\ UNCHANGED <<status, net, leader, setting, outbox, retained, gear>>
          /\ presses' = presses + 1
      BY <1>2, Zenon DEF CommandsRoles!sendDriverMessage, CommandsRoles!local, CommandsRoles!Press
    <2>2. IsCmdCar(cmdCar)
      BY DEF RolesInv
    <2>3. /\ IsCmdCar(cmdCar') /\ cmdCar'.setting = cmdCar.setting /\ cmdCar'.screen = cmdCar.screen
      <3>1. CASE \E m : cmdCar' = [cmdCar EXCEPT !.message = m]
        <4>1. PICK m : cmdCar' = [cmdCar EXCEPT !.message = m]
          BY <3>1
        <4> QED
          BY <2>2, <4>1 DEF IsCmdCar, CmdCarFields
      <3> QED
        BY <2>1, <2>2, <3>1
    <2>4. CommandsRoles!NotStranded' /\ presses' \in Nat /\ cmdCar'.setting \in {retained, None}
      BY <2>1, <2>3 DEF RolesInv, CommandsRoles!NotStranded
    <2> QED
      BY <2>1, <2>3, <2>4, RolesStill
  <1> QED
    BY <1>1, <1>2, Zenon DEF CommandsRoles!fireFlagDriverMessage, CommandsRoles!clearDriverMessage

LEMMA RolesTick ==
    ASSUME RolesInv, CommandsRoles!Tick
    PROVE  RolesInv'
  <1>1. UNCHANGED <<status, net, leader, setting, outbox, retained, gear, presses>>
    BY Zenon DEF CommandsRoles!Tick, CommandsRoles!local
  <1>2. PICK p, d :
            cmdCar' = LET c == IF p = None THEN CommandsRoles!Aged(cmdCar)
                               ELSE CommandsRoles!WithPower(CommandsRoles!Aged(cmdCar), p, powerRef[p])
                      IN  IF d = None THEN c ELSE CommandsRoles!WithDelta(c, d, deltaRef[d])
    BY Zenon DEF CommandsRoles!Tick
  <1> DEFINE a == CommandsRoles!Aged(cmdCar)
             c == IF p = None THEN a ELSE CommandsRoles!WithPower(a, p, powerRef[p])
  <1>3. IsCmdCar(a) /\ a.setting = cmdCar.setting /\ a.screen = cmdCar.screen
    BY AgedCar DEF RolesInv
  <1>4. c = a \/ \E v, b : c = [a EXCEPT !.power = v, !.led = b, !.age = 0]
    BY Zenon DEF CommandsRoles!WithPower
  <1>5. cmdCar' = c \/ \E v, b : cmdCar' = [c EXCEPT !.delta = v, !.deltaLed = b, !.deltaAge = 0]
    BY <1>2, Zenon DEF CommandsRoles!WithDelta
  <1> HIDE DEF a, c
  <1>6. IsCmdCar(cmdCar') /\ cmdCar'.setting = cmdCar.setting /\ cmdCar'.screen = cmdCar.screen
    <2>1. IsCmdCar(c) /\ c.setting = cmdCar.setting /\ c.screen = cmdCar.screen
      BY <1>3, <1>4 DEF IsCmdCar, CmdCarFields
    <2> QED
      BY <1>5, <2>1 DEF IsCmdCar, CmdCarFields
  <1>7. CommandsRoles!NotStranded' /\ presses' \in Nat /\ cmdCar'.setting \in {retained, None}
    BY <1>1, <1>6 DEF RolesInv, CommandsRoles!NotStranded
  <1> QED
    BY <1>1, <1>6, <1>7, RolesStill

LEMMA RolesNext ==
    ASSUME RolesInv, CommandsRoles!Next
    PROVE  RolesInv'
  <1>1. ASSUME NEW p \in CmdPages, CommandsRoles!AutoConnect(p) \/ CommandsRoles!OnClose(p)
        PROVE  RolesInv'
    BY <1>1, RolesLinks
  <1>2. ASSUME NEW p \in CmdPages,
               CommandsRoles!OnConnect(p) \/ CommandsRoles!ChangeSetting(p) \/ CommandsRoles!Handover(p)
        PROVE  RolesInv'
    BY <1>2, RolesPages
  <1>3. ASSUME NEW p \in CmdPages,
               \/ CommandsRoles!publishScreen(p) \/ CommandsRoles!ReleaseScreen(p)
               \/ CommandsRoles!fireFlagDriverMessage(p) \/ CommandsRoles!clearDriverMessage(p)
        PROVE  RolesInv'
    BY <1>3, RolesOneshots
  <1>4. \A p, v : ~CommandsRoles!connect(p) /\ ~CommandsRoles!disconnect(p) /\ ~CommandsRoles!HalfOpen(p)
               /\ ~CommandsRoles!Reload(p) /\ ~CommandsRoles!SetPower(p, v) /\ ~CommandsRoles!SetDelta(p, v)
    BY DEF CommandsRoles!connect, CommandsRoles!disconnect, CommandsRoles!HalfOpen, CommandsRoles!Reload,
       CommandsRoles!SetPower, CommandsRoles!SetDelta, CommandsRoles!Press, CommandsRoles!Does
  <1>5. CASE CommandsRoles!Tick
    BY <1>5, RolesTick
  <1>6. CASE CommandsRoles!Shift \/ CommandsRoles!CarReboots
    <2>1. UNCHANGED <<status, net, leader, setting, outbox, retained>> /\ presses' = presses + 1
      BY <1>6, Zenon DEF CommandsRoles!Shift, CommandsRoles!CarReboots, CommandsRoles!local, CommandsRoles!Press
    <2>2. cmdCar' = [cmdCar EXCEPT !.screen = None] \/ cmdCar' = [CommandsRoles!Off EXCEPT !.setting = retained]
      BY <1>6, Zenon DEF CommandsRoles!Shift, CommandsRoles!CarReboots
    <2>3. IsCmdCar(cmdCar') /\ cmdCar'.setting \in {retained, None} /\ cmdCar'.screen = None
      <3>1. CASE cmdCar' = [cmdCar EXCEPT !.screen = None]
        <4>1. IsCmdCar(cmdCar) /\ cmdCar.setting \in {retained, None}
          BY DEF RolesInv
        <4> QED
          BY <3>1, <4>1 DEF IsCmdCar, CmdCarFields
      <3>2. CASE cmdCar' = [CommandsRoles!Off EXCEPT !.setting = retained]
        BY <3>2, RebootedCar
      <3> QED
        BY <2>2, <3>1, <3>2
    <2>4. presses' \in Nat /\ CommandsRoles!NotStranded'
      BY <2>1, <2>3 DEF RolesInv, CommandsRoles!NotStranded
    <2> QED
      BY <2>1, <2>3, <2>4, RolesStill
  <1> QED
    BY <1>1, <1>2, <1>3, <1>4, <1>5, <1>6, Zenon DEF CommandsRoles!Next

LEMMA CommandsStart ==
    ASSUME Commands!Init
    PROVE  CommandsInv /\ RolesInv
  <1>1. /\ leader \in CmdPages
        /\ status = [p \in CmdPages |-> "idle"] /\ net = [p \in CmdPages |-> None]
        /\ cmdShown \in [CmdPages -> CmdPowers] /\ delta = [p \in CmdPages |-> None]
        /\ setting = [p \in CmdPages |-> 0]
        /\ powerRef = [p \in CmdPages |-> None] /\ deltaRef = [p \in CmdPages |-> None]
        /\ last = None /\ presses = 0 /\ cmdCar = Commands!Off
    BY DEF Commands!Init
  <1>2. outbox = [p \in CmdPages |-> CommandsRoles!Empty]
    BY Zenon DEF Commands!Init, Commands!Empty, CommandsRoles!Empty
  <1>3. IsCmdCar(cmdCar) /\ cmdCar.led = TRUE /\ cmdCar.deltaLed = TRUE
    BY <1>1, RebootedCar
  <1>4. cmdCar.setting = None /\ cmdCar.screen = None
    BY <1>1 DEF Commands!Off
  <1>5. CommandsInv
    BY <1>1, <1>3, DashNone DEF CommandsInv, Commands!SendsShown
  <1>6. RolesInv
    <2>1. net[leader] # "up"
      BY <1>1, DashNone
    <2> QED
      BY <1>1, <1>2, <1>3, <1>4, <2>1 DEF RolesInv, CommandsRoles!NotStranded
  <1> QED
    BY <1>5, <1>6

(* ----- The screen ----- *)

\* The page in the car: overrides and lap cards; a card alone; demo mode and outages.
ScreenRace ==
    INSTANCE DashScreen WITH
        Overrides <- RaceOverrides, Durations <- RaceDurations, MaxLaps <- RaceLaps,
        Moves <- RaceMoves, Allowed <- {}, car <- screenCar, linked <- screenLinked,
        page <- screenPage, shown <- screenShown, up <- screenUp,
        moves <- screenMoves
ScreenCard ==
    INSTANCE DashScreen WITH
        Overrides <- {}, Durations <- {0, 9}, MaxLaps <- 2, Moves <- 3,
        Allowed <- {}, car <- screenCar, linked <- screenLinked, page <- screenPage,
        shown <- screenShown, up <- screenUp, moves <- screenMoves
ScreenDemo ==
    INSTANCE DashScreen WITH
        Overrides <- DemoOverrides, Durations <- DemoDurations, MaxLaps <- DemoLaps,
        Moves <- DemoMoves,
        Allowed <- {"demo", "outage", "quick", "nodiag", "blind", "mqtt", "deselect"},
        car <- screenCar, linked <- screenLinked, page <- screenPage,
        shown <- screenShown, up <- screenUp, moves <- screenMoves

ASSUME ScreenBounds ==
    /\ ScreenRace!ScreenAssumption
    /\ ScreenCard!ScreenAssumption
    /\ ScreenDemo!ScreenAssumption

(* ----- The screen: the invariant behind ScreenSound ----- *)

\* A finished lap, and a message of dashd, as the page of scene "race" has them.
RaceLapRecord == [n : 0..RaceLaps, id : 0..RaceLaps]
RaceMessage == [gear : {"P", "D", None}, last : RaceLapRecord \cup {None},
                over : RaceOverrides \cup {None}, ms : RaceDurations \cup {None},
                tele : BOOLEAN]

\* Nor is it a lap or a message of dashd.
ASSUME RaceNone == None \notin RaceLapRecord /\ None \notin RaceMessage

\* The eight fields of the page's state.
RacePage(i, g, t, b, c, f, m, x) ==
    [index |-> i, lastGear |-> g, inited |-> t, baseline |-> b, card |-> c,
     frozen |-> f, ms |-> m, left |-> x]

\* What dashd and the page keep, by type.
RaceCarTypes ==
    screenCar \in [gear : {"P", "D", None}, prev : {"P", "D", None}, fresh : BOOLEAN,
                   count : 0..RaceLaps, laps : 0..RaceLaps,
                   last : RaceLapRecord \cup {None}, over : RaceOverrides \cup {None},
                   ms : RaceDurations \cup {None}, tele : BOOLEAN]
RacePageTypes ==
    /\ isDemo = FALSE /\ screenLinked \in BOOLEAN
    /\ live \in RaceMessage \cup {None}
    /\ \E i, g, b, c, f, m, x : \E t \in BOOLEAN : screenPage = RacePage(i, g, t, b, c, f, m, x)
    /\ \A id \in screenShown \cup adopted : id \in 0..RaceLaps

\* The page follows the gear it was given last, and an override covers the screen of
\* the page's own index.
RaceRouting ==
    /\ screenPage.lastGear = seen
    /\ ScreenRace!Overridden(live) => under = screenPage.index

\* The car's last lap is the newest one.
RaceCarLap ==
    /\ screenCar.count <= screenCar.laps
    /\ screenCar.last # None =>
         screenCar.last.n = screenCar.count /\ screenCar.last.id = screenCar.laps

\* The lap on the page is the car's, or an older one; a reset the page has not heard of
\* finds the link up and no card.
RacePageLap ==
    live # None /\ live.last # None =>
        /\ screenCar.last # None =>
              /\ live.last.n <= screenCar.last.n
              /\ live.last.n = screenCar.last.n => live.last = screenCar.last
        /\ screenCar.last = None => screenLinked = TRUE /\ screenPage.card = None

\* The page has started when it has a message; it then compares with the lap on it.
RaceBaseline ==
    screenPage.inited = TRUE =>
        /\ live # None
        /\ live.last = None => screenPage.baseline = None
        /\ live.last # None => screenPage.baseline = live.last.n

\* The card is that of the lap on the page, and shows it.
RaceCard ==
    /\ screenPage.frozen = screenPage.card
    /\ screenPage.card # None => screenPage.inited = TRUE /\ screenPage.card = live.last

\* What had its card is a lap of the car; the car's last lap only if the page has it.
RaceShown ==
    /\ screenPage.inited = TRUE /\ live.last # None => live.last.id \in screenShown \cup adopted
    /\ \A id \in screenShown \cup adopted :
          /\ id <= screenCar.laps
          /\ id = screenCar.laps /\ screenCar.last # None /\ screenPage.inited = TRUE
               => live.last = screenCar.last

RaceInv ==
    /\ RaceCarTypes
    /\ RacePageTypes
    /\ RaceRouting
    /\ RaceCarLap
    /\ RacePageLap
    /\ RaceBaseline
    /\ RaceCard
    /\ RaceShown

\* In demo mode only the routing matters.
DemoInv ==
    /\ \E i, g, b, c, f, m, x : \E t \in BOOLEAN : screenPage = RacePage(i, g, t, b, c, f, m, x)
    /\ screenPage.lastGear = seen

ScreenInv == (scene = "race" => RaceInv) /\ (scene = "demo" => DemoInv)

(* ----- What a render makes of the page ----- *)

\* The PRNDL effect on the page's fields.
LEMMA RaceRouted ==
    ASSUME NEW i, NEW g, NEW t, NEW b, NEW c, NEW f, NEW m, NEW x, NEW d
    PROVE  \E i2, g2 :
              /\ ScreenRace!Routed(RacePage(i, g, t, b, c, f, m, x), d)
                    = RacePage(i2, g2, t, b, c, f, m, x)
              /\ d = None \/ d.gear \in {None, g} => i2 = i /\ g2 = g
              /\ d # None /\ d.gear \notin {None, g}
                    => i2 = ScreenRace!ScreenOf(d.gear) /\ g2 = d.gear
  <1> DEFINE p == RacePage(i, g, t, b, c, f, m, x)
  <1>0. p.lastGear = g
    BY DEF RacePage
  <1>1. CASE d = None \/ d.gear \in {None, g}
    <2>1. ScreenRace!Routed(p, d) = RacePage(i, g, t, b, c, f, m, x)
      BY <1>0, <1>1 DEF ScreenRace!Routed
    <2> QED
      BY <1>1, <2>1
  <1>2. CASE ~(d = None \/ d.gear \in {None, g})
    <2>1. \A v, w : [p EXCEPT !.lastGear = v, !.index = w] = RacePage(w, v, t, b, c, f, m, x)
      <3> TAKE v, w
      <3>1. [p EXCEPT !.lastGear = v] = RacePage(i, v, t, b, c, f, m, x)
        BY DEF RacePage
      <3>2. [RacePage(i, v, t, b, c, f, m, x) EXCEPT !.index = w] = RacePage(w, v, t, b, c, f, m, x)
        BY DEF RacePage
      <3>3. [p EXCEPT !.lastGear = v, !.index = w] = [[p EXCEPT !.lastGear = v] EXCEPT !.index = w]
        OBVIOUS
      <3> QED
        BY <3>1, <3>2, <3>3
    <2>2. ScreenRace!Routed(p, d)
            = RacePage(ScreenRace!ScreenOf(d.gear), d.gear, t, b, c, f, m, x)
      BY <1>0, <1>2, <2>1 DEF ScreenRace!Routed
    <2> QED
      BY <1>2, <2>2
  <1> QED
    BY <1>1, <1>2

\* What the lap effect makes of inited, baseline and card when the page shows d.
LapEffect(t, b, c, d, t2, b2, c2) ==
    /\ d = None => t2 = t /\ b2 = b /\ c2 = c
    /\ d # None => t2 = TRUE
    /\ d # None /\ t = FALSE =>
          /\ c2 = c
          /\ d.last = None => b2 = None
          /\ d.last # None => b2 = d.last.n
    /\ d # None /\ t = TRUE /\ d.last = None => b2 = None /\ c2 = c
    /\ d # None /\ t = TRUE /\ d.last # None /\ b # None /\ d.last.n <= b
          => b2 = b /\ c2 = c
    /\ d # None /\ t = TRUE /\ d.last # None /\ ~(b # None /\ d.last.n <= b)
          => b2 = d.last.n /\ c2 = d.last

\* The lap effect on the page's fields.
LEMMA RacePaced ==
    ASSUME NEW i, NEW g, NEW t \in BOOLEAN, NEW b, NEW c, NEW f, NEW m, NEW x, NEW d
    PROVE  \E b2, c2 : \E t2 \in BOOLEAN :
              /\ ScreenRace!Paced(RacePage(i, g, t, b, c, f, m, x), d)
                    = RacePage(i, g, t2, b2, c2, f, m, x)
              /\ LapEffect(t, b, c, d, t2, b2, c2)
  <1> DEFINE p == RacePage(i, g, t, b, c, f, m, x)
  <1>0. p.inited = t /\ p.baseline = b
    BY DEF RacePage
  <1>a. \A v, w : [p EXCEPT !.inited = v, !.baseline = w] = RacePage(i, g, v, w, c, f, m, x)
    <2> TAKE v, w
    <2>1. [p EXCEPT !.inited = v] = RacePage(i, g, v, b, c, f, m, x)
      BY DEF RacePage
    <2>2. [RacePage(i, g, v, b, c, f, m, x) EXCEPT !.baseline = w] = RacePage(i, g, v, w, c, f, m, x)
      BY DEF RacePage
    <2>3. [p EXCEPT !.inited = v, !.baseline = w] = [[p EXCEPT !.inited = v] EXCEPT !.baseline = w]
      OBVIOUS
    <2> QED
      BY <2>1, <2>2, <2>3
  <1>b. \A v : [p EXCEPT !.baseline = v] = RacePage(i, g, t, v, c, f, m, x)
    BY DEF RacePage
  <1>c. \A v, w : [p EXCEPT !.baseline = v, !.card = w] = RacePage(i, g, t, v, w, f, m, x)
    <2> TAKE v, w
    <2>1. [p EXCEPT !.baseline = v] = RacePage(i, g, t, v, c, f, m, x)
      BY DEF RacePage
    <2>2. [RacePage(i, g, t, v, c, f, m, x) EXCEPT !.card = w] = RacePage(i, g, t, v, w, f, m, x)
      BY DEF RacePage
    <2>3. [p EXCEPT !.baseline = v, !.card = w] = [[p EXCEPT !.baseline = v] EXCEPT !.card = w]
      OBVIOUS
    <2> QED
      BY <2>1, <2>2, <2>3
  <1>1. CASE d = None
    <2>1. ScreenRace!Paced(p, d) = RacePage(i, g, t, b, c, f, m, x)
      BY <1>1 DEF ScreenRace!Paced
    <2> QED
      BY <1>1, <2>1 DEF LapEffect
  <1>2. CASE d # None /\ t = FALSE
    <2> DEFINE w == IF d.last = None THEN None ELSE d.last.n
    <2>1. ScreenRace!Paced(p, d) = [p EXCEPT !.inited = TRUE, !.baseline = w]
      BY <1>0, <1>2, Zenon DEF ScreenRace!Paced
    <2>2. ScreenRace!Paced(p, d) = RacePage(i, g, TRUE, w, c, f, m, x)
      BY <1>a, <2>1, Zenon
    <2> QED
      BY <1>2, <2>2 DEF LapEffect
  <1>3. CASE d # None /\ t = TRUE /\ d.last = None
    <2>1. ScreenRace!Paced(p, d) = RacePage(i, g, t, None, c, f, m, x)
      BY <1>0, <1>3, <1>b DEF ScreenRace!Paced
    <2> QED
      BY <1>3, <2>1 DEF LapEffect
  <1>4. CASE d # None /\ t = TRUE /\ d.last # None /\ b # None /\ d.last.n <= b
    <2>1. ScreenRace!Paced(p, d) = RacePage(i, g, t, b, c, f, m, x)
      BY <1>0, <1>4 DEF ScreenRace!Paced
    <2> QED
      BY <1>4, <2>1 DEF LapEffect
  <1>5. CASE d # None /\ t = TRUE /\ d.last # None /\ ~(b # None /\ d.last.n <= b)
    <2>1. ScreenRace!Paced(p, d) = RacePage(i, g, t, d.last.n, d.last, f, m, x)
      BY <1>0, <1>5, <1>c DEF ScreenRace!Paced
    <2> QED
      BY <1>5, <2>1 DEF LapEffect
  <1> QED
    BY <1>1, <1>2, <1>3, <1>4, <1>5

\* The timer and the snapshot leave screen, gear, baseline and card.
LEMMA RaceTimed ==
    ASSUME NEW i, NEW g, NEW t, NEW b, NEW c, NEW f, NEW m, NEW x, NEW d, NEW was
    PROVE  \E m2, x2 : ScreenRace!Timed(RacePage(i, g, t, b, c, f, m, x), was, d)
                          = RacePage(i, g, t, b, c, f, m2, x2)
  <1> DEFINE p == RacePage(i, g, t, b, c, f, m, x)
  <1>1. ASSUME NEW v, NEW w
        PROVE  [p EXCEPT !.ms = v, !.left = w] = RacePage(i, g, t, b, c, f, v, w)
    <2>1. [p EXCEPT !.ms = v] = RacePage(i, g, t, b, c, f, v, x)
      BY DEF RacePage
    <2>2. [RacePage(i, g, t, b, c, f, v, x) EXCEPT !.left = w] = RacePage(i, g, t, b, c, f, v, w)
      BY DEF RacePage
    <2>3. [p EXCEPT !.ms = v, !.left = w] = [[p EXCEPT !.ms = v] EXCEPT !.left = w]
      OBVIOUS
    <2> QED
      BY <2>1, <2>2, <2>3
  <1>2. PICK v, w : ScreenRace!Timed(p, was, d) = [p EXCEPT !.ms = v, !.left = w]
    BY DEF ScreenRace!Timed, RacePage
  <1>3. ScreenRace!Timed(p, was, d) = RacePage(i, g, t, b, c, f, v, w)
    BY <1>1, <1>2
  <1> QED
    BY <1>3

LEMMA RaceSnapshot ==
    ASSUME NEW i, NEW g, NEW t, NEW b, NEW c, NEW f, NEW m, NEW x
    PROVE  ScreenRace!Snapshot(RacePage(i, g, t, b, c, f, m, x))
              = RacePage(i, g, t, b, c,
                         IF c = None THEN None ELSE IF f # None /\ f.n = c.n THEN f ELSE c, m, x)
  BY DEF ScreenRace!Snapshot, RacePage

\* What a render of d makes of the page's fields but those of the timer.
RenderEffect(i, g, t, b, c, f, d, i2, g2, t2, b2, c2, f2) ==
    /\ d = None \/ d.gear \in {None, g} => i2 = i /\ g2 = g
    /\ d # None /\ d.gear \notin {None, g}
          => i2 = ScreenRace!ScreenOf(d.gear) /\ g2 = d.gear
    /\ LapEffect(t, b, c, d, t2, b2, c2)
    /\ f2 = IF c2 = None THEN None ELSE IF f # None /\ f.n = c2.n THEN f ELSE c2

\* A render as a whole.
LEMMA RaceRendered ==
    ASSUME NEW i, NEW g, NEW t \in BOOLEAN, NEW b, NEW c, NEW f, NEW m, NEW x, NEW d
    PROVE  \E i2, g2, b2, c2, f2, m2, x2 : \E t2 \in BOOLEAN :
              /\ ScreenRace!Rendered(RacePage(i, g, t, b, c, f, m, x), d)
                    = RacePage(i2, g2, t2, b2, c2, f2, m2, x2)
              /\ RenderEffect(i, g, t, b, c, f, d, i2, g2, t2, b2, c2, f2)
  <1> DEFINE p == RacePage(i, g, t, b, c, f, m, x)
  <1>1. PICK i2, g2 :
              /\ ScreenRace!Routed(p, d) = RacePage(i2, g2, t, b, c, f, m, x)
              /\ d = None \/ d.gear \in {None, g} => i2 = i /\ g2 = g
              /\ d # None /\ d.gear \notin {None, g}
                    => i2 = ScreenRace!ScreenOf(d.gear) /\ g2 = d.gear
    BY RaceRouted
  <1>2. PICK b2, c2 : \E t2 \in BOOLEAN :
              /\ ScreenRace!Paced(RacePage(i2, g2, t, b, c, f, m, x), d)
                    = RacePage(i2, g2, t2, b2, c2, f, m, x)
              /\ LapEffect(t, b, c, d, t2, b2, c2)
    BY RacePaced
  <1>3. PICK t2 \in BOOLEAN :
              /\ ScreenRace!Paced(RacePage(i2, g2, t, b, c, f, m, x), d)
                    = RacePage(i2, g2, t2, b2, c2, f, m, x)
              /\ LapEffect(t, b, c, d, t2, b2, c2)
    BY <1>2, Zenon
  <1>4. PICK m2, x2 : ScreenRace!Timed(RacePage(i2, g2, t2, b2, c2, f, m, x), p, d)
                         = RacePage(i2, g2, t2, b2, c2, f, m2, x2)
    BY RaceTimed
  <1> DEFINE f2 == IF c2 = None THEN None ELSE IF f # None /\ f.n = c2.n THEN f ELSE c2
  <1>5. ScreenRace!Snapshot(RacePage(i2, g2, t2, b2, c2, f, m2, x2))
          = RacePage(i2, g2, t2, b2, c2, f2, m2, x2)
    BY RaceSnapshot
  <1>6. ScreenRace!Rendered(p, d) = RacePage(i2, g2, t2, b2, c2, f2, m2, x2)
    BY <1>1, <1>3, <1>4, <1>5, Zenon DEF ScreenRace!Rendered
  <1> QED
    BY <1>1, <1>3, <1>6 DEF RenderEffect

(* ----- The steps of scene "race" ----- *)

\* What no step of the page may do.
RaceStep == ScreenRace!NoYank /\ ScreenRace!NoRepeat /\ ScreenRace!ReleaseReturns

\* The page without demo mode shows the live data.
LEMMA RaceData ==
    ASSUME isDemo = FALSE
    PROVE  ScreenRace!Data = live
  BY Zenon DEF ScreenRace!Data

\* A step that leaves the page alone does nothing a page may not do.
LEMMA RacePageRests ==
    ASSUME screenPage' = screenPage, UNCHANGED <<live, demo, isDemo>>
    PROVE  RaceStep
  <1>1. ScreenRace!NoYank
    BY DEF ScreenRace!NoYank
  <1>2. ScreenRace!NoRepeat
    BY DEF ScreenRace!NoRepeat
  <1>3. ScreenRace!ReleaseReturns
    <2>1. ScreenRace!Overridden(ScreenRace!Data)' <=> ScreenRace!Overridden(ScreenRace!Data)
      BY Zenon DEF ScreenRace!Overridden, ScreenRace!Data
    <2> QED
      BY <2>1, Zenon DEF ScreenRace!ReleaseReturns
  <1> QED
    BY <1>1, <1>2, <1>3 DEF RaceStep

\* dashd changes something else than its laps.
LEMMA RaceCarRests ==
    ASSUME RaceInv, ScreenRace!OnCar, RaceCarTypes',
           screenCar'.count = screenCar.count, screenCar'.laps = screenCar.laps,
           screenCar'.last = screenCar.last
    PROVE  RaceInv' /\ RaceStep
  <1>1. UNCHANGED <<screenLinked, live, demo, isDemo, screenPage, seen, screenShown, adopted, under, screenUp>>
    BY DEF ScreenRace!OnCar, ScreenRace!viewed
  <1>2. RacePageTypes' /\ RaceRouting'
    BY <1>1 DEF RaceInv, RacePageTypes, RaceRouting, ScreenRace!Overridden
  <1>3. RaceCarLap' /\ RacePageLap' /\ RaceShown'
    BY <1>1 DEF RaceInv, RaceCarLap, RacePageLap, RaceShown
  <1>4. RaceBaseline' /\ RaceCard'
    BY <1>1 DEF RaceInv, RaceBaseline, RaceCard
  <1>5. RaceStep
    BY <1>1, RacePageRests
  <1> QED
    BY <1>2, <1>3, <1>4, <1>5 DEF RaceInv

LEMMA RaceCanFrame ==
    ASSUME RaceInv, NEW g \in ScreenRace!Gears \cup {None}, ScreenRace!CanFrame(g)
    PROVE  RaceInv' /\ RaceStep
  <1>0. RaceCarTypes
    BY DEF RaceInv
  <1> DEFINE o == IF screenCar.prev # None /\ g # None /\ screenCar.prev # g THEN None ELSE screenCar.over
  <1>1. screenCar' = [screenCar EXCEPT !.gear = g, !.prev = g, !.fresh = TRUE, !.over = o]
    BY Zenon DEF ScreenRace!CanFrame
  <1>2. ScreenRace!OnCar
    BY DEF ScreenRace!CanFrame
  <1>3. g \in {"P", "D", None}
    BY DEF ScreenRace!Gears
  <1>4. o \in RaceOverrides \cup {None}
    BY <1>0 DEF RaceCarTypes
  <1>5. \A v \in BOOLEAN, w \in RaceOverrides \cup {None} :
           LET q == [screenCar EXCEPT !.gear = g, !.prev = g, !.fresh = v, !.over = w]
           IN  /\ q \in [gear : {"P", "D", None}, prev : {"P", "D", None}, fresh : BOOLEAN,
                         count : 0..RaceLaps, laps : 0..RaceLaps,
                         last : RaceLapRecord \cup {None}, over : RaceOverrides \cup {None},
                         ms : RaceDurations \cup {None}, tele : BOOLEAN]
               /\ q.count = screenCar.count /\ q.laps = screenCar.laps /\ q.last = screenCar.last
    BY <1>0, <1>3 DEF RaceCarTypes
  <1> HIDE DEF o
  <1>6. RaceCarTypes' /\ screenCar'.count = screenCar.count /\ screenCar'.laps = screenCar.laps
          /\ screenCar'.last = screenCar.last
    BY <1>1, <1>4, <1>5, Zenon DEF RaceCarTypes
  <1> QED
    BY <1>2, <1>6, RaceCarRests

LEMMA RaceCanStale ==
    ASSUME RaceInv, ScreenRace!CanStale
    PROVE  RaceInv' /\ RaceStep
  <1>0. RaceCarTypes
    BY DEF RaceInv
  <1>1. screenCar' = [screenCar EXCEPT !.fresh = ~screenCar.fresh] /\ ScreenRace!OnCar
    BY Zenon DEF ScreenRace!CanStale
  <1>2. (~screenCar.fresh) \in BOOLEAN
    BY Zenon
  <1>3. \A v \in BOOLEAN :
           LET q == [screenCar EXCEPT !.fresh = v]
           IN  /\ q \in [gear : {"P", "D", None}, prev : {"P", "D", None}, fresh : BOOLEAN,
                         count : 0..RaceLaps, laps : 0..RaceLaps,
                         last : RaceLapRecord \cup {None}, over : RaceOverrides \cup {None},
                         ms : RaceDurations \cup {None}, tele : BOOLEAN]
               /\ q.count = screenCar.count /\ q.laps = screenCar.laps /\ q.last = screenCar.last
    BY <1>0 DEF RaceCarTypes
  <1>4. RaceCarTypes' /\ screenCar'.count = screenCar.count /\ screenCar'.laps = screenCar.laps
          /\ screenCar'.last = screenCar.last
    BY <1>1, <1>2, <1>3, Zenon DEF RaceCarTypes
  <1> QED
    BY <1>1, <1>4, RaceCarRests

LEMMA RaceScreenOverride ==
    ASSUME RaceInv, NEW name \in RaceOverrides \cup {None}, ScreenRace!ScreenOverride(name)
    PROVE  RaceInv' /\ RaceStep
  <1>1. screenCar' = [screenCar EXCEPT !.over = name] /\ ScreenRace!OnCar
    BY DEF ScreenRace!ScreenOverride
  <1>2. RaceCarTypes' /\ screenCar'.count = screenCar.count /\ screenCar'.laps = screenCar.laps
          /\ screenCar'.last = screenCar.last
    BY <1>1 DEF RaceInv, RaceCarTypes
  <1> QED
    BY <1>1, <1>2, RaceCarRests

LEMMA RaceSetLapCardMs ==
    ASSUME RaceInv, NEW ms \in RaceDurations, ScreenRace!SetLapCardMs(ms)
    PROVE  RaceInv' /\ RaceStep
  <1>1. screenCar' = [screenCar EXCEPT !.ms = ms] /\ ScreenRace!OnCar
    BY DEF ScreenRace!SetLapCardMs
  <1>2. RaceCarTypes' /\ screenCar'.count = screenCar.count /\ screenCar'.laps = screenCar.laps
          /\ screenCar'.last = screenCar.last
    BY <1>1 DEF RaceInv, RaceCarTypes
  <1> QED
    BY <1>1, <1>2, RaceCarRests

\* A lap ends: its number and its identity are new to the page.
LEMMA RaceCompleteLap ==
    ASSUME RaceInv, ScreenRace!CompleteLap
    PROVE  RaceInv' /\ RaceStep
  <1> DEFINE lap == [n |-> screenCar.count + 1, id |-> screenCar.laps + 1]
  <1>0. RaceCarTypes /\ RaceCarLap
    BY DEF RaceInv
  <1>a. ScreenRace!OnCar /\ (screenLinked => live # None /\ live.last = screenCar.last) /\ screenCar.laps < RaceLaps
    BY DEF ScreenRace!CompleteLap, ScreenRace!Prompt
  <1>b. screenCar' = [screenCar EXCEPT !.count = screenCar.count + 1, !.laps = screenCar.laps + 1, !.last = lap]
    BY DEF ScreenRace!CompleteLap
  <1>c. UNCHANGED <<screenLinked, live, demo, isDemo, screenPage, seen, screenShown, adopted, under, screenUp>>
    BY <1>a DEF ScreenRace!OnCar, ScreenRace!viewed
  <1>d. RaceLaps \in Nat
    BY ScreenBounds DEF ScreenRace!ScreenAssumption
  <1>e. screenCar.count \in 0..RaceLaps /\ screenCar.laps \in 0..RaceLaps /\ screenCar.count <= screenCar.laps
    BY <1>0 DEF RaceCarTypes, RaceCarLap
  <1>f. lap \in RaceLapRecord /\ lap # None
    BY <1>a, <1>d, <1>e, DashNone, RaceNone DEF RaceLapRecord
  <1>g. /\ RaceCarTypes' /\ screenCar'.count = screenCar.count + 1
        /\ screenCar'.laps = screenCar.laps + 1 /\ screenCar'.last = lap
    <2>1. screenCar.count + 1 \in 0..RaceLaps /\ screenCar.laps + 1 \in 0..RaceLaps
      BY <1>a, <1>d, <1>e
    <2> HIDE DEF lap
    <2> QED
      BY <1>0, <1>b, <1>f, <2>1 DEF RaceCarTypes
  <1>1. RacePageTypes' /\ RaceRouting'
    BY <1>c DEF RaceInv, RacePageTypes, RaceRouting, ScreenRace!Overridden
  <1>2. RaceCarLap'
    BY <1>e, <1>g DEF RaceCarLap
  <1>3. RacePageLap'
    <2> SUFFICES ASSUME live # None, live.last # None
                 PROVE  live.last.n \in 0..RaceLaps /\ live.last.n < screenCar.count + 1
      <3>1. lap.n = screenCar.count + 1
        OBVIOUS
      <3> HIDE DEF lap
      <3> QED
        BY <1>c, <1>e, <1>f, <1>g, <3>1 DEF RacePageLap
    <2>1. live.last.n \in 0..RaceLaps
      BY DEF RaceInv, RacePageTypes, RaceMessage, RaceLapRecord
    <2>2. CASE screenCar.last = None
      <3>1. screenLinked = TRUE
        BY <2>2 DEF RaceInv, RacePageLap
      <3> QED
        BY <1>a, <2>1, <2>2, <3>1
    <2>3. CASE screenCar.last # None
      <3>1. screenCar.last.n = screenCar.count /\ live.last.n <= screenCar.last.n
        BY <1>0, <2>3 DEF RaceInv, RacePageLap, RaceCarLap
      <3> QED
        BY <1>e, <2>1, <3>1
    <2> QED
      BY <2>2, <2>3
  <1>4. RaceBaseline' /\ RaceCard'
    BY <1>c DEF RaceInv, RaceBaseline, RaceCard
  <1>5. RaceShown'
    <2>1. \A id \in screenShown \cup adopted : id \in 0..RaceLaps /\ id <= screenCar.laps
      BY DEF RaceInv, RacePageTypes, RaceShown
    <2>2. \A id \in screenShown \cup adopted : id < screenCar.laps + 1
      BY <1>e, <2>1
    <2>3. \A id \in screenShown \cup adopted : id <= screenCar.laps + 1 /\ id # screenCar.laps + 1
      BY <1>e, <2>1, <2>2
    <2> QED
      BY <1>c, <1>g, <2>3 DEF RaceInv, RaceShown
  <1>6. RaceStep
    BY <1>c, RacePageRests
  <1> QED
    BY <1>g, <1>1, <1>2, <1>3, <1>4, <1>5, <1>6 DEF RaceInv

LEMMA RaceLapReset ==
    ASSUME RaceInv, ScreenRace!LapReset
    PROVE  RaceInv' /\ RaceStep
  <1>0. RaceCarTypes /\ RaceCarLap
    BY DEF RaceInv
  <1>a. ScreenRace!OnCar /\ screenLinked /\ screenPage.card = None
    BY DEF ScreenRace!LapReset
  <1>b. screenCar' = [screenCar EXCEPT !.count = 0, !.last = None]
    BY DEF ScreenRace!LapReset
  <1>c. UNCHANGED <<screenLinked, live, demo, isDemo, screenPage, seen, screenShown, adopted, under, screenUp>>
    BY <1>a DEF ScreenRace!OnCar, ScreenRace!viewed
  <1>d. RaceLaps \in Nat
    BY ScreenBounds DEF ScreenRace!ScreenAssumption
  <1>e. /\ RaceCarTypes' /\ screenCar'.count = 0
        /\ screenCar'.laps = screenCar.laps /\ screenCar'.last = None
    <2>1. 0 \in 0..RaceLaps
      BY <1>d
    <2>2. None \in RaceLapRecord \cup {None}
      OBVIOUS
    <2> DEFINE q == [screenCar EXCEPT !.count = 0]
    <2>3. q \in [gear : {"P", "D", None}, prev : {"P", "D", None}, fresh : BOOLEAN,
                  count : 0..RaceLaps, laps : 0..RaceLaps,
                  last : RaceLapRecord \cup {None}, over : RaceOverrides \cup {None},
                  ms : RaceDurations \cup {None}, tele : BOOLEAN]
          /\ q.count = 0 /\ q.laps = screenCar.laps
      BY <1>0, <2>1 DEF RaceCarTypes
    <2>4. screenCar' = [q EXCEPT !.last = None]
      BY <1>b
    <2> HIDE DEF q
    <2> QED
      BY <2>2, <2>3, <2>4 DEF RaceCarTypes
  <1>1. RacePageTypes' /\ RaceRouting'
    BY <1>c DEF RaceInv, RacePageTypes, RaceRouting, ScreenRace!Overridden
  <1>2. RaceCarLap'
    BY <1>0, <1>e, <1>d DEF RaceCarLap, RaceCarTypes
  <1>3. RacePageLap'
    <2>1. screenLinked \in BOOLEAN
      BY DEF RaceInv, RacePageTypes
    <2> QED
      BY <1>a, <1>c, <1>e, <2>1 DEF RacePageLap
  <1>4. RaceBaseline' /\ RaceCard'
    BY <1>c DEF RaceInv, RaceBaseline, RaceCard
  <1>5. RaceShown'
    BY <1>c, <1>e DEF RaceInv, RaceShown
  <1>6. RaceStep
    BY <1>c, RacePageRests
  <1> QED
    BY <1>e, <1>1, <1>2, <1>3, <1>4, <1>5, <1>6 DEF RaceInv

LEMMA RaceConnect ==
    ASSUME RaceInv, ScreenRace!Connect
    PROVE  RaceInv' /\ RaceStep
  <1>1. screenLinked' = TRUE
    BY Zenon DEF ScreenRace!Connect
  <1>2. UNCHANGED <<screenCar, live, demo, isDemo, screenPage, seen, screenShown, adopted, under>>
    BY DEF ScreenRace!Connect, ScreenRace!history
  <1>3. RaceCarTypes' /\ RaceCarLap'
    BY <1>2 DEF RaceInv, RaceCarTypes, RaceCarLap
  <1>4. RacePageTypes' /\ RaceRouting'
    BY <1>1, <1>2 DEF RaceInv, RacePageTypes, RaceRouting, ScreenRace!Overridden
  <1>5. RacePageLap'
    BY <1>1, <1>2 DEF RaceInv, RacePageLap
  <1>6. RaceBaseline' /\ RaceCard' /\ RaceShown'
    BY <1>2 DEF RaceInv, RaceBaseline, RaceCard, RaceShown
  <1>7. RaceStep
    BY <1>2, RacePageRests
  <1> QED
    BY <1>3, <1>4, <1>5, <1>6, <1>7 DEF RaceInv

\* The link breaks after the page has heard of the car's last lap, or of its reset.
LEMMA RaceDisconnect ==
    ASSUME RaceInv, ScreenRace!Disconnect
    PROVE  RaceInv' /\ RaceStep
  <1>1. screenLinked' = FALSE /\ live # None /\ live.last = screenCar.last
    BY DEF ScreenRace!Disconnect, ScreenRace!Prompt
  <1>2. UNCHANGED <<screenCar, live, demo, isDemo, screenPage, seen, screenShown, adopted, under>>
    BY DEF ScreenRace!Disconnect, ScreenRace!history
  <1>3. RaceCarTypes' /\ RaceCarLap'
    BY <1>2 DEF RaceInv, RaceCarTypes, RaceCarLap
  <1>4. RacePageTypes' /\ RaceRouting'
    BY <1>1, <1>2 DEF RaceInv, RacePageTypes, RaceRouting, ScreenRace!Overridden
  <1>5. RacePageLap'
    BY <1>1, <1>2 DEF RaceInv, RacePageLap
  <1>6. RaceBaseline' /\ RaceCard' /\ RaceShown'
    BY <1>2 DEF RaceInv, RaceBaseline, RaceCard, RaceShown
  <1>7. RaceStep
    BY <1>2, RacePageRests
  <1> QED
    BY <1>3, <1>4, <1>5, <1>6, <1>7 DEF RaceInv

\* Enter moves the page's own screen, and only when no override covers it.
LEMMA RaceKeyEnter ==
    ASSUME RaceInv, ScreenRace!KeyEnter
    PROVE  RaceInv' /\ RaceStep
  <1>0. PICK i, g, b, c, f, m, x : \E t \in BOOLEAN : screenPage = RacePage(i, g, t, b, c, f, m, x)
    BY DEF RaceInv, RacePageTypes
  <1>a. PICK t \in BOOLEAN : screenPage = RacePage(i, g, t, b, c, f, m, x)
    BY <1>0
  <1>b. PICK i2 : screenPage' = RacePage(i2, g, t, b, c, f, m, x)
    <2>1. \A v : [screenPage EXCEPT !.index = v] = RacePage(v, g, t, b, c, f, m, x)
      BY <1>a DEF RacePage
    <2>2. \E v : screenPage' = [screenPage EXCEPT !.index = v]
      BY DEF ScreenRace!KeyEnter
    <2> QED
      BY <2>1, <2>2
  <1>c. UNCHANGED <<screenCar, screenLinked, live, demo, isDemo, seen, screenShown, adopted, under>>
    BY DEF ScreenRace!KeyEnter, ScreenRace!history
  <1>d. ScreenRace!Data = live
    BY RaceData DEF RaceInv, RacePageTypes
  <1>e. ~ScreenRace!Overridden(live)
    BY <1>d DEF ScreenRace!KeyEnter
  <1>f. /\ screenPage'.lastGear = screenPage.lastGear /\ screenPage'.inited = screenPage.inited
        /\ screenPage'.baseline = screenPage.baseline /\ screenPage'.card = screenPage.card
        /\ screenPage'.frozen = screenPage.frozen
    BY <1>a, <1>b DEF RacePage
  <1>1. RaceCarTypes' /\ RaceCarLap'
    BY <1>c DEF RaceInv, RaceCarTypes, RaceCarLap
  <1>2. RacePageTypes'
    BY <1>b, <1>c DEF RaceInv, RacePageTypes
  <1>3. RaceRouting'
    <2>1. ~ScreenRace!Overridden(live)'
      BY <1>c, <1>e DEF ScreenRace!Overridden
    <2> QED
      BY <1>c, <1>f, <2>1 DEF RaceInv, RaceRouting
  <1>4. RacePageLap' /\ RaceBaseline' /\ RaceCard' /\ RaceShown'
    BY <1>c, <1>f DEF RaceInv, RacePageLap, RaceBaseline, RaceCard, RaceShown
  <1>5. ScreenRace!NoYank /\ ScreenRace!NoRepeat
    BY <1>f DEF ScreenRace!NoYank, ScreenRace!NoRepeat
  <1>6. ScreenRace!ReleaseReturns
    BY <1>d, <1>e DEF ScreenRace!ReleaseReturns
  <1> QED
    BY <1>1, <1>2, <1>3, <1>4, <1>5, <1>6 DEF RaceInv, RaceStep

\* A card's time passes, or is over.
LEMMA RaceTick ==
    ASSUME RaceInv, ScreenRace!Tick
    PROVE  RaceInv' /\ RaceStep
  <1>0. PICK i, g, b, c, f, m, x : \E t \in BOOLEAN : screenPage = RacePage(i, g, t, b, c, f, m, x)
    BY DEF RaceInv, RacePageTypes
  <1>a. PICK t \in BOOLEAN : screenPage = RacePage(i, g, t, b, c, f, m, x)
    BY <1>0
  <1>b. PICK c2, f2, x2 : /\ screenPage' = RacePage(i, g, t, b, c2, f2, m, x2)
                          /\ (c2 = c /\ f2 = f) \/ (c2 = None /\ f2 = None)
    <2>1. \A v : [screenPage EXCEPT !.left = v] = RacePage(i, g, t, b, c, f, m, v)
      BY <1>a DEF RacePage
    <2>2. [screenPage EXCEPT !.card = None, !.frozen = None, !.left = 0] = RacePage(i, g, t, b, None, None, m, 0)
      <3>1. [screenPage EXCEPT !.card = None] = RacePage(i, g, t, b, None, f, m, x)
        BY <1>a DEF RacePage
      <3>2. [RacePage(i, g, t, b, None, f, m, x) EXCEPT !.frozen = None] = RacePage(i, g, t, b, None, None, m, x)
        BY DEF RacePage
      <3>3. [RacePage(i, g, t, b, None, None, m, x) EXCEPT !.left = 0] = RacePage(i, g, t, b, None, None, m, 0)
        BY DEF RacePage
      <3>4. [screenPage EXCEPT !.card = None, !.frozen = None, !.left = 0]
              = [[[screenPage EXCEPT !.card = None] EXCEPT !.frozen = None] EXCEPT !.left = 0]
        OBVIOUS
      <3> QED
        BY <3>1, <3>2, <3>3, <3>4
    <2>3. screenPage' = [screenPage EXCEPT !.left = screenPage.left - 1]
            \/ screenPage' = [screenPage EXCEPT !.card = None, !.frozen = None, !.left = 0]
      BY DEF ScreenRace!Tick
    <2> QED
      BY <2>1, <2>2, <2>3
  <1>c. UNCHANGED <<screenCar, screenLinked, live, demo, isDemo, seen, screenShown, adopted, under>>
    BY DEF ScreenRace!Tick
  <1>d. /\ screenPage'.lastGear = screenPage.lastGear /\ screenPage'.inited = screenPage.inited
        /\ screenPage'.baseline = screenPage.baseline /\ screenPage'.index = screenPage.index
        /\ \/ screenPage'.card = screenPage.card /\ screenPage'.frozen = screenPage.frozen
           \/ screenPage'.card = None /\ screenPage'.frozen = None
    BY <1>a, <1>b DEF RacePage
  <1>1. RaceCarTypes' /\ RaceCarLap'
    BY <1>c DEF RaceInv, RaceCarTypes, RaceCarLap
  <1>2. RacePageTypes'
    BY <1>b, <1>c DEF RaceInv, RacePageTypes
  <1>3. RaceRouting'
    BY <1>c, <1>d DEF RaceInv, RaceRouting, ScreenRace!Overridden
  <1>4. RacePageLap' /\ RaceBaseline' /\ RaceCard' /\ RaceShown'
    BY <1>c, <1>d DEF RaceInv, RacePageLap, RaceBaseline, RaceCard, RaceShown
  <1>5. ScreenRace!NoYank /\ ScreenRace!NoRepeat
    BY <1>d DEF ScreenRace!NoYank, ScreenRace!NoRepeat
  <1>6. ScreenRace!ReleaseReturns
    <2>1. ScreenRace!Overridden(ScreenRace!Data)' <=> ScreenRace!Overridden(ScreenRace!Data)
      BY <1>c, Zenon DEF ScreenRace!Overridden, ScreenRace!Data
    <2> QED
      BY <2>1, Zenon DEF ScreenRace!ReleaseReturns
  <1> QED
    BY <1>1, <1>2, <1>3, <1>4, <1>5, <1>6 DEF RaceInv, RaceStep

\* The page starts over; what had its card is not forgotten.
LEMMA RaceReload ==
    ASSUME RaceInv, ScreenRace!Reload
    PROVE  RaceInv' /\ RaceStep
  <1>a. /\ live' = None /\ isDemo' = FALSE /\ screenLinked' = FALSE
        /\ seen' = None /\ under' = 0 /\ UNCHANGED <<screenCar, screenShown, adopted>>
    BY Zenon DEF ScreenRace!Reload
  <1>b. screenPage' = RacePage(0, None, FALSE, None, None, None, ScreenRace!DefaultMs, 0)
    BY Zenon DEF ScreenRace!Reload, ScreenRace!NewPage, RacePage
  <1>c. /\ screenPage'.index = 0 /\ screenPage'.lastGear = None /\ screenPage'.inited = FALSE
        /\ screenPage'.card = None /\ screenPage'.frozen = None
    BY <1>b DEF RacePage
  <1>d. ~ScreenRace!Overridden(live)'
    BY <1>a DEF ScreenRace!Overridden
  <1>1. RaceCarTypes' /\ RaceCarLap'
    BY <1>a DEF RaceInv, RaceCarTypes, RaceCarLap
  <1>2. RacePageTypes'
    <2>1. \E i, g, b, c, f, m, x : \E t \in BOOLEAN : screenPage' = RacePage(i, g, t, b, c, f, m, x)
      BY <1>b
    <2> QED
      BY <1>a, <2>1 DEF RaceInv, RacePageTypes
  <1>3. RaceRouting' /\ RacePageLap'
    BY <1>a, <1>c, <1>d DEF RaceRouting, RacePageLap
  <1>4. RaceBaseline' /\ RaceCard'
    BY <1>c DEF RaceBaseline, RaceCard
  <1>5. RaceShown'
    BY <1>a, <1>c DEF RaceInv, RaceShown
  <1>6. ScreenRace!NoYank /\ ScreenRace!NoRepeat
    BY <1>c DEF ScreenRace!NoYank, ScreenRace!NoRepeat
  <1>7. ScreenRace!ReleaseReturns
    <2>1. ScreenRace!Data' = None
      BY <1>a, Zenon DEF ScreenRace!Data
    <2>2. ~ScreenRace!Overridden(ScreenRace!Data)'
      BY <2>1 DEF ScreenRace!Overridden
    <2>3. ScreenRace!Screen' = under'
      BY <1>a, <1>c, <2>2, Zenon DEF ScreenRace!Screen
    <2> QED
      BY <2>3 DEF ScreenRace!ReleaseReturns
  <1> QED
    BY <1>1, <1>2, <1>3, <1>4, <1>5, <1>6, <1>7 DEF RaceInv, RaceStep

\* A message arrives and the page renders it.
LEMMA RaceFrame ==
    ASSUME RaceInv, ScreenRace!Frame
    PROVE  RaceInv' /\ RaceStep
  <1> DEFINE d == ScreenRace!Message
  <1>0. PICK i, g, b, c, f, m, x : \E t \in BOOLEAN : screenPage = RacePage(i, g, t, b, c, f, m, x)
    BY DEF RaceInv, RacePageTypes
  <1>a. PICK t \in BOOLEAN : screenPage = RacePage(i, g, t, b, c, f, m, x)
    BY <1>0
  <1>b. /\ screenPage.index = i /\ screenPage.lastGear = g /\ screenPage.inited = t
        /\ screenPage.baseline = b /\ screenPage.card = c /\ screenPage.frozen = f
    BY <1>a DEF RacePage
  <1>c. d.last = screenCar.last
    BY DEF ScreenRace!Message
  <1>d. d \in RaceMessage
    <2>1. (IF screenCar.fresh THEN screenCar.gear ELSE None) \in {"P", "D", None}
      BY DEF RaceInv, RaceCarTypes
    <2>2. /\ screenCar.last \in RaceLapRecord \cup {None}
          /\ screenCar.over \in RaceOverrides \cup {None}
          /\ screenCar.ms \in RaceDurations \cup {None} /\ screenCar.tele \in BOOLEAN
      BY DEF RaceInv, RaceCarTypes
    <2> QED
      BY <2>1, <2>2 DEF ScreenRace!Message, RaceMessage
  <1>e. d # None
    BY <1>d, DashNone, RaceNone
  <1>f. live' = d /\ isDemo' = FALSE /\ UNCHANGED <<screenCar, screenLinked>>
    BY Zenon DEF ScreenRace!Frame, RaceInv, RacePageTypes
  <1>g. ScreenRace!Show(d)
    BY Zenon DEF ScreenRace!Frame, RaceInv, RacePageTypes
  <1>h. PICK i2, g2, b2, c2, f2, m2, x2 : \E t2 \in BOOLEAN :
              /\ ScreenRace!Rendered(RacePage(i, g, t, b, c, f, m, x), d) = RacePage(i2, g2, t2, b2, c2, f2, m2, x2)
              /\ RenderEffect(i, g, t, b, c, f, d, i2, g2, t2, b2, c2, f2)
    <2> HIDE DEF d
    <2> QED
      BY RaceRendered
  <1> HIDE DEF d
  <1>i. /\ screenPage' = RacePage(i2, g2, TRUE, b2, c2, f2, m2, x2)
        /\ d.gear \in {None, g} => i2 = i /\ g2 = g
        /\ d.gear \notin {None, g} => i2 = ScreenRace!ScreenOf(d.gear) /\ g2 = d.gear
        /\ LapEffect(t, b, c, d, TRUE, b2, c2)
        /\ f2 = IF c2 = None THEN None ELSE IF f # None /\ f.n = c2.n THEN f ELSE c2
    BY <1>a, <1>e, <1>g, <1>h DEF ScreenRace!Show, LapEffect, RenderEffect
  <1>j. /\ screenPage'.index = i2 /\ screenPage'.lastGear = g2 /\ screenPage'.inited = TRUE
        /\ screenPage'.baseline = b2 /\ screenPage'.card = c2 /\ screenPage'.frozen = f2
    BY <1>i DEF RacePage
  <1>k. /\ seen' = IF d.gear = None THEN seen ELSE d.gear
        /\ screenShown' = IF c2 # None /\ c2 # c THEN screenShown \cup {c2.id} ELSE screenShown
        /\ adopted' = IF t = FALSE /\ d.last # None THEN adopted \cup {d.last.id} ELSE adopted
    BY <1>b, <1>e, <1>g, <1>j DEF ScreenRace!Show
  <1>l. under' = IF seen' # seen THEN ScreenRace!ScreenOf(seen')
                 ELSE IF ScreenRace!Overridden(live) THEN under ELSE i
    <2>1. ScreenRace!Data = live
      BY RaceData DEF RaceInv, RacePageTypes
    <2>2. under' = IF seen' # seen THEN ScreenRace!ScreenOf(seen')
                   ELSE IF ScreenRace!Overridden(live) THEN under ELSE ScreenRace!Screen
      BY <1>g, <2>1 DEF ScreenRace!Show
    <2>3. ~ScreenRace!Overridden(live) => ScreenRace!Screen = i
      BY <1>b, <2>1 DEF ScreenRace!Screen
    <2> QED
      BY <2>2, <2>3
  <1>m. g = seen /\ (ScreenRace!Overridden(live) => under = i)
    BY <1>b DEF RaceInv, RaceRouting
  \* The new lap is the one on the page, or has a higher number.
  <1>n. /\ t = TRUE /\ live.last = None => b = None /\ c = None
        /\ t = TRUE => live # None
        /\ t = FALSE => c = None
        /\ f = c
        /\ c # None => c = live.last
        /\ t = TRUE /\ live.last # None => b = live.last.n /\ live.last.n \in Nat
        /\ t = TRUE /\ live.last # None /\ d.last # None => live.last.n <= d.last.n
        /\ t = TRUE /\ live.last # None /\ d.last # None /\ live.last.n = d.last.n => live.last = d.last
        /\ t = TRUE /\ live.last # None /\ d.last = None => c = None
        /\ t = TRUE /\ live.last # None => live.last.id \in screenShown \cup adopted
        /\ d.last # None => d.last.n \in Nat /\ d.last.id = screenCar.laps
    <2>1. t = TRUE => live # None
      BY <1>b DEF RaceInv, RaceBaseline
    <2>2. t = TRUE /\ live.last # None => live.last.n \in Nat
      BY <2>1 DEF RaceInv, RacePageTypes, RaceMessage, RaceLapRecord
    <2>3. d.last # None => d.last.n \in Nat
      BY <1>d DEF RaceMessage, RaceLapRecord
    <2>4. d.last # None => d.last.id = screenCar.laps
      BY <1>c DEF RaceInv, RaceCarLap
    <2>5. /\ t = TRUE /\ live.last = None => b = None /\ c = None
          /\ t = FALSE => c = None
          /\ f = c
          /\ c # None => c = live.last
          /\ t = TRUE /\ live.last # None => b = live.last.n
      BY <1>b DEF RaceInv, RaceBaseline, RaceCard
    <2>6. /\ t = TRUE /\ live.last # None /\ d.last # None => live.last.n <= d.last.n
          /\ t = TRUE /\ live.last # None /\ d.last # None /\ live.last.n = d.last.n => live.last = d.last
          /\ t = TRUE /\ live.last # None /\ d.last = None => c = None
      BY <1>b, <1>c, <2>1 DEF RaceInv, RacePageLap
    <2>7. t = TRUE /\ live.last # None => live.last.id \in screenShown \cup adopted
      BY <1>b DEF RaceInv, RaceShown
    <2> QED
      BY <2>1, <2>2, <2>3, <2>4, <2>5, <2>6, <2>7
  \* What the lap effect comes to.
  <1>o. /\ d.last = None => b2 = None /\ c2 = None
        /\ d.last # None => b2 = d.last.n
        /\ c2 # None => c2 = d.last
        /\ c2 # None /\ c2 # c => t = TRUE /\ live.last # d.last
        /\ t = TRUE /\ d.last # None /\ live.last # d.last => c2 = d.last /\ c2 # c
    <2>1. CASE t = FALSE
      BY <1>e, <1>i, <1>n, <2>1 DEF LapEffect
    <2>2. CASE t = TRUE /\ d.last = None
      BY <1>e, <1>i, <1>n, <2>2 DEF LapEffect
    <2>3. CASE t = TRUE /\ d.last # None /\ live.last = None
      BY <1>e, <1>i, <1>n, <2>3 DEF LapEffect
    <2>4. CASE t = TRUE /\ d.last # None /\ live.last # None
      <3>1. b # None
        BY <1>n, <2>4, DashNone, RaceNone
      <3>2. CASE live.last = d.last
        BY <1>e, <1>i, <1>n, <2>4, <3>1, <3>2 DEF LapEffect
      <3>3. CASE live.last # d.last
        <4>1. live.last.n < d.last.n
          BY <1>n, <2>4, <3>3
        <4>2. ~(d.last.n <= b)
          BY <1>n, <2>4, <4>1
        <4> QED
          BY <1>e, <1>i, <1>n, <2>4, <3>3, <4>2 DEF LapEffect
      <3> QED
        BY <3>2, <3>3
    <2> QED
      BY <2>1, <2>2, <2>3, <2>4
  <1>p. f2 = c2
    <2>1. CASE c2 = None \/ f = None
      BY <1>i, <2>1
    <2>2. CASE c2 # None /\ f # None
      <3>1. c2 = d.last /\ f = live.last /\ t = TRUE /\ d.last # None /\ live.last # None
        BY <1>n, <1>o, <2>2
      <3> QED
        BY <1>i, <1>n, <2>2, <3>1
    <2> QED
      BY <2>1, <2>2
  <1>q. d.last # None => d.last.id \in screenShown' \cup adopted'
    <2>1. CASE t = FALSE
      BY <1>k, <2>1
    <2>2. CASE t = TRUE /\ live.last = d.last
      BY <1>k, <1>n, <2>2
    <2>3. CASE t = TRUE /\ live.last # d.last
      BY <1>k, <1>o, <2>3
    <2> QED
      BY <2>1, <2>2, <2>3
  <1>r. \A id \in screenShown' \cup adopted' :
            id \in screenShown \cup adopted \/ (d.last # None /\ id = d.last.id)
    BY <1>k, <1>o
  <1>1. RaceCarTypes' /\ RaceCarLap'
    BY <1>f DEF RaceInv, RaceCarTypes, RaceCarLap
  <1>2. RacePageTypes'
    <2>1. \E i_, g_, b_, c_, f_, m_, x_ : \E t_ \in BOOLEAN :
             screenPage' = RacePage(i_, g_, t_, b_, c_, f_, m_, x_)
      BY <1>i
    <2>2. d.last # None => d.last.id \in 0..RaceLaps
      BY <1>d DEF RaceMessage, RaceLapRecord
    <2>3. \A id \in screenShown' \cup adopted' : id \in 0..RaceLaps
      BY <1>r, <2>2 DEF RaceInv, RacePageTypes
    <2>4. screenLinked' \in BOOLEAN
      BY <1>f DEF RaceInv, RacePageTypes
    <2>5. live' \in RaceMessage \cup {None}
      BY <1>d, <1>f
    <2> QED
      BY <1>f, <2>1, <2>3, <2>4, <2>5 DEF RacePageTypes
  <1>s. seen' # seen <=> d.gear \notin {None, g}
    BY <1>k, <1>m
  <1>3. RaceRouting'
    <2>1. g2 = seen'
      BY <1>i, <1>k, <1>m
    <2>2. under' = i2
      \/ (~ScreenRace!Overridden(live) /\ under' = i /\ i2 = i)
      BY <1>i, <1>k, <1>l, <1>m, <1>s
    <2> QED
      BY <1>j, <2>1, <2>2 DEF RaceRouting
  <1>4. RacePageLap'
    <2>1. d.last # None => d.last.n <= d.last.n
      BY <1>n
    <2> QED
      BY <1>c, <1>f, <2>1 DEF RacePageLap
  <1>5. RaceBaseline' /\ RaceCard'
    BY <1>e, <1>f, <1>j, <1>o, <1>p DEF RaceBaseline, RaceCard
  <1>6. RaceShown'
    <2>1. \A id \in screenShown' \cup adopted' : id <= screenCar.laps
      <3>1. screenCar.laps \in Int
        BY DEF RaceInv, RaceCarTypes
      <3> QED
        BY <1>n, <1>r, <3>1 DEF RaceInv, RaceShown
    <2> QED
      BY <1>c, <1>f, <1>q, <2>1 DEF RaceShown
  <1>7. ScreenRace!NoYank
    BY <1>b, <1>i, <1>j, <1>s DEF ScreenRace!NoYank
  <1>8. ScreenRace!NoRepeat
    <2> SUFFICES ASSUME c2 # None, c2 # c
                 PROVE  c2.id \notin screenShown \cup adopted
      BY <1>b, <1>j DEF ScreenRace!NoRepeat
    <2>1. t = TRUE /\ live.last # d.last /\ c2 = d.last /\ d.last # None
      BY <1>o
    <2>2. c2.id = screenCar.laps
      BY <1>n, <2>1
    <2> QED
      BY <1>b, <1>c, <2>1, <2>2 DEF RaceInv, RaceShown
  <1>9. ScreenRace!ReleaseReturns
    <2>1. under' = i2
      BY <1>i, <1>k, <1>l, <1>m, <1>s
    <2>2. ~ScreenRace!Overridden(ScreenRace!Data)' => ScreenRace!Screen' = screenPage'.index
      BY Zenon DEF ScreenRace!Screen
    <2> QED
      BY <1>j, <2>1, <2>2 DEF ScreenRace!ReleaseReturns
  <1> QED
    BY <1>1, <1>2, <1>3, <1>4, <1>5, <1>6, <1>7, <1>8, <1>9 DEF RaceInv, RaceStep

LEMMA RaceNext ==
    ASSUME RaceInv, ScreenRace!Next
    PROVE  RaceInv' /\ RaceStep
  <1>1. CASE \E g \in ScreenRace!Gears \cup {None} : ScreenRace!CanFrame(g)
    BY <1>1, RaceCanFrame
  <1>2. CASE ScreenRace!CanStale
    BY <1>2, RaceCanStale
  <1>3. CASE ScreenRace!CompleteLap
    BY <1>3, RaceCompleteLap
  <1>4. CASE ScreenRace!LapReset
    BY <1>4, RaceLapReset
  <1>5. CASE \E name \in RaceOverrides \cup {None} : ScreenRace!ScreenOverride(name)
    BY <1>5, RaceScreenOverride
  <1>6. CASE \E ms \in RaceDurations : ScreenRace!SetLapCardMs(ms)
    BY <1>6, RaceSetLapCardMs
  <1>7. CASE ScreenRace!Connect
    BY <1>7, RaceConnect
  <1>8. CASE ScreenRace!Disconnect
    BY <1>8, RaceDisconnect
  <1>9. CASE ScreenRace!Frame
    BY <1>9, RaceFrame
  <1>10. CASE ScreenRace!KeyEnter
    BY <1>10, RaceKeyEnter
  <1>11. CASE ScreenRace!Tick
    BY <1>11, RaceTick
  <1>12. CASE ScreenRace!Reload
    BY <1>12, RaceReload
  <1>13. ~ScreenRace!LapCount /\ ~ScreenRace!Telemetry /\ ~ScreenRace!KeyD
    BY DEF ScreenRace!LapCount, ScreenRace!Telemetry, ScreenRace!KeyD
  <1>14. \A g \in ScreenRace!Gears, lap \in BOOLEAN : ~ScreenRace!DemoTick(g, lap)
    BY Zenon DEF ScreenRace!DemoTick
  <1> QED
    BY <1>1, <1>2, <1>3, <1>4, <1>5, <1>6, <1>7, <1>8, <1>9, <1>10, <1>11, <1>12, <1>13, <1>14, Zenon
       DEF ScreenRace!Next

LEMMA RaceStarts ==
    ASSUME ScreenRace!Init
    PROVE  RaceInv
  <1>1. screenPage = RacePage(0, None, FALSE, None, None, None, ScreenRace!DefaultMs, 0)
    BY Zenon DEF ScreenRace!Init, ScreenRace!NewPage, RacePage
  <1>2. /\ screenPage.index = 0 /\ screenPage.lastGear = None /\ screenPage.inited = FALSE
        /\ screenPage.card = None /\ screenPage.frozen = None
    BY <1>1 DEF RacePage
  <1>3. /\ live = None /\ isDemo = FALSE /\ screenLinked = FALSE /\ seen = None
        /\ screenShown = {} /\ adopted = {}
    BY Zenon DEF ScreenRace!Init
  <1>4. screenCar = [gear |-> None, prev |-> None, fresh |-> TRUE, count |-> 0, laps |-> 0,
                     last |-> None, over |-> None, ms |-> None, tele |-> FALSE]
    BY Zenon DEF ScreenRace!Init
  <1>5. RaceCarTypes
    <2>1. 0 \in 0..RaceLaps
      BY ScreenBounds DEF ScreenRace!ScreenAssumption
    <2>2. TRUE \in BOOLEAN /\ FALSE \in BOOLEAN
      OBVIOUS
    <2> QED
      BY <1>4, <2>1, <2>2 DEF RaceCarTypes
  <1>6. screenCar.count = 0 /\ screenCar.laps = 0 /\ screenCar.last = None
    BY <1>4
  <1>7. RacePageTypes
    <2>1. \E i, g, b, c, f, m, x : \E t \in BOOLEAN : screenPage = RacePage(i, g, t, b, c, f, m, x)
      BY <1>1
    <2> QED
      BY <1>3, <2>1 DEF RacePageTypes
  <1>8. RaceRouting /\ RaceCarLap /\ RacePageLap
    BY <1>2, <1>3, <1>6 DEF RaceRouting, RaceCarLap, RacePageLap, ScreenRace!Overridden
  <1>9. RaceBaseline /\ RaceCard /\ RaceShown
    BY <1>2, <1>3 DEF RaceBaseline, RaceCard, RaceShown
  <1> QED
    BY <1>5, <1>7, <1>8, <1>9 DEF RaceInv

(* ----- The steps of scene "demo" ----- *)

\* The page renders the same way whatever may happen to it.
LEMMA DemoRendered ==
    ASSUME NEW p, NEW d
    PROVE  /\ ScreenDemo!Rendered(p, d) = ScreenRace!Rendered(p, d)
           /\ ScreenDemo!ScreenOf(d) = ScreenRace!ScreenOf(d)
  <1>1. ScreenDemo!Routed(p, d) = ScreenRace!Routed(p, d)
    BY Zenon DEF ScreenDemo!Routed, ScreenRace!Routed, ScreenDemo!ScreenOf, ScreenRace!ScreenOf
  <1>2. \A q : ScreenDemo!Paced(q, d) = ScreenRace!Paced(q, d)
    BY Zenon DEF ScreenDemo!Paced, ScreenRace!Paced
  <1>3. \A q : ScreenDemo!Timed(q, p, d) = ScreenRace!Timed(q, p, d)
    BY Zenon DEF ScreenDemo!Timed, ScreenRace!Timed, ScreenDemo!LapCardMs, ScreenRace!LapCardMs,
       ScreenDemo!DefaultMs, ScreenRace!DefaultMs, ScreenDemo!MinMs, ScreenRace!MinMs,
       ScreenDemo!MaxMs, ScreenRace!MaxMs
  <1>4. \A q : ScreenDemo!Snapshot(q) = ScreenRace!Snapshot(q)
    BY Zenon DEF ScreenDemo!Snapshot, ScreenRace!Snapshot
  <1>5. ScreenDemo!ScreenOf(d) = ScreenRace!ScreenOf(d)
    BY Zenon DEF ScreenDemo!ScreenOf, ScreenRace!ScreenOf
  <1> QED
    BY <1>1, <1>2, <1>3, <1>4, <1>5, Zenon DEF ScreenDemo!Rendered, ScreenRace!Rendered

\* The page shows d: another screen only with another gear.
LEMMA DemoShow ==
    ASSUME DemoInv, NEW d, ScreenDemo!Show(d)
    PROVE  DemoInv' /\ ScreenDemo!NoYank
  <1>0. PICK i, g, b, c, f, m, x : \E t \in BOOLEAN : screenPage = RacePage(i, g, t, b, c, f, m, x)
    BY DEF DemoInv
  <1>a. PICK t \in BOOLEAN : screenPage = RacePage(i, g, t, b, c, f, m, x)
    BY <1>0
  <1>b. screenPage.index = i /\ screenPage.lastGear = g
    BY <1>a DEF RacePage
  <1>c. PICK i2, g2, b2, c2, f2, m2, x2 : \E t2 \in BOOLEAN :
              /\ ScreenRace!Rendered(RacePage(i, g, t, b, c, f, m, x), d)
                   = RacePage(i2, g2, t2, b2, c2, f2, m2, x2)
              /\ RenderEffect(i, g, t, b, c, f, d, i2, g2, t2, b2, c2, f2)
    BY RaceRendered
  <1>d. PICK t2 \in BOOLEAN :
              /\ ScreenRace!Rendered(RacePage(i, g, t, b, c, f, m, x), d)
                   = RacePage(i2, g2, t2, b2, c2, f2, m2, x2)
              /\ RenderEffect(i, g, t, b, c, f, d, i2, g2, t2, b2, c2, f2)
    BY <1>c
  <1>e. /\ d = None \/ d.gear \in {None, g} => i2 = i /\ g2 = g
        /\ d # None /\ d.gear \notin {None, g} => g2 = d.gear
    BY <1>d DEF RenderEffect
  <1>f. screenPage' = RacePage(i2, g2, t2, b2, c2, f2, m2, x2)
    BY <1>a, <1>d, DemoRendered DEF ScreenDemo!Show
  <1>g. screenPage'.index = i2 /\ screenPage'.lastGear = g2
    BY <1>f DEF RacePage
  <1>h. seen' = IF d = None \/ d.gear = None THEN seen ELSE d.gear
    BY DEF ScreenDemo!Show
  <1>i. g = seen
    BY <1>b DEF DemoInv
  <1>1. g2 = seen'
    BY <1>e, <1>h, <1>i
  <1>2. DemoInv'
    BY <1>1, <1>f, <1>g DEF DemoInv
  <1>3. i2 # i => seen' # seen
    BY <1>e, <1>h, <1>i
  <1> QED
    BY <1>2, <1>3, <1>b, <1>g DEF ScreenDemo!NoYank

\* A step that leaves the page's screen and its gear.
LEMMA DemoRests ==
    ASSUME DemoInv, UNCHANGED <<screenPage, seen>>
    PROVE  DemoInv' /\ ScreenDemo!NoYank
  BY DEF DemoInv, ScreenDemo!NoYank

LEMMA DemoKeyEnter ==
    ASSUME DemoInv, ScreenDemo!KeyEnter
    PROVE  DemoInv' /\ ScreenDemo!NoYank
  <1>0. PICK i, g, b, c, f, m, x : \E t \in BOOLEAN : screenPage = RacePage(i, g, t, b, c, f, m, x)
    BY DEF DemoInv
  <1>a. PICK t \in BOOLEAN : screenPage = RacePage(i, g, t, b, c, f, m, x)
    BY <1>0
  <1>b. PICK i2 : screenPage' = RacePage(i2, g, t, b, c, f, m, x)
    <2>1. \A v : [screenPage EXCEPT !.index = v] = RacePage(v, g, t, b, c, f, m, x)
      BY <1>a DEF RacePage
    <2>2. \E v : screenPage' = [screenPage EXCEPT !.index = v]
      BY DEF ScreenDemo!KeyEnter
    <2> QED
      BY <2>1, <2>2
  <1>c. UNCHANGED seen
    BY DEF ScreenDemo!KeyEnter, ScreenDemo!history
  <1>d. screenPage'.lastGear = screenPage.lastGear
    BY <1>a, <1>b DEF RacePage
  <1> QED
    BY <1>b, <1>c, <1>d DEF DemoInv, ScreenDemo!NoYank

LEMMA DemoCardTick ==
    ASSUME DemoInv, ScreenDemo!Tick
    PROVE  DemoInv' /\ ScreenDemo!NoYank
  <1>0. PICK i, g, b, c, f, m, x : \E t \in BOOLEAN : screenPage = RacePage(i, g, t, b, c, f, m, x)
    BY DEF DemoInv
  <1>a. PICK t \in BOOLEAN : screenPage = RacePage(i, g, t, b, c, f, m, x)
    BY <1>0
  <1>b. PICK c2, f2, x2 : screenPage' = RacePage(i, g, t, b, c2, f2, m, x2)
    <2>1. \A v : [screenPage EXCEPT !.left = v] = RacePage(i, g, t, b, c, f, m, v)
      BY <1>a DEF RacePage
    <2>2. [screenPage EXCEPT !.card = None, !.frozen = None, !.left = 0] = RacePage(i, g, t, b, None, None, m, 0)
      <3>1. [screenPage EXCEPT !.card = None] = RacePage(i, g, t, b, None, f, m, x)
        BY <1>a DEF RacePage
      <3>2. [RacePage(i, g, t, b, None, f, m, x) EXCEPT !.frozen = None] = RacePage(i, g, t, b, None, None, m, x)
        BY DEF RacePage
      <3>3. [RacePage(i, g, t, b, None, None, m, x) EXCEPT !.left = 0] = RacePage(i, g, t, b, None, None, m, 0)
        BY DEF RacePage
      <3>4. [screenPage EXCEPT !.card = None, !.frozen = None, !.left = 0]
              = [[[screenPage EXCEPT !.card = None] EXCEPT !.frozen = None] EXCEPT !.left = 0]
        OBVIOUS
      <3> QED
        BY <3>1, <3>2, <3>3, <3>4
    <2>3. screenPage' = [screenPage EXCEPT !.left = screenPage.left - 1]
            \/ screenPage' = [screenPage EXCEPT !.card = None, !.frozen = None, !.left = 0]
      BY DEF ScreenDemo!Tick
    <2>4. screenPage' = RacePage(i, g, t, b, c, f, m, screenPage.left - 1)
            \/ screenPage' = RacePage(i, g, t, b, None, None, m, 0)
      BY <2>1, <2>2, <2>3
    <2> QED
      BY <2>4
  <1>c. UNCHANGED seen
    BY DEF ScreenDemo!Tick
  <1>d. screenPage'.lastGear = screenPage.lastGear /\ screenPage'.index = screenPage.index
    BY <1>a, <1>b DEF RacePage
  <1> QED
    BY <1>b, <1>c, <1>d DEF DemoInv, ScreenDemo!NoYank

LEMMA DemoReload ==
    ASSUME ScreenDemo!Reload
    PROVE  DemoInv' /\ ScreenDemo!NoYank
  <1>1. screenPage' = RacePage(0, None, FALSE, None, None, None, ScreenDemo!DefaultMs, 0)
    BY Zenon DEF ScreenDemo!Reload, ScreenDemo!NewPage, RacePage
  <1>2. screenPage'.lastGear = None
    BY <1>1 DEF RacePage
  <1>3. seen' = None
    BY DEF ScreenDemo!Reload
  <1> QED
    BY <1>1, <1>2, <1>3 DEF DemoInv, ScreenDemo!NoYank

LEMMA DemoNext ==
    ASSUME DemoInv, ScreenDemo!Next
    PROVE  DemoInv' /\ ScreenDemo!NoYank
  <1>1. CASE \E g \in ScreenDemo!Gears \cup {None} : ScreenDemo!CanFrame(g)
    BY <1>1, DemoRests DEF ScreenDemo!CanFrame, ScreenDemo!OnCar, ScreenDemo!viewed
  <1>2. CASE ScreenDemo!CanStale
    BY <1>2, DemoRests DEF ScreenDemo!CanStale, ScreenDemo!OnCar, ScreenDemo!viewed
  <1>3. CASE ScreenDemo!CompleteLap
    BY <1>3, DemoRests DEF ScreenDemo!CompleteLap, ScreenDemo!OnCar, ScreenDemo!viewed
  <1>4. CASE ScreenDemo!LapCount \/ ScreenDemo!LapReset \/ ScreenDemo!Telemetry
    BY <1>4, DemoRests DEF ScreenDemo!LapCount, ScreenDemo!LapReset, ScreenDemo!Telemetry,
       ScreenDemo!OnCar, ScreenDemo!viewed
  <1>5. CASE \E name \in DemoOverrides \cup {None} : ScreenDemo!ScreenOverride(name)
    BY <1>5, DemoRests DEF ScreenDemo!ScreenOverride, ScreenDemo!OnCar, ScreenDemo!viewed
  <1>6. CASE \E ms \in DemoDurations : ScreenDemo!SetLapCardMs(ms)
    BY <1>6, DemoRests DEF ScreenDemo!SetLapCardMs, ScreenDemo!OnCar, ScreenDemo!viewed
  <1>7. CASE ScreenDemo!Connect \/ ScreenDemo!Disconnect
    BY <1>7, DemoRests DEF ScreenDemo!Connect, ScreenDemo!Disconnect, ScreenDemo!history
  <1>8. CASE ScreenDemo!Frame
    <2>1. UNCHANGED ScreenDemo!viewed \/ ScreenDemo!Show(ScreenDemo!Message)
      BY <1>8 DEF ScreenDemo!Frame
    <2> QED
      BY <2>1, DemoRests, DemoShow DEF ScreenDemo!viewed
  <1>9. ASSUME NEW g \in ScreenDemo!Gears, NEW lap \in BOOLEAN, ScreenDemo!DemoTick(g, lap)
        PROVE  DemoInv' /\ ScreenDemo!NoYank
    <2>1. UNCHANGED ScreenDemo!viewed \/ ScreenDemo!Show(demo')
      BY <1>9, Zenon DEF ScreenDemo!DemoTick
    <2> QED
      BY <2>1, DemoRests, DemoShow DEF ScreenDemo!viewed
  <1>10. CASE ScreenDemo!KeyD
    <2>1. ScreenDemo!Show(IF isDemo' THEN demo ELSE live)
      BY <1>10, Zenon DEF ScreenDemo!KeyD
    <2> QED
      BY <2>1, DemoShow
  <1>11. CASE ScreenDemo!KeyEnter
    BY <1>11, DemoKeyEnter
  <1>12. CASE ScreenDemo!Tick
    BY <1>12, DemoCardTick
  <1>13. CASE ScreenDemo!Reload
    BY <1>13, DemoReload
  <1> QED
    BY <1>1, <1>2, <1>3, <1>4, <1>5, <1>6, <1>7, <1>8, <1>9, <1>10, <1>11, <1>12, <1>13, Zenon
       DEF ScreenDemo!Next

(* ----- The other components, and the dash as a whole ----- *)

\* The message palette: a shared library in place; a new one over an unreliable link.
Messages ==
    INSTANCE MessageLibrary WITH
        Clients <- {"a", "b"}, Leader <- "a", Team <- "team",
        MAX_ACTIVE_MESSAGES <- 1, Flaky <- FALSE, Seeded <- TRUE, MaxEdits <- 1,
        MaxOpens <- 2, open <- msgOpen, timer <- msgTimer, server <- msgServer,
        linked <- msgLinked, car <- msgCar, edits <- msgEdits
MessagesNew ==
    INSTANCE MessageLibrary WITH
        Clients <- {"a", "b"}, Leader <- "a", Team <- "team",
        MAX_ACTIVE_MESSAGES <- 1, Flaky <- TRUE, Seeded <- FALSE, MaxEdits <- 1,
        MaxOpens <- 1, open <- msgOpen, timer <- msgTimer, server <- msgServer,
        linked <- msgLinked, car <- msgCar, edits <- msgEdits

\* The layout designer: two editors of one screen; one editor of two screens.
Designer ==
    INSTANCE DashDesigner WITH
        Editors <- {"a", "b"}, Screens <- {"card"}, First <- "card",
        Moves <- {"edit", "own", "add"}, MaxEdits <- 3, MaxCalls <- 2,
        server <- designServer, timer <- designTimer, car <- designCar,
        edits <- designEdits
DesignerScreens ==
    INSTANCE DashDesigner WITH
        Editors <- {"a"}, Screens <- {"card", "park"}, First <- "card",
        Moves <- {"edit", "select", "add", "delete", "switch", "close", "refresh", "send", "empty", "fresh", "offline", "overlap"},
        MaxEdits <- 3, MaxCalls <- 2, server <- designServer, timer <- designTimer,
        car <- designCar, edits <- designEdits

\* The settings page of the dash, over two days.
Settings ==
    INSTANCE DashSettings WITH
        Sunrise <- 53, Sunset <- 94, MaxTime <- 192, Moves <- 5, open <- setOpen,
        moves <- setMoves

\* Bars, gauges and widgets, at values around their limits.
Readouts ==
    INSTANCE DashReadouts WITH
        Sizes <- {0, 1, 97, 960, 4970, 20000, 59996, 80000, 119970, 160000},
        Formats <- {"kwh", "whSigned", "laptime"}, Decimals <- {None, 1}

\* The pills of the driving screen; the faults and layouts of the others.
Pills ==
    INSTANCE DashPanels WITH
        Legs <- 1, Placeholders <- 0, Unbound <- FALSE, Parts <- {"controls"}
Faults ==
    INSTANCE DashPanels WITH
        Legs <- 7, Placeholders <- 2, Unbound <- FALSE,
        Parts <- {"diagnostics", "layouts"}

ASSUME DashBounds ==
    /\ Messages!MessageLibraryParams
    /\ MessagesNew!MessageLibraryParams
    /\ Designer!DashDesignerParams
    /\ DesignerScreens!DashDesignerParams
    /\ Settings!SunAssumption
    /\ Readouts!ValuesAssumption
    /\ Pills!PanelsAssumption
    /\ Faults!PanelsAssumption

cmdVars == <<leader, status, net, cmdShown, delta, setting, powerRef, deltaRef,
    outbox, retained, cmdCar, gear, last, presses>>
countVars == <<countPage, saved, down, countUp, countCar, cards, logged, cuts,
    reloads, drops, losses>>
msgVars == <<lib, msgOpen, msgTimer, pull, puts, msgServer, msgLinked, msgCar,
    msgEdits, opens>>
designVars == <<designServer, ed, designTimer, cache, calls, designCar, high, mine,
    designEdits>>
screenVars == <<screenCar, screenLinked, live, demo, isDemo, screenPage, known,
    seen, screenShown, adopted, under, screenUp, screenMoves>>
setVars == <<settings, stored, light, setOpen, focus, time, setMoves>>
readVars == <<value, widget>>
panelVars == <<shutdown, flags, layout>>

vars == <<scene, cmdVars, countVars, msgVars, designVars, screenVars, setVars,
    readVars, panelVars>>

\* The scene is chosen once; the components of the other scenes rest in an initial state.
Init ==
    /\ scene \in Scenes
    /\ Commands!Init
    /\ LapsCut!Init
    /\ IF scene = "newlib" THEN MessagesNew!Init ELSE Messages!Init
    /\ IF scene = "screens" THEN DesignerScreens!Init ELSE Designer!Init
    /\ ScreenRace!Init
    /\ Settings!Init
    /\ Readouts!Init
    /\ Pills!Init
    /\ scene \notin {"commands", "roles"} =>
         /\ leader = CHOOSE p \in CmdPages : TRUE
         /\ cmdShown = [p \in CmdPages |-> CHOOSE v \in CmdPowers : TRUE]
    /\ scene \notin {"messages", "newlib"} => lib = [c \in {"a", "b"} |-> Messages!Shared0]
    /\ scene # "readouts" => widget = CHOOSE w \in Readouts!Widget : TRUE

InDashCommands ==
    /\ \/ scene = "commands" /\ Commands!Next
       \/ scene = "roles" /\ CommandsRoles!Next
    /\ UNCHANGED <<scene, countVars, msgVars, designVars, screenVars, setVars,
                   readVars, panelVars>>

InDashLaps ==
    /\ \/ scene = "cuts" /\ LapsCut!Next
       \/ scene = "cards" /\ LapsCards!Next
       \/ scene = "resume" /\ LapsResume!Next
       \/ scene = "repair" /\ LapsRepair!Next
    /\ UNCHANGED <<scene, cmdVars, msgVars, designVars, screenVars, setVars,
                   readVars, panelVars>>

InMessageLibrary ==
    /\ \/ scene = "messages" /\ Messages!Next
       \/ scene = "newlib" /\ MessagesNew!Next
    /\ UNCHANGED <<scene, cmdVars, countVars, designVars, screenVars, setVars,
                   readVars, panelVars>>

InDashDesigner ==
    /\ \/ scene = "designer" /\ Designer!Next
       \/ scene = "screens" /\ DesignerScreens!Next
    /\ UNCHANGED <<scene, cmdVars, countVars, msgVars, screenVars, setVars,
                   readVars, panelVars>>

InDashScreen ==
    /\ \/ scene = "race" /\ ScreenRace!Next
       \/ scene = "card" /\ ScreenCard!Next
       \/ scene = "demo" /\ ScreenDemo!Next
    /\ UNCHANGED <<scene, cmdVars, countVars, msgVars, designVars, setVars,
                   readVars, panelVars>>

InDashSettings ==
    /\ scene = "settings" /\ Settings!Next
    /\ UNCHANGED <<scene, cmdVars, countVars, msgVars, designVars, screenVars,
                   readVars, panelVars>>

InDashReadouts ==
    /\ scene = "readouts" /\ Readouts!Next
    /\ UNCHANGED <<scene, cmdVars, countVars, msgVars, designVars, screenVars,
                   setVars, panelVars>>

InDashPanels ==
    /\ \/ scene = "pills" /\ Pills!Next
       \/ scene = "faults" /\ Faults!Next
    /\ UNCHANGED <<scene, cmdVars, countVars, msgVars, designVars, screenVars,
                   setVars, readVars>>

Next ==
    \/ InDashCommands
    \/ InDashLaps
    \/ InMessageLibrary
    \/ InDashDesigner
    \/ InDashScreen
    \/ InDashSettings
    \/ InDashReadouts
    \/ InDashPanels

Spec ==
    /\ Init /\ [][Next]_vars
    /\ WF_cmdVars(scene = "commands" /\ Commands!Tick)
    /\ WF_screenVars(scene = "card" /\ ScreenCard!Tick)
    /\ WF_screenVars(scene = "card" /\ ScreenCard!Connect)
    /\ WF_screenVars(scene = "card" /\ ScreenCard!Frame)

\* Only the page that leads sets the car's target power and delta (autoConnect).
LeaderCommands == scene = "commands" => Commands!LeaderCommands

\* The target power sent, by the keepalive too, is the one the sending page shows.
SendsShown == scene = "commands" => Commands!SendsShown

\* The car comes to show the leader's target, also after a reboot or an outage.
TargetShown == (scene = "commands") => Commands!TargetShown

\* A delta the leader no longer has goes stale on the car.
DeltaExpires == (scene = "commands") => Commands!DeltaExpires

\* A linked leader's retained settings are in force, whoever led before.
SettingInForce == scene = "roles" => CommandsRoles!SettingInForce

\* A screen override on the dash was pressed in the present gear, since the last boot.
NotStranded == scene = "roles" => CommandsRoles!NotStranded

\* Whenever everything published has arrived both ways, the dash has the lap count of
\* the trackside page: through broken links with undone laps, or with cards, or with
\* reloads.  Each scene has one of the three: a lap undone around a reload, or while a
\* card is fired, leaves the dash a count that nothing corrects.
SameNumber ==
    /\ scene = "cuts" => LapsCut!SameNumber
    /\ scene = "cards" => LapsCards!SameNumber
    /\ scene = "resume" => LapsResume!SameNumber

\* Republishing, reconnecting and reloading fire no card for a lap that was not logged.
NoExtraCard ==
    /\ scene = "cards" => LapsCards!NoExtraCard
    /\ scene = "repair" => LapsRepair!NoExtraCard

\* Whatever pages edit, remove, pull and save over each other, a palette names existing
\* messages, each once, and no more than the car may hold.
PaletteSound ==
    /\ scene = "messages" => Messages!PaletteSound
    /\ scene = "newlib" => MessagesNew!PaletteSound

\* While the leader is linked the car has the palette of the leader's page.
CarHasPalette == scene = "messages" => Messages!CarHasPalette

\* Opening the page changes nothing of the shared library: while nobody edits and
\* the pull is answered within the 800 ms before the first save.
OpeningKeepsShared == scene = "messages" => Messages!OpeningKeepsShared

\* No save replaces a layout that somebody else edited by an older version of it: with
\* saves handled one at a time, and a change saved before the user goes on.
NoClobber == scene = "designer" => Designer!NoClobber

\* Once editors are at rest every layout has the newest version its editor made, with
\* saves handled one at a time, and a change saved before the user goes on.
EditsSurvive == scene = "designer" => Designer!EditsSurvive

\* No library and no car has a layout under another screen than its own.
RightNamespace == scene = "screens" => DesignerScreens!RightNamespace

\* Every lap that a frame brings to the page gets its card, or was there when the page
\* loaded.  Frames carry the last lap only: one that a next lap replaced while the link
\* was down is not brought.  No lap is deselected here.
EveryLapShown == scene = "race" => ScreenRace!EveryLapShown

\* The card shows the lap it is for, although the lap data moves on beneath it.
CardIsLap == scene = "race" => ScreenRace!CardIsLap

\* Only Enter, another gear and a reload move the screen the crew chose.
NoYank ==
    [][ /\ scene = "race" => ScreenRace!NoYank
        /\ scene = "demo" => ScreenDemo!NoYank ]_screenVars

\* An override that is released gives back the screen it covered.
ReleaseReturns == [][scene = "race" => ScreenRace!ReleaseReturns]_screenVars

\* No lap gets a second card, although the page reloads and reconnects.
NoRepeat == [][scene = "race" => ScreenRace!NoRepeat]_screenVars

\* A card goes away by itself, however often messages arrive.
CardClears == (scene = "card") => ScreenCard!CardClears

\* The page has the theme that was chosen, or in auto that of the sun, through reloads
\* and over midnight.
ThemeShown == scene = "settings" => Settings!ThemeShown

\* The bars of the driving screen stay on their track and start at their zero.
FillsInTrack == scene = "readouts" => Readouts!FillsInTrack

\* The arc of a gauge whose range has a zero starts there and stays in it.
GaugeInTrack == scene = "readouts" => Readouts!GaugeInTrack

\* What the driver reads is within half of the last place of the value, wherever it
\* is rounded.
DigitsTrue == scene = "readouts" => Readouts!DigitsTrue

\* A budget bar of a layout has direction and colour of the built-in one.
BarsAgree == scene = "readouts" => Readouts!BarsAgree

\* A pill is lit exactly when its text names something on, and blinks only to wait.
PillsLit == scene = "pills" => Pills!PillsLit

\* The park screen and the shutdown screen report the same faults.
FaultsAgree == scene = "faults" => Faults!FaultsAgree

\* No layout blanks the screen: a drawn one has a widget, or the built-in is drawn.
NeverBlank == scene = "faults" => Faults!NeverBlank

(* ----- What the dash promises, component by component ----- *)

\* Car and pages agree: on who commands, on the settings in force, on the lap number,
\* over brokers, cars and leaders that come and go; undone laps, cards and reloads each
\* in a scene of their own.
CarAgrees ==
    /\ LeaderCommands
    /\ SendsShown
    /\ SettingInForce
    /\ NotStranded
    /\ SameNumber
    /\ NoExtraCard

\* Messages: on every page the palette names messages that exist, each once, up to the
\* cap; the car has the leader's while linked; and opening a page changes nothing of a
\* shared library.  The library itself belongs to its last writer: of two pages that edit
\* it, one may lose its edits.  Layouts: none is replaced by an older version or loses its
\* newest, where the version check works (one save at a time, saved before the user goes
\* on); and none ends up under another screen.
LibrariesSafe ==
    /\ PaletteSound
    /\ CarHasPalette
    /\ OpeningKeepsShared
    /\ NoClobber
    /\ EditsSurvive
    /\ RightNamespace

\* The screen: a lap that is brought to the page has its card, once and with its own
\* times, and nothing but the crew, the gear and a reload moves the screen.
ScreenSound ==
    /\ [](EveryLapShown /\ CardIsLap)
    /\ NoRepeat
    /\ NoYank
    /\ ReleaseReturns

\* What is drawn is true to the values drawn from, at the limits of their ranges too.
DrawnTrue ==
    /\ ThemeShown
    /\ FillsInTrack
    /\ GaugeInTrack
    /\ DigitsTrue
    /\ BarsAgree
    /\ PillsLit
    /\ FaultsAgree
    /\ NeverBlank

\* What the driver reads comes to be what the leader means, and goes when it is old.
DashCatchesUp ==
    /\ TargetShown
    /\ DeltaExpires
    /\ CardClears

(* ----- The theorem ----- *)

LEMMA ScreenStarts ==
    ASSUME Init
    PROVE  ScreenInv
  <1>1. ScreenRace!Init
    BY Zenon DEF Init
  <1>2. RaceInv
    BY <1>1, RaceStarts
  <1>3. DemoInv
    BY <1>2 DEF RaceInv, RacePageTypes, RaceRouting, DemoInv
  <1> QED
    BY <1>2, <1>3 DEF ScreenInv

\* What the screen properties forbid of one step.
ScreenStep ==
    /\ scene = "race" => RaceStep
    /\ scene = "demo" => ScreenDemo!NoYank

LEMMA ScreenRests ==
    ASSUME ScreenInv, UNCHANGED scene, UNCHANGED screenVars
    PROVE  ScreenInv'
  <1>1. UNCHANGED <<screenCar, screenLinked, live, demo, isDemo, screenPage, known, seen, screenShown, adopted, under, screenUp, screenMoves>>
    BY Zenon DEF screenVars
  <1>2. CASE scene = "race"
    <2>1. RaceCarTypes' /\ RaceCarLap' /\ RacePageLap' /\ RaceBaseline' /\ RaceCard' /\ RaceShown'
      BY <1>1, <1>2 DEF ScreenInv, RaceInv, RaceCarTypes, RaceCarLap, RacePageLap, RaceBaseline, RaceCard, RaceShown
    <2>2. RacePageTypes' /\ RaceRouting'
      BY <1>1, <1>2 DEF ScreenInv, RaceInv, RacePageTypes, RaceRouting, ScreenRace!Overridden
    <2> QED
      BY <1>2, <2>1, <2>2 DEF ScreenInv, RaceInv
  <1>3. CASE scene = "demo"
    BY <1>1, <1>3 DEF ScreenInv, DemoInv
  <1>4. CASE scene \notin {"race", "demo"}
    BY <1>4 DEF ScreenInv
  <1> QED
    BY <1>2, <1>3, <1>4

LEMMA ScreenNext ==
    ASSUME ScreenInv, [Next]_vars
    PROVE  ScreenInv' /\ [ScreenStep]_screenVars
  <1>1. CASE InDashScreen
    <2>1. UNCHANGED scene
      BY <1>1 DEF InDashScreen
    <2>2. CASE scene = "race" /\ ScreenRace!Next
      <3>1. RaceInv' /\ RaceStep
        BY <2>2, RaceNext DEF ScreenInv
      <3> QED
        BY <2>1, <2>2, <3>1 DEF ScreenInv, ScreenStep
    <2>3. CASE scene = "demo" /\ ScreenDemo!Next
      <3>1. DemoInv' /\ ScreenDemo!NoYank
        BY <2>3, DemoNext DEF ScreenInv
      <3> QED
        BY <2>1, <2>3, <3>1 DEF ScreenInv, ScreenStep
    <2>4. CASE scene = "card"
      BY <2>1, <2>4 DEF ScreenInv, ScreenStep
    <2> QED
      BY <1>1, <2>2, <2>3, <2>4 DEF InDashScreen
  <1>2. CASE UNCHANGED <<scene, screenVars>>
    <2>1. UNCHANGED scene /\ UNCHANGED screenVars
      BY <1>2
    <2> QED
      BY <2>1, ScreenRests
  <1>3. CASE InDashCommands \/ InDashLaps \/ InMessageLibrary \/ InDashDesigner
    BY <1>2, <1>3, Zenon DEF InDashCommands, InDashLaps, InMessageLibrary, InDashDesigner
  <1>4. CASE InDashSettings \/ InDashReadouts \/ InDashPanels
    BY <1>2, <1>4, Zenon DEF InDashSettings, InDashReadouts, InDashPanels
  <1>5. CASE UNCHANGED vars
    BY <1>2, <1>5, Zenon DEF vars
  <1> QED
    BY <1>1, <1>3, <1>4, <1>5, Zenon DEF Next

\* While no lap is deselected and a session is reset only on a live link with no card up,
\* the last lap on the page has had its card, or was there when the page loaded; no lap has
\* two, and the card shows the lap it is for.  Only the crew, the gear and a reload move
\* the screen under it, in the demo with its rare events too.  For every number of laps
\* and moves, any overrides and durations.
THEOREM ScreenIsSound == Spec => ScreenSound
  <1>1. Init => ScreenInv
    BY ScreenStarts
  <1>2. ScreenInv /\ [Next]_vars => ScreenInv'
    BY ScreenNext
  <1>3. ScreenInv /\ [Next]_vars => [ScreenStep]_screenVars
    BY ScreenNext
  <1>4. ScreenInv => EveryLapShown /\ CardIsLap
    <2> SUFFICES ASSUME ScreenInv, scene = "race"
                 PROVE  ScreenRace!EveryLapShown /\ ScreenRace!CardIsLap
      BY DEF EveryLapShown, CardIsLap
    <2>1. RaceInv
      BY DEF ScreenInv
    <2>2. ScreenRace!CardIsLap
      BY <2>1 DEF RaceInv, RaceCard, ScreenRace!CardIsLap
    <2>3. screenPage.inited \in BOOLEAN
      <3>0. PICK i, g, b, c, f, m, x : \E t \in BOOLEAN : screenPage = RacePage(i, g, t, b, c, f, m, x)
        BY <2>1 DEF RaceInv, RacePageTypes
      <3>1. PICK t \in BOOLEAN : screenPage = RacePage(i, g, t, b, c, f, m, x)
        BY <3>0
      <3> QED
        BY <3>1 DEF RacePage
    <2>4. ScreenRace!EveryLapShown
      BY <2>1, <2>3 DEF RaceInv, RaceShown, ScreenRace!EveryLapShown
    <2> QED
      BY <2>2, <2>4
  <1>5. [ScreenStep]_screenVars =>
           /\ [scene = "race" => ScreenRace!NoRepeat]_screenVars
           /\ [/\ scene = "race" => ScreenRace!NoYank
               /\ scene = "demo" => ScreenDemo!NoYank]_screenVars
           /\ [scene = "race" => ScreenRace!ReleaseReturns]_screenVars
    BY Zenon DEF ScreenStep, RaceStep
  <1> QED
    BY <1>1, <1>2, <1>3, <1>4, <1>5, PTL DEF Spec, ScreenSound, NoRepeat, NoYank, ReleaseReturns

(* ----- Car and pages agree ----- *)

CarInv ==
    /\ scene = "commands" => CommandsInv
    /\ scene = "roles" => RolesInv
    /\ scene \in {"cuts", "resume", "repair"} => EchoInv /\ drops \in Nat
    /\ scene = "cuts" => reloads = 0 /\ losses = 0
    /\ scene = "resume" => cuts = 0 /\ losses = 0
    /\ scene = "cards" => CardsInv

LEMMA CarStarts ==
    ASSUME Init
    PROVE  CarInv
  <1>1. Commands!Init /\ LapsCut!Init
    BY Zenon DEF Init
  <1> QED
    BY <1>1, CommandsStart, CountStarts DEF CarInv

LEMMA CarRests ==
    ASSUME CarInv, UNCHANGED scene
    PROVE  /\ UNCHANGED cmdVars => (CommandsInv => CommandsInv') /\ (RolesInv => RolesInv')
           /\ UNCHANGED countVars => (EchoInv => EchoInv') /\ (CardsInv => CardsInv')
  <1>1. UNCHANGED cmdVars => (CommandsInv => CommandsInv') /\ (RolesInv => RolesInv')
    <2> HAVE UNCHANGED cmdVars
    <2>1. UNCHANGED <<leader, status, net, cmdShown, delta, setting, powerRef, deltaRef, outbox, retained, cmdCar, gear, last, presses>>
      BY Zenon DEF cmdVars
    <2>2. CommandsInv => CommandsInv'
      BY <2>1 DEF CommandsInv, Commands!SendsShown
    <2>3. RolesInv => RolesInv'
      BY <2>1 DEF RolesInv, CommandsRoles!NotStranded
    <2> QED
      BY <2>2, <2>3
  <1>2. UNCHANGED countVars => (EchoInv => EchoInv') /\ (CardsInv => CardsInv')
    <2> HAVE UNCHANGED countVars
    <2>1. UNCHANGED <<countPage, saved, down, countUp, countCar, cards, logged, cuts, reloads, losses>>
      BY Zenon DEF countVars
    <2>2. EchoInv => EchoInv'
      BY <2>1, EchoPublishState
    <2>3. CardsInv => CardsInv'
      BY <2>1 DEF CardsInv
    <2> QED
      BY <2>2, <2>3
  <1> QED
    BY <1>1, <1>2

LEMMA CarNext ==
    ASSUME CarInv, [Next]_vars
    PROVE  CarInv'
  <1>1. UNCHANGED scene
    BY Zenon DEF Next, vars, InDashCommands, InDashLaps, InMessageLibrary, InDashDesigner, InDashScreen,
       InDashSettings, InDashReadouts, InDashPanels
  <1>2. UNCHANGED countVars \/ InDashLaps
    BY Zenon DEF Next, vars, InDashCommands, InMessageLibrary, InDashDesigner, InDashScreen,
       InDashSettings, InDashReadouts, InDashPanels
  <1>3. UNCHANGED cmdVars \/ InDashCommands
    BY Zenon DEF Next, vars, InDashLaps, InMessageLibrary, InDashDesigner, InDashScreen,
       InDashSettings, InDashReadouts, InDashPanels
  <1>4. UNCHANGED countVars => UNCHANGED <<cuts, reloads, drops, losses>>
    BY Zenon DEF countVars
  <1>5. scene = "commands" => CommandsInv'
    <2>1. CASE scene = "commands" /\ InDashCommands
      BY <2>1, CommandsNext DEF CarInv, InDashCommands
    <2> QED
      BY <1>1, <1>3, <2>1, CarRests DEF CarInv
  <1>6. scene = "roles" => RolesInv'
    <2>1. CASE scene = "roles" /\ InDashCommands
      BY <2>1, RolesNext DEF CarInv, InDashCommands
    <2> QED
      BY <1>1, <1>3, <2>1, CarRests DEF CarInv
  <1>7. scene = "cuts" => EchoInv' /\ drops' \in Nat /\ reloads' = 0 /\ losses' = 0
    <2>1. CASE scene = "cuts" /\ InDashLaps
      BY <2>1, CutNext DEF CarInv, InDashLaps
    <2> QED
      BY <1>1, <1>2, <1>4, <2>1, CarRests DEF CarInv
  <1>8. scene = "resume" => EchoInv' /\ drops' \in Nat /\ cuts' = 0 /\ losses' = 0
    <2>1. CASE scene = "resume" /\ InDashLaps
      BY <2>1, ResumeNext DEF CarInv, InDashLaps
    <2> QED
      BY <1>1, <1>2, <1>4, <2>1, CarRests DEF CarInv
  <1>9. scene = "repair" => EchoInv' /\ drops' \in Nat
    <2>1. CASE scene = "repair" /\ InDashLaps
      BY <2>1, RepairIsEcho, EchoNext, EchoDrops DEF CarInv, InDashLaps
    <2> QED
      BY <1>1, <1>2, <1>4, <2>1, CarRests DEF CarInv
  <1>10. scene = "cards" => CardsInv'
    <2>1. CASE scene = "cards" /\ InDashLaps
      BY <2>1, CardsNext DEF CarInv, InDashLaps
    <2> QED
      BY <1>1, <1>2, <2>1, CarRests DEF CarInv
  <1> QED
    BY <1>1, <1>5, <1>6, <1>7, <1>8, <1>9, <1>10 DEF CarInv

LEMMA CarSound ==
    ASSUME CarInv
    PROVE  CarAgrees
  <1>1. LeaderCommands /\ SendsShown
    <2>1. CASE scene = "commands"
      <3>1. cmdCar.led = TRUE /\ cmdCar.deltaLed = TRUE /\ Commands!SendsShown
        BY <2>1 DEF CarInv, CommandsInv
      <3>2. Commands!LeaderCommands
        BY <3>1 DEF Commands!LeaderCommands
      <3> QED
        BY <3>1, <3>2 DEF LeaderCommands, SendsShown
    <2> QED
      BY <2>1 DEF LeaderCommands, SendsShown
  <1>2. SettingInForce /\ NotStranded
    <2>1. CASE scene = "roles"
      <3>1. RolesInv
        BY <2>1 DEF CarInv
      <3>2. CommandsRoles!SettingInForce
        BY <3>1 DEF RolesInv, CommandsRoles!SettingInForce, CommandsRoles!Linked
      <3> QED
        BY <3>1, <3>2 DEF RolesInv, SettingInForce, NotStranded
    <2> QED
      BY <2>1 DEF SettingInForce, NotStranded
  <1>3. scene = "cuts" => LapsCut!SameNumber
    BY EchoSameNumber DEF CarInv, LapsCut!SameNumber, LapsCut!Quiet
  <1>4. scene = "resume" => LapsResume!SameNumber
    BY EchoSameNumber DEF CarInv, LapsResume!SameNumber, LapsResume!Quiet
  <1>5. scene = "cards" => LapsCards!SameNumber /\ LapsCards!NoExtraCard
    <2> SUFFICES ASSUME CardsInv
                 PROVE  LapsCards!SameNumber /\ LapsCards!NoExtraCard
      BY DEF CarInv
    <2>1. PICK n, l, k, c, s :
              countPage = CountPage(n, l, c, k, s) /\ n \in Nat /\ k \in Nat
      <3>1. PICK c_, s_ : \E n_, k_ \in Nat : \E l_ \in BOOLEAN : countPage = CountPage(n_, l_, c_, k_, s_)
        BY DEF CardsInv
      <3> QED
        BY <3>1
    <2>2. countPage.n \in Nat /\ countPage.last \in Nat
      BY <2>1 DEF CountPage
    <2>3. countCar \in Nat /\ cards \in Nat /\ logged \in Nat
      BY DEF CardsInv
    <2>4. cards <= logged
      BY <2>2, <2>3 DEF CardsInv
    <2>5. down = <<>> /\ countPage.link => countCar = countPage.n
      BY DEF CardsInv, TriggersUpTo
    <2> QED
      BY <2>4, <2>5 DEF LapsCards!SameNumber, LapsCards!Quiet, LapsCards!NoExtraCard
  <1>6. scene = "repair" => LapsRepair!NoExtraCard
    BY DEF CarInv, EchoInv, EchoCar, LapsRepair!NoExtraCard
  <1> QED
    BY <1>1, <1>2, <1>3, <1>4, <1>5, <1>6 DEF CarAgrees, SameNumber, NoExtraCard

\* The dash and the pages agree on who commands and on what is in force, for any pages,
\* powers and presses.  They agree on the lap number with any number of undone laps, of
\* laps with cards, or of reloads, each apart from the other two and over any number of
\* broken links with no message lost.  No card is fired for a lap that was not logged,
\* with one message lost too.
THEOREM CarIsAgreed == Spec => []CarAgrees
  <1>1. Init => CarInv
    BY CarStarts
  <1>2. CarInv /\ [Next]_vars => CarInv'
    BY CarNext
  <1>3. CarInv => CarAgrees
    BY CarSound
  <1> QED
    BY <1>1, <1>2, <1>3, PTL DEF Spec
==============================================================================
