------------------------------ MODULE Trackside ------------------------------
(*****************************************************************************)
(* The trackside page of the viewer tool, scene by scene.  The components of *)
(* the page meet through the server and through the browser's stores, which  *)
(* each of them models with what it does to them; a behaviour of this        *)
(* specification plays one component, in the conditions of its scene, and    *)
(* the configuration says which scenes are played.  The components with      *)
(* theorems come first, each with its instances, its invariant and the       *)
(* lemmas about its steps; then the others, Init, Next, Spec, the properties *)
(* and the theorems.                                                         *)
(*****************************************************************************)
EXTENDS Integers, Sequences, TLC, TLAPS

CONSTANTS
    Scenes,
    None,
    Asked,
    SeatClients, SeatAdmins, SeatStarter, Seats, SeatInFlight, SeatTrouble,
    FeedStreams, FeedCalls, FeedPresses, FeedFaults, FeedOutages,
    GateMinLap, GateMinSector, GateWindow, GateFresh, GateSplits, GateUntil, GateLaps,
    GateReloads,
    EndSessions, EndLaps, EndSaves, EndReloads, EndLosses,
    BackSessions, BackLaps, BackSaves, BackReloads, BackFlags, BackLosses,
    DayMoves, DaySessions, DayPackets, DayFlags,
    LossyMoves, LossyPackets, LossyFlags, DayLosses, LateCalls

VARIABLES
    scene,
    seatServer, forcing, view, open, posts, answers, trouble,
    intent, ref, timer, calls, source, route, running, connected, broker, mounted,
    presses, faults, outages,
    last, since, lap, timedLaps, total, selected, timedMirror, logged, timedEdits,
    reloads, halted,
    cacheClock, page, mem, found, cacheLocal, indexed, ended, idbQueue, backend, net,
    flagging, cacheMirror, stopped, budget,
    regLocal, regServer, pushes, sync, plan, unsent, regClock, regEdits, loads, fails,
    planLocal, grace, poll, puts, planServer, typed, editors, planEdits,
    days, rows, flagRows, packet, session, dayLaps, flags, setup, lapTimer,
    setupTimer, reqs, dayClock, moves, losses

-----------------------------------------------------------------------------
(* ----- Drive days ----- *)

\* The drive day of a session, with prompt answers; with slow and lost ones.
Days ==
    INSTANCE DriveDays WITH
        Moves <- DayMoves, MaxSessions <- DaySessions, MaxPackets <- DayPackets,
        MaxFlags <- DayFlags, Losses <- 0,
        Slow <- {}, Hasty <- FALSE, Clears <- FALSE, laps <- dayLaps,
        clock <- dayClock
DaysLossy ==
    INSTANCE DriveDays WITH
        Moves <- LossyMoves, MaxSessions <- DaySessions, MaxPackets <- LossyPackets,
        MaxFlags <- LossyFlags, Losses <- DayLosses, Slow <- LateCalls, Hasty <- TRUE,
        Clears <- FALSE,
        laps <- dayLaps, clock <- dayClock

ASSUME DaysBounds ==
    /\ Days!BoundsAssumption
    /\ Days!ModesAssumption
    /\ DaysLossy!BoundsAssumption
    /\ DaysLossy!ModesAssumption

dayVars == <<days, rows, flagRows, packet, session, dayLaps, flags, setup, lapTimer,
    setupTimer, reqs, dayClock, moves, losses>>

(* For any number of moves, sessions, packets and flags.  Flags first: they  *)
(* hold however slow or lost the requests are.                               *)

\* Calls are records of their kind.
Call(r) ==
    /\ r.kind \in {"end", "create", "laps", "setup", "flag"}
    /\ r.kind = "end" => r = [kind |-> "end", day |-> r.day, next |-> r.next]
    /\ r.kind = "create" => r = [kind |-> "create", id |-> r.id, setup |-> r.setup]
    /\ r.kind = "laps" => r = [kind |-> "laps", day |-> r.day, laps |-> r.laps,
                               cleared |-> r.cleared]
    /\ r.kind = "setup" => r = [kind |-> "setup", day |-> r.day, setup |-> r.setup]
    /\ r.kind = "flag" => r = [kind |-> "flag", t |-> r.t, answer |-> r.answer]
Calls == \A r \in reqs : Call(r)

SessionRow == [id : Nat, day : Nat \cup {None}, started : Nat]

IsSeq(q) == q \in Seq({q[i] : i \in DOMAIN q})

\* The clock is ahead of every flag, on the page, on its way or stored.
FlagInv ==
    /\ dayClock \in Nat /\ Calls
    /\ \A r \in reqs : r.kind = "flag" => r.t \in 0..dayClock
    /\ \A r \in flagRows : r.t \in 0..dayClock
    /\ \A f \in flags : f = [t |-> f.t, saved |-> f.saved] /\ f.t \in 0..dayClock
    /\ session \in SessionRow \cup {None} /\ (session # None => session.started <= dayClock)
    /\ IsSeq(days) /\ IsSeq(dayLaps)
    /\ DaysLossy!FlagsOnce /\ DaysLossy!FlagsOwn

DayRow == [active : BOOLEAN, from : Nat, to : Nat \cup {None}, setup : Nat, of : Nat]
Linked == session # None /\ session.day # None
Opening(r) == r.kind \in {"end", "create"}
RowsOf(d) == {w.lap : w \in {x \in rows : x.day = d}}

DayShape ==
    /\ days \in Seq(DayRow) /\ dayLaps \in Seq(SUBSET Nat)
    /\ packet \in Nat /\ dayClock \in Nat /\ setup \in Nat /\ losses \in Nat
    /\ lapTimer \in BOOLEAN /\ setupTimer \in BOOLEAN
    /\ session \in SessionRow \cup {None}
    /\ session # None => session.id = Len(dayLaps) /\ session.id >= 1
    /\ Linked => session.day \in DOMAIN days
    /\ \A d \in DOMAIN days : days[d].of \in DOMAIN dayLaps
    /\ lapTimer \/ setupTimer => Linked

\* One day is being opened at a time, for the session under way, which has none yet.
LinkInv ==
    /\ session # None => \A d \in DOMAIN days : days[d].of = session.id <=> d = session.day
    /\ \A r, s \in reqs : Opening(r) /\ Opening(s) => r = s
    /\ \A r \in reqs : Opening(r) => ~ Linked
    /\ \A r \in reqs : r.kind = "end" /\ r.next # None => session # None /\ session.id = r.next
    /\ \A r \in reqs : r.kind = "create" => session # None /\ session.id = r.id

\* The last day alone may be open; it is closed before the next is made.
RangeInv ==
    /\ \A d \in DOMAIN days : days[d].active <=> days[d].to = None
    /\ Days!RangesApart
    /\ \A r \in reqs : r.kind = "end" /\ r.day # None => r.day \in DOMAIN days /\ days[r.day].active
    /\ \A r \in reqs : r.kind = "create" => \A d \in DOMAIN days : ~ days[d].active
    /\ Linked => days[session.day].active

\* Each day has its laps, or a request or the timer brings them.
LapInv ==
    /\ \A r \in reqs : r.kind = "laps" =>
          /\ r.day \in DOMAIN days /\ r.laps = dayLaps[days[r.day].of]
          /\ r.cleared => RowsOf(r.day) \subseteq r.laps
    /\ \A d \in DOMAIN days :
          \/ RowsOf(d) = dayLaps[days[d].of]
          \/ Linked /\ session.day = d /\ lapTimer
          \/ \E r \in reqs : r.kind = "laps" /\ r.day = d

\* So with the setup.  A field not filled in yet is filled in nowhere.
SetupInv ==
    /\ setup = 0 => \A d \in DOMAIN days : days[d].setup = 0
    /\ \A r \in reqs : r.kind = "setup" => r.day \in DOMAIN days /\ r.setup = setup
    /\ \A r \in reqs : r.kind = "create" => r.setup = setup
    /\ Linked => \/ days[session.day].setup = setup \/ setupTimer
                 \/ \E r \in reqs : r.kind = "setup" /\ r.day = session.day

DayInv == DayShape /\ Calls /\ LinkInv /\ RangeInv /\ LapInv /\ SetupInv

LEMMA SeqAppend ==
    ASSUME NEW q, IsSeq(q), NEW x
    PROVE  IsSeq(Append(q, x)) /\ Len(q) \in Nat /\ Len(Append(q, x)) = Len(q) + 1
<1> DEFINE S == {q[i] : i \in DOMAIN q}
           a == Append(q, x)
<1>1. q \in Seq(S) /\ Len(q) \in Nat /\ DOMAIN q = 1..Len(q)
    BY DEF IsSeq
<1>2. q \in Seq(S \cup {x})
    BY <1>1
<1>3. a \in Seq(S \cup {x}) /\ Len(a) = Len(q) + 1 /\ DOMAIN a = 1..Len(a)
    BY <1>2
<1>4. a \in Seq({a[i] : i \in DOMAIN a})
    BY <1>3
<1> QED
    BY <1>1, <1>3, <1>4 DEF IsSeq

LEMMA SeqExcept ==
    ASSUME NEW q, IsSeq(q), NEW d, NEW v
    PROVE  IsSeq([q EXCEPT ![d] = v]) /\ Len([q EXCEPT ![d] = v]) = Len(q)
<1> DEFINE a == [q EXCEPT ![d] = v]
           b == [i \in 1..Len(q) |-> IF i = d THEN v ELSE q[i]]
           S == {a[i] : i \in DOMAIN a}
<1>1. Len(q) \in Nat /\ DOMAIN q = 1..Len(q)
    BY DEF IsSeq
<1>2. a = b
    BY <1>1 DEF IsSeq
<1>3. \A i \in 1..Len(q) : b[i] \in S
    BY <1>1, <1>2
<1>4. \A i \in 1..Len(q) : (IF i = d THEN v ELSE q[i]) \in S
    BY <1>3
<1> HIDE DEF S
<1>5. b \in Seq(S) /\ Len(b) = Len(q)
    BY <1>1, <1>4
<1> QED
    BY <1>2, <1>5 DEF IsSeq, S

LEMMA ClearedCall ==
    ASSUME NEW d, NEW l, NEW c
    PROVE  [[kind |-> "laps", day |-> d, laps |-> l, cleared |-> c] EXCEPT !.cleared = TRUE]
             = [kind |-> "laps", day |-> d, laps |-> l, cleared |-> TRUE]
<1>1. \A v : [[kind |-> "laps", day |-> d, laps |-> l, cleared |-> c] EXCEPT !.cleared = v]
             = [kind |-> "laps", day |-> d, laps |-> l, cleared |-> v]
    OBVIOUS
<1> QED
    BY <1>1, Zenon

\* The calls the page and the routes make.
LEMMA CallKinds ==
    /\ \A x, y : Call([kind |-> "end", day |-> x, next |-> y])
    /\ \A x, y : Call([kind |-> "create", id |-> x, setup |-> y])
    /\ \A x, y, z : Call([kind |-> "laps", day |-> x, laps |-> y, cleared |-> z])
    /\ \A x, y : Call([kind |-> "setup", day |-> x, setup |-> y])
    /\ \A x, y : Call([kind |-> "flag", t |-> x, answer |-> y])
BY DEF Call

\* What a step does to the flags: nothing but forget calls, or make others.
FlagsRest ==
    /\ UNCHANGED <<flags, flagRows, session>>
    /\ dayClock' \in Nat /\ dayClock <= dayClock'
    /\ \A r \in reqs' : r \in reqs \/ (Call(r) /\ r.kind # "flag")
    /\ IsSeq(days') /\ IsSeq(dayLaps')

LEMMA FlagsRestStep == FlagInv /\ FlagsRest => FlagInv'
<1> SUFFICES ASSUME FlagInv, FlagsRest PROVE FlagInv'
    OBVIOUS
<1>1. dayClock \in Nat /\ dayClock' \in Nat /\ dayClock <= dayClock'
    BY DEF FlagInv, FlagsRest
<1>2. \A t \in 0..dayClock : t \in 0..dayClock'
    BY <1>1
<1>3. Calls' /\ \A r \in reqs' : r.kind = "flag" => r.t \in 0..dayClock'
    BY <1>2 DEF FlagInv, FlagsRest, Calls
<1>4. session' \in SessionRow \cup {None} /\ (session' # None => session'.started <= dayClock')
    BY <1>1 DEF FlagInv, FlagsRest, SessionRow
<1>5. DaysLossy!FlagsOnce' /\ DaysLossy!FlagsOwn'
    BY DEF FlagInv, FlagsRest, DaysLossy!FlagsOnce, DaysLossy!FlagsOwn
<1>6. /\ \A r \in flagRows' : r.t \in 0..dayClock'
      /\ \A f \in flags' : f = [t |-> f.t, saved |-> f.saved] /\ f.t \in 0..dayClock'
    BY <1>2 DEF FlagInv, FlagsRest
<1> QED
    BY <1>1, <1>3, <1>4, <1>5, <1>6 DEF FlagInv, FlagsRest

LEMMA FlagPage ==
    ASSUME FlagInv,
           \/ DaysLossy!Packet \/ DaysLossy!startNewSession \/ DaysLossy!stopEventAndDownload
           \/ DaysLossy!ChangeLap \/ DaysLossy!EditSetup \/ DaysLossy!eventFlag
           \/ DaysLossy!PushLaps \/ DaysLossy!PushSetup \/ DaysLossy!PullFlags
           \/ DaysLossy!OtherFlag
    PROVE  FlagInv'
<1> USE DEF DaysLossy!server, DaysLossy!page, DaysLossy!User
<1>0. /\ dayClock \in Nat /\ dayClock + 1 \in Nat /\ IsSeq(days) /\ IsSeq(dayLaps)
      /\ session \in SessionRow \cup {None}
      /\ None \notin Nat /\ None \notin SessionRow
    BY DaysBounds DEF FlagInv, DaysLossy!BoundsAssumption, SessionRow
<1>1. CASE DaysLossy!Packet
    BY <1>0, <1>1, FlagsRestStep DEF DaysLossy!Packet, FlagsRest
<1>2. CASE DaysLossy!startNewSession
    <2> DEFINE new == [id |-> Len(dayLaps) + 1, day |-> None, started |-> dayClock + 1]
               r == [kind |-> "end", day |-> None, next |-> Len(dayLaps) + 1]
    <2>1. /\ session' = new /\ flags' = {} /\ dayClock' = dayClock + 1
          /\ reqs' = reqs \cup {r} /\ dayLaps' = Append(dayLaps, {})
          /\ UNCHANGED <<flagRows, days>>
        BY <1>2 DEF DaysLossy!startNewSession, DaysLossy!End
    <2>2. IsSeq(dayLaps') /\ Len(dayLaps) \in Nat
        BY <1>0, <2>1, SeqAppend
    <2>3. new \in SessionRow /\ new.started = dayClock + 1
        BY <1>0, <2>2 DEF SessionRow
    <2>4. Call(r) /\ r.kind = "end"
        BY CallKinds
    <2> HIDE DEF new, r
    <2> QED
        BY <1>0, <2>1, <2>2, <2>3, <2>4
        DEF FlagInv, Calls, DaysLossy!FlagsOnce, DaysLossy!FlagsOwn
<1>3. CASE DaysLossy!stopEventAndDownload
    <2> DEFINE r == [kind |-> "end", day |-> None, next |-> None]
               l == [kind |-> "laps", day |-> session.day, laps |-> dayLaps[session.id],
                     cleared |-> FALSE]
    <2>1. /\ session' = None /\ flags' = {} /\ reqs' \subseteq reqs \cup {r, l}
          /\ UNCHANGED <<flagRows, days, dayLaps, dayClock>>
        BY <1>3 DEF DaysLossy!stopEventAndDownload, DaysLossy!End, DaysLossy!LapSync
    <2>2. Call(r) /\ r.kind = "end" /\ Call(l) /\ l.kind = "laps"
        BY CallKinds
    <2> HIDE DEF r, l
    <2> QED
        BY <1>0, <2>1, <2>2 DEF FlagInv, Calls, DaysLossy!FlagsOnce, DaysLossy!FlagsOwn
<1>4. CASE DaysLossy!ChangeLap
    <2>1. PICK v : dayLaps' = [dayLaps EXCEPT ![session.id] = v]
        BY <1>4 DEF DaysLossy!ChangeLap
    <2>2. IsSeq(dayLaps')
        BY <1>0, <2>1, SeqExcept
    <2>3. dayClock' = dayClock + 1 /\ UNCHANGED <<flags, flagRows, session, reqs, days>>
        BY <1>4 DEF DaysLossy!ChangeLap
    <2> QED
        BY <1>0, <2>2, <2>3, FlagsRestStep DEF FlagsRest
<1>5. CASE DaysLossy!EditSetup
    BY <1>0, <1>5, FlagsRestStep DEF DaysLossy!EditSetup, FlagsRest
<1>6. CASE DaysLossy!eventFlag
    <2> DEFINE f == [t |-> dayClock + 1, saved |-> FALSE]
               r == [kind |-> "flag", t |-> dayClock + 1, answer |-> None]
    <2>1. /\ flags' = flags \cup {f} /\ reqs' = reqs \cup {r} /\ dayClock' = dayClock + 1
          /\ session # None /\ UNCHANGED <<flagRows, session, days, dayLaps>>
        BY <1>6 DEF DaysLossy!eventFlag, DaysLossy!Flag
    <2>2. /\ f.t = dayClock + 1 /\ f = [t |-> f.t, saved |-> f.saved]
          /\ Call(r) /\ r.t = dayClock + 1
        BY CallKinds
    <2> HIDE DEF f, r
    <2>3. \A g \in flags : g.t # f.t
        BY <1>0, <2>2 DEF FlagInv
    <2>4. DaysLossy!FlagsOnce' /\ DaysLossy!FlagsOwn'
        BY <1>0, <2>1, <2>2, <2>3
        DEF FlagInv, DaysLossy!FlagsOnce, DaysLossy!FlagsOwn, SessionRow
    <2>5. dayClock + 1 \in 0..dayClock' /\ \A t \in 0..dayClock : t \in 0..dayClock'
        BY <1>0, <2>1
    <2>6. Calls' /\ \A q \in reqs' : q.kind = "flag" => q.t \in 0..dayClock'
        BY <2>1, <2>2, <2>5 DEF FlagInv, Calls
    <2>7. /\ \A q \in flagRows' : q.t \in 0..dayClock'
          /\ \A g \in flags' : g = [t |-> g.t, saved |-> g.saved] /\ g.t \in 0..dayClock'
        BY <2>1, <2>2, <2>5 DEF FlagInv
    <2>8. session' \in SessionRow \cup {None} /\ (session' # None => session'.started <= dayClock')
        BY <1>0, <2>1 DEF FlagInv, SessionRow
    <2> QED
        BY <1>0, <2>1, <2>4, <2>6, <2>7, <2>8 DEF FlagInv
<1>7. CASE DaysLossy!PushLaps
    <2> DEFINE l == [kind |-> "laps", day |-> session.day, laps |-> dayLaps[session.id],
                     cleared |-> FALSE]
    <2>1. reqs' = reqs \cup {l} /\ UNCHANGED <<flags, flagRows, session, days, dayLaps, dayClock>>
        BY <1>7 DEF DaysLossy!PushLaps, DaysLossy!LapSync
    <2>2. Call(l) /\ l.kind = "laps"
        BY CallKinds
    <2> HIDE DEF l
    <2> QED
        BY <1>0, <2>1, <2>2, FlagsRestStep DEF FlagsRest
<1>8. CASE DaysLossy!PushSetup
    <2> DEFINE l == [kind |-> "setup", day |-> session.day, setup |-> setup]
    <2>1. reqs' = reqs \cup {l} /\ UNCHANGED <<flags, flagRows, session, days, dayLaps, dayClock>>
        BY <1>8 DEF DaysLossy!PushSetup, DaysLossy!Update
    <2>2. Call(l) /\ l.kind = "setup"
        BY CallKinds
    <2> HIDE DEF l
    <2> QED
        BY <1>0, <2>1, <2>2, FlagsRestStep DEF FlagsRest
<1>9. CASE DaysLossy!PullFlags
    <2> DEFINE new == {r.t : r \in {r \in flagRows : r.day = DaysLossy!ActiveDay
                                                     /\ r.t >= session.started}}
                        \ {f.t : f \in flags}
    <2>1. /\ session # None /\ flags' = flags \cup {[t |-> t, saved |-> TRUE] : t \in new}
          /\ UNCHANGED <<flagRows, session, days, dayLaps, dayClock, reqs>>
        BY <1>9 DEF DaysLossy!PullFlags
    <2>2. \A t \in new : /\ t \in 0..dayClock /\ t >= session.started
                         /\ \A f \in flags : f.t # t
        BY DEF FlagInv
    <2> HIDE DEF new
    <2>3. ASSUME NEW f \in flags'
          PROVE  \/ f \in flags
                 \/ f.t \in new /\ f = [t |-> f.t, saved |-> TRUE] /\ f.saved = TRUE
        BY <2>1
    <2>4. DaysLossy!FlagsOnce'
        <3> SUFFICES ASSUME NEW f \in flags', NEW g \in flags', f.t = g.t
                     PROVE  f = g
            BY DEF DaysLossy!FlagsOnce
        <3>1. CASE f \in flags /\ g \in flags
            BY <3>1 DEF FlagInv, DaysLossy!FlagsOnce
        <3>2. CASE ~ (f \in flags /\ g \in flags)
            BY <2>2, <2>3, <3>2
        <3> QED
            BY <3>1, <3>2
    <2>5. \A f \in flags' : /\ f = [t |-> f.t, saved |-> f.saved] /\ f.t \in 0..dayClock
                            /\ f.t >= session.started
        BY <2>2, <2>3 DEF FlagInv, DaysLossy!FlagsOwn
    <2> QED
        BY <2>1, <2>4, <2>5 DEF FlagInv, Calls, DaysLossy!FlagsOwn
<1>10. CASE DaysLossy!OtherFlag
    <2> DEFINE w == [day |-> DaysLossy!ActiveDay, t |-> dayClock + 1]
    <2>1. /\ dayClock' = dayClock + 1 /\ flagRows' = flagRows \cup {w}
          /\ UNCHANGED <<flags, session, days, dayLaps, reqs>>
        BY <1>10 DEF DaysLossy!OtherFlag
    <2>2. w.t = dayClock + 1
        OBVIOUS
    <2> HIDE DEF w
    <2>3. dayClock + 1 \in 0..dayClock' /\ \A t \in 0..dayClock : t \in 0..dayClock'
        BY <1>0, <2>1
    <2>4. Calls' /\ \A q \in reqs' : q.kind = "flag" => q.t \in 0..dayClock'
        BY <2>1, <2>3 DEF FlagInv, Calls
    <2>5. /\ \A q \in flagRows' : q.t \in 0..dayClock'
          /\ \A g \in flags' : g = [t |-> g.t, saved |-> g.saved] /\ g.t \in 0..dayClock'
        BY <2>1, <2>2, <2>3 DEF FlagInv
    <2>6. session' \in SessionRow \cup {None} /\ (session' # None => session'.started <= dayClock')
        BY <1>0, <2>1 DEF FlagInv, SessionRow
    <2>7. DaysLossy!FlagsOnce' /\ DaysLossy!FlagsOwn'
        BY <2>1 DEF FlagInv, DaysLossy!FlagsOnce, DaysLossy!FlagsOwn
    <2> QED
        BY <1>0, <2>1, <2>4, <2>5, <2>6, <2>7 DEF FlagInv
<1> QED
    BY <1>1, <1>2, <1>3, <1>4, <1>5, <1>6, <1>7, <1>8, <1>9, <1>10

LEMMA FlagServed ==
    ASSUME FlagInv, NEW r \in reqs, DaysLossy!Served(r) \/ DaysLossy!Lost(r)
    PROVE  FlagInv'
<1> USE DEF DaysLossy!server, DaysLossy!page
<1>0. /\ dayClock \in Nat /\ IsSeq(days) /\ IsSeq(dayLaps) /\ Call(r)
      /\ session \in SessionRow \cup {None}
      /\ None \notin Nat /\ None \notin SessionRow
    BY DaysBounds DEF FlagInv, Calls, DaysLossy!BoundsAssumption, SessionRow
<1>1. CASE DaysLossy!EndFinds(r)
    <2> DEFINE n == [r EXCEPT !.day = DaysLossy!ActiveDay]
    <2>1. r.kind = "end" /\ reqs' \subseteq reqs \cup {n}
          /\ UNCHANGED <<flags, flagRows, session, days, dayLaps, dayClock>>
        BY <1>1 DEF DaysLossy!EndFinds
    <2>2. n = [kind |-> "end", day |-> DaysLossy!ActiveDay, next |-> r.next]
        BY <1>0, <2>1 DEF Call
    <2>3. Call(n) /\ n.kind = "end"
        BY <2>2, CallKinds
    <2> HIDE DEF n
    <2> QED
        BY <1>0, <2>1, <2>3, FlagsRestStep DEF FlagsRest
<1>2. ASSUME DaysLossy!GoOn(r), UNCHANGED <<flags, flagRows, session, dayLaps, dayClock>>,
             IsSeq(days')
      PROVE  FlagInv'
    <2> DEFINE n == [kind |-> "create", id |-> r.next, setup |-> setup]
    <2>1. reqs' \subseteq reqs \cup {n}
        BY <1>2 DEF DaysLossy!GoOn, DaysLossy!Create
    <2>2. Call(n) /\ n.kind = "create"
        BY CallKinds
    <2> HIDE DEF n
    <2> QED
        BY <1>0, <1>2, <2>1, <2>2, FlagsRestStep DEF FlagsRest
<1>3. CASE DaysLossy!EndCloses(r)
    <2>1. IsSeq(days')
        <3>1. CASE r.day = None
            BY <1>0, <1>3, <3>1 DEF DaysLossy!EndCloses
        <3>2. CASE r.day # None
            <4>1. PICK u : u = [days EXCEPT ![r.day].active = FALSE]
                OBVIOUS
            <4>2. IsSeq(u)
                BY <1>0, <4>1, SeqExcept
            <4>3. days' = [u EXCEPT ![r.day].to = packet]
                BY <1>3, <3>2, <4>1 DEF DaysLossy!EndCloses
            <4> QED
                BY <4>2, <4>3, SeqExcept
        <3> QED
            BY <3>1, <3>2
    <2> QED
        BY <1>2, <1>3, <2>1 DEF DaysLossy!EndCloses
<1>4. ASSUME NEW ok \in BOOLEAN, DaysLossy!NewDriveDay(r, ok)
      PROVE  FlagInv'
    <2>1. /\ days' = Append(days, DaysLossy!NewDay(r)) /\ reqs' = reqs \ {r}
          /\ UNCHANGED <<flags, flagRows, dayLaps, dayClock>>
        BY <1>4 DEF DaysLossy!NewDriveDay, DaysLossy!Drop
    <2>2. IsSeq(days') /\ Len(days') \in Nat
        BY <1>0, <2>1, SeqAppend
    <2>3. CASE session' = session
        BY <1>0, <2>1, <2>2, <2>3, FlagsRestStep DEF FlagsRest
    <2>4. CASE session # None /\ session' = [session EXCEPT !.day = Len(days')]
        <3>1. session' \in SessionRow /\ session'.started = session.started
            BY <1>0, <2>2, <2>4 DEF SessionRow
        <3> QED
            BY <1>0, <2>1, <2>2, <2>4, <3>1
            DEF FlagInv, Calls, DaysLossy!FlagsOnce, DaysLossy!FlagsOwn
    <2> QED
        BY <1>4, <2>3, <2>4 DEF DaysLossy!NewDriveDay
<1>5. CASE DaysLossy!LapsCleared(r)
    <2> DEFINE n == [r EXCEPT !.cleared = TRUE]
    <2>1. r.kind = "laps" /\ reqs' \subseteq reqs \cup {n}
          /\ UNCHANGED <<flags, flagRows, session, days, dayLaps, dayClock>>
        BY <1>5 DEF DaysLossy!LapsCleared
    <2>0. PICK d, l, c : r = [kind |-> "laps", day |-> d, laps |-> l, cleared |-> c]
        BY <1>0, <2>1 DEF Call
    <2>2. n = [kind |-> "laps", day |-> d, laps |-> l, cleared |-> TRUE]
        BY <2>0, ClearedCall, Zenon
    <2>3. Call(n) /\ n.kind = "laps"
        BY <2>2, CallKinds
    <2> HIDE DEF n
    <2> QED
        BY <1>0, <2>1, <2>3, FlagsRestStep DEF FlagsRest
<1>6. CASE DaysLossy!LapsStored(r)
    BY <1>0, <1>6, FlagsRestStep DEF DaysLossy!LapsStored, DaysLossy!Drop, FlagsRest
<1>7. CASE DaysLossy!UpdateDriveDay(r)
    <2>1. IsSeq(days')
        BY <1>0, <1>7, SeqExcept DEF DaysLossy!UpdateDriveDay
    <2> QED
        BY <1>0, <1>7, <2>1, FlagsRestStep DEF DaysLossy!UpdateDriveDay, DaysLossy!Drop, FlagsRest
<1>8. CASE DaysLossy!EventFlag(r)
    <2> DEFINE n == [r EXCEPT !.answer = (DaysLossy!ActiveDay # None)]
               w == [day |-> DaysLossy!ActiveDay, t |-> r.t]
    <2>1. /\ r.kind = "flag" /\ reqs' \subseteq reqs \cup {n} /\ flagRows' \subseteq flagRows \cup {w}
          /\ UNCHANGED <<flags, session, days, dayLaps, dayClock>>
        BY <1>8 DEF DaysLossy!EventFlag
    <2>0. r = [kind |-> "flag", t |-> r.t, answer |-> r.answer]
        BY <1>0, <2>1 DEF Call
    <2>2. n = [kind |-> "flag", t |-> r.t, answer |-> (DaysLossy!ActiveDay # None)]
        BY <2>0
    <2>3. Call(n) /\ n.t = r.t /\ w.t = r.t
        BY <2>2, CallKinds
    <2>4. r.t \in 0..dayClock
        BY <2>1 DEF FlagInv
    <2> HIDE DEF n, w
    <2> QED
        BY <1>0, <2>1, <2>3, <2>4 DEF FlagInv, Calls, DaysLossy!FlagsOnce, DaysLossy!FlagsOwn
<1>9. CASE DaysLossy!FlagAnswered(r)
    <2>1. /\ reqs' = reqs \ {r} /\ UNCHANGED <<flagRows, session, days, dayLaps, dayClock>>
          /\ flags' = {IF f.t = r.t THEN [f EXCEPT !.saved = r.answer] ELSE f : f \in flags}
        BY <1>9 DEF DaysLossy!FlagAnswered, DaysLossy!Drop
    <2>2. ASSUME NEW g \in flags'
          PROVE  \E f \in flags : /\ g.t = f.t /\ g = [t |-> g.t, saved |-> g.saved]
                                  /\ g = IF f.t = r.t THEN [f EXCEPT !.saved = r.answer] ELSE f
        <3>1. PICK f \in flags : g = IF f.t = r.t THEN [f EXCEPT !.saved = r.answer] ELSE f
            BY <2>1
        <3>2. f = [t |-> f.t, saved |-> f.saved]
            BY DEF FlagInv
        <3>3. [f EXCEPT !.saved = r.answer] = [t |-> f.t, saved |-> r.answer]
            BY <3>2
        <3>4. g.t = f.t /\ g = [t |-> g.t, saved |-> g.saved]
            BY <3>1, <3>2, <3>3
        <3> QED
            BY <3>1, <3>4
    <2>3. \A f, g \in flags' : f.t = g.t => f = g
        BY <2>2 DEF FlagInv, DaysLossy!FlagsOnce
    <2> QED
        BY <1>0, <2>1, <2>2, <2>3 DEF FlagInv, Calls, DaysLossy!FlagsOnce, DaysLossy!FlagsOwn
<1>10. CASE DaysLossy!Lost(r)
    <2>1. UNCHANGED <<flags, flagRows, session, days, dayLaps, dayClock>>
        BY <1>10 DEF DaysLossy!Lost
    <2>2. CASE r.kind = "end"
        BY <1>0, <1>2, <1>10, <2>1, <2>2 DEF DaysLossy!Lost
    <2>3. CASE r.kind # "end"
        BY <1>0, <1>10, <2>1, <2>3, FlagsRestStep DEF DaysLossy!Lost, DaysLossy!Drop, FlagsRest
    <2> QED
        BY <2>2, <2>3
<1> QED
    BY <1>1, <1>3, <1>4, <1>5, <1>6, <1>7, <1>8, <1>9, <1>10 DEF DaysLossy!Served

-----------------------------------------------------------------------------
(* The day of a session whose requests are answered before the page goes on. *)

LEMMA DayBounds ==
    /\ None \notin Nat /\ None \notin SessionRow
    /\ DayInv /\ session # None => session \in SessionRow /\ session.id \in DOMAIN dayLaps
    /\ DayInv => DOMAIN days = 1..Len(days) /\ Len(days) \in Nat
    /\ DayInv => DOMAIN dayLaps = 1..Len(dayLaps) /\ Len(dayLaps) \in Nat
<1>1. None \notin Nat /\ None \notin SessionRow
    BY DaysBounds DEF Days!BoundsAssumption, SessionRow
<1>2. ASSUME DayInv
      PROVE  /\ DOMAIN days = 1..Len(days) /\ Len(days) \in Nat
             /\ DOMAIN dayLaps = 1..Len(dayLaps) /\ Len(dayLaps) \in Nat
    BY <1>2 DEF DayInv, DayShape
<1>3. ASSUME DayInv, session # None
      PROVE  session \in SessionRow /\ session.id \in DOMAIN dayLaps
    BY <1>2, <1>3 DEF DayInv, DayShape, SessionRow
<1> QED
    BY <1>1, <1>2, <1>3

LEMMA PromptPage ==
    /\ Days!Waits <=> \A r \in reqs : FALSE
    /\ DayInv => ~ losses < 0
BY DEF Days!Waits, DayInv, DayShape

\* The day the routes take for the active one is the last, when that is open.
LEMMA OneActive ==
    ASSUME DayInv
    PROVE  /\ \A d \in DOMAIN days : days[d].active => d = Len(days)
           /\ Days!ActiveDay = None <=> \A d \in DOMAIN days : ~ days[d].active
           /\ Days!ActiveDay # None => /\ Days!ActiveDay = Len(days)
                                       /\ Days!ActiveDay \in DOMAIN days
                                       /\ days[Days!ActiveDay].active
<1>1. DOMAIN days = 1..Len(days) /\ Len(days) \in Nat /\ None \notin Nat
    BY DayBounds
<1>2. ASSUME NEW d \in DOMAIN days, days[d].active
      PROVE  d = Len(days)
    <2>1. days[d].to = None
        BY <1>2 DEF DayInv, RangeInv
    <2>2. d + 1 \in DOMAIN days => days[(d + 1) - 1].to # None
        BY <1>1 DEF DayInv, RangeInv, Days!RangesApart
    <2>3. (d + 1) - 1 = d
        BY <1>1
    <2> QED
        BY <1>1, <2>1, <2>2, <2>3
<1>3. Days!ActiveDays = {d \in DOMAIN days : days[d].active}
    BY DEF Days!ActiveDays
<1>4. CASE Days!ActiveDays = {}
    BY <1>2, <1>3, <1>4 DEF Days!ActiveDay
<1>5. CASE Days!ActiveDays # {}
    <2>1. Days!ActiveDays = {Len(days)} /\ Len(days) \in DOMAIN days /\ days[Len(days)].active
        BY <1>2, <1>3, <1>5
    <2>2. Days!Max(Days!ActiveDays) = Len(days)
        BY <1>1, <2>1 DEF Days!Max
    <2>3. Days!ActiveDay = Len(days)
        BY <1>5, <2>2 DEF Days!ActiveDay
    <2> QED
        BY <1>1, <1>2, <2>1, <2>3
<1> QED
    BY <1>4, <1>5

\* Steps that leave the day alone: packets, and what is about flags.
DayRest ==
    /\ UNCHANGED <<days, rows, session, dayLaps, setup, lapTimer, setupTimer>>
    /\ packet' \in Nat /\ dayClock' \in Nat /\ losses' \in Nat
    /\ \A r \in reqs' : r \in reqs \/ (Call(r) /\ r.kind = "flag")
    /\ \A r \in reqs : r \in reqs' \/ r.kind = "flag"

LEMMA DayRestStep == DayInv /\ DayRest => DayInv'
<1> SUFFICES ASSUME DayInv, DayRest PROVE DayInv'
    OBVIOUS
<1>1. UNCHANGED <<days, rows, session, dayLaps, setup, lapTimer, setupTimer>>
    BY DEF DayRest
<1>2. \A r \in reqs' : r \in reqs \/ (Call(r) /\ r.kind = "flag")
    BY DEF DayRest
<1>3. \A r \in reqs : r \in reqs' \/ r.kind = "flag"
    BY DEF DayRest
<1>4. DayShape' /\ Calls'
    BY <1>1, <1>2 DEF DayRest, DayInv, DayShape, Calls, Linked
<1>5. LinkInv'
    BY <1>1, <1>2 DEF DayInv, LinkInv, Linked, Opening
<1>6. RangeInv'
    BY <1>1, <1>2 DEF DayInv, RangeInv, Linked, Days!RangesApart
<1>7. LapInv'
    BY <1>1, <1>2, <1>3 DEF DayInv, LapInv, Linked, RowsOf
<1>8. SetupInv'
    BY <1>1, <1>2, <1>3 DEF DayInv, SetupInv, Linked
<1> QED
    BY <1>4, <1>5, <1>6, <1>7, <1>8 DEF DayInv

\* The page's steps are taken with no request under way.
LEMMA DayPage ==
    ASSUME DayInv,
           \/ Days!startNewSession \/ Days!stopEventAndDownload \/ Days!ChangeLap
           \/ Days!EditSetup \/ Days!PushLaps \/ Days!PushSetup
    PROVE  DayInv'
<1> USE DEF Days!server, Days!page, Days!User
<1>0. /\ DayShape /\ LinkInv /\ RangeInv /\ LapInv /\ SetupInv
      /\ None \notin Nat /\ None \notin SessionRow
      /\ DOMAIN days = 1..Len(days) /\ Len(days) \in Nat
      /\ DOMAIN dayLaps = 1..Len(dayLaps) /\ Len(dayLaps) \in Nat
      /\ session # None => session \in SessionRow /\ session.id \in DOMAIN dayLaps
    BY DayBounds DEF DayInv
<1>w. reqs = {}
    BY PromptPage DEF Days!startNewSession, Days!stopEventAndDownload, Days!ChangeLap,
        Days!EditSetup, Days!PushLaps, Days!PushSetup
<1>1. CASE Days!startNewSession
    <2> DEFINE new == [id |-> Len(dayLaps) + 1, day |-> None, started |-> dayClock + 1]
               r == [kind |-> "end", day |-> None, next |-> Len(dayLaps) + 1]
    <2>1. /\ session' = new /\ dayClock' = dayClock + 1 /\ ~ lapTimer
          /\ reqs' = {r} /\ dayLaps' = Append(dayLaps, {})
          /\ lapTimer' = FALSE /\ setupTimer' = FALSE
          /\ UNCHANGED <<days, rows, packet, setup, losses>>
        BY <1>1, <1>w DEF Days!startNewSession, Days!End
    <2>2. /\ new \in SessionRow /\ new.id = Len(dayLaps) + 1 /\ new.day = None
          /\ Call(r) /\ r.kind = "end" /\ r.day = None /\ r.next = Len(dayLaps) + 1
        BY <1>0, CallKinds DEF SessionRow, DayShape
    <2> HIDE DEF new, r
    <2>3. /\ dayLaps' \in Seq(SUBSET Nat) /\ Len(dayLaps') = Len(dayLaps) + 1
          /\ DOMAIN dayLaps' = 1..(Len(dayLaps) + 1)
          /\ \A i \in DOMAIN dayLaps : dayLaps'[i] = dayLaps[i]
        BY <1>0, <2>1 DEF DayShape
    <2>a. session' \in SessionRow /\ session' # None /\ session'.day = None
          /\ session'.id = Len(dayLaps) + 1 /\ Len(dayLaps) + 1 >= 1 /\ ~ Linked'
        BY <1>0, <2>1, <2>2 DEF Linked
    <2>b. \A d \in DOMAIN days : days[d].of \in DOMAIN dayLaps'
        BY <1>0, <2>3 DEF DayShape
    <2>c. Calls'
        BY <2>1, <2>2 DEF Calls
    <2>f. ~ lapTimer' /\ ~ setupTimer' /\ lapTimer' \in BOOLEAN /\ setupTimer' \in BOOLEAN
        BY <2>1, Zenon
    <2>e. dayClock' \in Nat
        BY <1>0, <2>1 DEF DayShape
    <2>4. DayShape'
        BY <1>0, <2>1, <2>3, <2>a, <2>b, <2>e, <2>f DEF DayShape
    <2>5. \A d \in DOMAIN days : days[d].of # Len(dayLaps) + 1 /\ d # None
        BY <1>0 DEF DayShape
    <2>d. \A d \in DOMAIN days : days[d].of = session'.id <=> d = session'.day
        BY <2>5, <2>a
    <2>6. LinkInv'
        BY <2>1, <2>2, <2>a, <2>d DEF LinkInv, Opening
    <2>7. RangeInv'
        BY <1>0, <2>1, <2>2 DEF RangeInv, Linked, Days!RangesApart
    <2>8. \A d \in DOMAIN days : RowsOf(d) = dayLaps[days[d].of]
        BY <1>0, <1>w, <2>1 DEF LapInv
    <2>9. \A d \in DOMAIN days : dayLaps'[days[d].of] = dayLaps[days[d].of]
        BY <1>0, <2>3 DEF DayShape
    <2>10. LapInv'
        BY <2>1, <2>2, <2>8, <2>9 DEF LapInv, RowsOf
    <2>11. SetupInv'
        BY <1>0, <2>1, <2>2 DEF SetupInv, Linked
    <2> QED
        BY <2>4, <2>6, <2>7, <2>10, <2>11, <2>c DEF DayInv
<1>2. CASE Days!stopEventAndDownload
    <2> DEFINE r == [kind |-> "end", day |-> None, next |-> None]
               l == [kind |-> "laps", day |-> session.day, laps |-> dayLaps[session.id],
                     cleared |-> FALSE]
    <2>1. /\ session # None /\ session' = None
          /\ reqs' = {r} \cup (IF session.day = None THEN {} ELSE {l})
          /\ lapTimer' = FALSE /\ setupTimer' = FALSE
          /\ UNCHANGED <<days, rows, packet, setup, losses, dayLaps, dayClock>>
        BY <1>2, <1>w DEF Days!stopEventAndDownload, Days!End, Days!LapSync
    <2>2. /\ Call(r) /\ r.kind = "end" /\ r.day = None /\ r.next = None
          /\ Call(l) /\ l.kind = "laps" /\ l.day = session.day /\ ~ l.cleared
          /\ l.laps = dayLaps[session.id]
        BY CallKinds
    <2> HIDE DEF r, l
    <2>3. DayShape' /\ Calls'
        BY <1>0, <2>1, <2>2 DEF DayShape, Calls, Linked
    <2>4. LinkInv' /\ RangeInv' /\ SetupInv'
        BY <1>0, <2>1, <2>2 DEF LinkInv, RangeInv, SetupInv, Linked, Opening, Days!RangesApart
    <2>5. session.day # None => /\ session.day \in DOMAIN days
                                /\ days[session.day].of = session.id
        BY <1>0, <2>1 DEF DayShape, LinkInv, Linked
    <2>6. LapInv'
        BY <1>0, <1>w, <2>1, <2>2, <2>5, ZenonT(60) DEF LapInv, Linked, RowsOf
    <2> QED
        BY <2>3, <2>4, <2>6 DEF DayInv
<1>3. CASE Days!ChangeLap
    <2>1. /\ session # None /\ dayClock' = dayClock + 1
          /\ lapTimer' = (session.day # None)
          /\ UNCHANGED <<days, rows, packet, setup, losses, session, setupTimer, reqs>>
        BY <1>3 DEF Days!ChangeLap
    <2>2. PICK v \in SUBSET Nat : dayLaps' = [dayLaps EXCEPT ![session.id] = v]
        <3>1. dayLaps[session.id] \subseteq Nat /\ dayClock + 1 \in Nat
            BY <1>0, <2>1 DEF DayShape
        <3> QED
            BY <1>3, <2>1, <3>1 DEF Days!ChangeLap
    <2>3. /\ dayLaps' \in Seq(SUBSET Nat) /\ Len(dayLaps') = Len(dayLaps)
          /\ DOMAIN dayLaps' = DOMAIN dayLaps
          /\ \A i \in DOMAIN dayLaps : i # session.id => dayLaps'[i] = dayLaps[i]
        BY <1>0, <2>1, <2>2 DEF DayShape
    <2>4. DayShape' /\ Calls'
        BY <1>0, <1>w, <2>1, <2>3 DEF DayShape, Calls, Linked
    <2>5. LinkInv' /\ RangeInv' /\ SetupInv'
        BY <1>0, <1>w, <2>1 DEF LinkInv, RangeInv, SetupInv, Linked, Opening, Days!RangesApart
    <2>6. ASSUME NEW d \in DOMAIN days
          PROVE  RowsOf(d) = dayLaps'[days[d].of] \/ (d = session.day /\ d # None)
        <3>1. CASE days[d].of = session.id
            BY <1>0, <2>1, <3>1 DEF LinkInv
        <3>2. CASE days[d].of # session.id
            BY <1>0, <1>w, <2>3, <3>2 DEF LapInv, DayShape
        <3> QED
            BY <3>1, <3>2
    <2>7. LapInv'
        BY <1>w, <2>1, <2>6 DEF LapInv, Linked, RowsOf
    <2> QED
        BY <2>4, <2>5, <2>7 DEF DayInv
<1>4. CASE Days!EditSetup
    <2>1. /\ setup' \in Nat /\ setup' # 0 /\ setupTimer' = (session # None /\ session.day # None)
          /\ UNCHANGED <<days, rows, packet, losses, session, lapTimer, reqs, dayLaps, dayClock>>
        BY <1>4 DEF Days!EditSetup, Days!Setups
    <2>2. setupTimer' \in BOOLEAN /\ (setupTimer' <=> Linked)
        BY <2>1 DEF Linked
    <2>3. DayShape' /\ Calls'
        BY <1>0, <1>w, <2>1, <2>2 DEF DayShape, Calls, Linked
    <2>4. LinkInv' /\ RangeInv' /\ LapInv'
        BY <1>0, <1>w, <2>1 DEF LinkInv, RangeInv, LapInv, Linked, Opening, RowsOf, Days!RangesApart
    <2>5. SetupInv'
        BY <1>w, <2>1, <2>2 DEF SetupInv, Linked
    <2> QED
        BY <2>3, <2>4, <2>5 DEF DayInv
<1>5. CASE Days!PushLaps
    <2> DEFINE l == [kind |-> "laps", day |-> session.day, laps |-> dayLaps[session.id],
                     cleared |-> FALSE]
    <2>1. /\ reqs' = {l} /\ lapTimer /\ lapTimer' = FALSE
          /\ UNCHANGED <<days, rows, packet, setup, losses, session, setupTimer, dayLaps, dayClock>>
        BY <1>5, <1>w DEF Days!PushLaps, Days!LapSync
    <2>2. /\ Call(l) /\ l.kind = "laps" /\ l.day = session.day /\ ~ l.cleared
          /\ l.laps = dayLaps[session.id]
        BY CallKinds
    <2> HIDE DEF l
    <2>3. Linked /\ session.day \in DOMAIN days /\ days[session.day].of = session.id
        BY <1>0, <2>1 DEF DayShape, LinkInv, Linked
    <2>4. DayShape' /\ Calls'
        BY <1>0, <2>1, <2>2 DEF DayShape, Calls, Linked
    <2>5. LinkInv' /\ RangeInv'
        BY <1>0, <1>w, <2>1, <2>2 DEF LinkInv, RangeInv, Linked, Opening, Days!RangesApart
    <2>6. LapInv'
        BY <1>0, <1>w, <2>1, <2>2, <2>3, ZenonT(60) DEF LapInv, Linked, RowsOf
    <2>7. SetupInv'
        BY <1>0, <1>w, <2>1, <2>2 DEF SetupInv, Linked
    <2> QED
        BY <2>4, <2>5, <2>6, <2>7 DEF DayInv
<1>6. CASE Days!PushSetup
    <2> DEFINE l == [kind |-> "setup", day |-> session.day, setup |-> setup]
    <2>1. /\ reqs' = {l} /\ setupTimer /\ setupTimer' = FALSE
          /\ UNCHANGED <<days, rows, packet, setup, losses, session, lapTimer, dayLaps, dayClock>>
        BY <1>6, <1>w DEF Days!PushSetup, Days!Update
    <2>2. Call(l) /\ l.kind = "setup" /\ l.day = session.day /\ l.setup = setup
        BY CallKinds
    <2> HIDE DEF l
    <2>3. Linked /\ session.day \in DOMAIN days
        BY <1>0, <2>1 DEF DayShape, Linked
    <2>4. DayShape' /\ Calls'
        BY <1>0, <2>1, <2>2 DEF DayShape, Calls, Linked
    <2>5. LinkInv' /\ RangeInv'
        BY <1>0, <1>w, <2>1, <2>2 DEF LinkInv, RangeInv, Linked, Opening, Days!RangesApart
    <2>6. LapInv'
        BY <1>0, <1>w, <2>1, <2>2 DEF LapInv, Linked, RowsOf
    <2>7. SetupInv'
        BY <1>0, <1>w, <2>1, <2>2, <2>3 DEF SetupInv, Linked
    <2> QED
        BY <2>4, <2>5, <2>6, <2>7 DEF DayInv
<1> QED
    BY <1>1, <1>2, <1>3, <1>4, <1>5, <1>6

\* The routes' answers, in any order.
LEMMA DayServed ==
    ASSUME DayInv, NEW r \in reqs, Days!Served(r) \/ Days!Lost(r)
    PROVE  DayInv'
<1> USE DEF Days!server, Days!page
<1>0. /\ DayShape /\ LinkInv /\ RangeInv /\ LapInv /\ SetupInv /\ Calls /\ Call(r)
      /\ None \notin Nat /\ None \notin SessionRow
      /\ DOMAIN days = 1..Len(days) /\ Len(days) \in Nat
      /\ DOMAIN dayLaps = 1..Len(dayLaps) /\ Len(dayLaps) \in Nat
      /\ session # None => session \in SessionRow /\ session.id \in DOMAIN dayLaps
    BY DayBounds DEF DayInv, Calls
<1>w. ~ losses < 0
    BY PromptPage
<1>1. CASE Days!EndFinds(r)
    <2> DEFINE n == [r EXCEPT !.day = Days!ActiveDay]
    <2>1. /\ r.kind = "end" /\ r.day = None /\ Days!ActiveDay # None
          /\ reqs' = (reqs \ {r}) \cup {n}
          /\ UNCHANGED <<days, rows, packet, setup, losses, session, lapTimer, setupTimer,
                         dayLaps, dayClock>>
        BY <1>1 DEF Days!EndFinds
    <2>2. PICK x, y : r = [kind |-> "end", day |-> x, next |-> y]
        BY <1>0, <2>1 DEF Call
    <2>3. n = [kind |-> "end", day |-> Days!ActiveDay, next |-> r.next]
        BY <2>2
    <2>4. Call(n) /\ n.kind = "end" /\ n.day = Days!ActiveDay /\ n.next = r.next
        BY <2>3, CallKinds
    <2> HIDE DEF n
    <2>5. n.day \in DOMAIN days /\ days[n.day].active
        BY <2>1, <2>4, OneActive
    <2>6. DayShape' /\ Calls'
        BY <1>0, <2>1, <2>4 DEF DayShape, Calls, Linked
    <2>7. LinkInv'
        BY <1>0, <2>1, <2>4 DEF LinkInv, Linked, Opening
    <2>8. RangeInv'
        BY <1>0, <2>1, <2>4, <2>5 DEF RangeInv, Linked, Days!RangesApart
    <2>9. LapInv'
        BY <1>0, <2>1, <2>4 DEF LapInv, Linked, RowsOf
    <2>10. SetupInv'
        BY <1>0, <2>1, <2>4 DEF SetupInv, Linked
    <2> QED
        BY <2>6, <2>7, <2>8, <2>9, <2>10 DEF DayInv
<1>2. CASE Days!EndCloses(r)
    <2> DEFINE n == [kind |-> "create", id |-> r.next, setup |-> setup]
    <2>1. /\ r.kind = "end" /\ reqs' = (reqs \ {r}) \cup (IF r.next = None THEN {} ELSE {n})
          /\ UNCHANGED <<rows, packet, setup, losses, session, lapTimer, setupTimer,
                         dayLaps, dayClock>>
        BY <1>2 DEF Days!EndCloses, Days!GoOn, Days!Create
    <2>2. Call(n) /\ n.kind = "create" /\ n.id = r.next /\ n.setup = setup
        BY CallKinds
    <2> HIDE DEF n
    <2>3. ~ Linked /\ \A s \in reqs : Opening(s) => s = r
        BY <1>0, <2>1 DEF LinkInv, Opening
    <2>4. /\ days' \in Seq(DayRow) /\ DOMAIN days' = DOMAIN days
          /\ \A d \in DOMAIN days : /\ days'[d].of = days[d].of /\ days'[d].setup = days[d].setup
                                    /\ days'[d].from = days[d].from
                                    /\ ~ days'[d].active /\ days'[d].to \in Nat
                                    /\ d # Len(days) => days'[d].to = days[d].to
        <3>1. CASE r.day = None
            <4>1. days' = days /\ Days!ActiveDay = None
                BY <1>2, <3>1 DEF Days!EndCloses
            <4>2. \A d \in DOMAIN days : ~ days[d].active
                BY <4>1, OneActive
            <4>3. \A d \in DOMAIN days : days[d].to # None /\ days[d] \in DayRow
                BY <1>0, <4>2 DEF RangeInv, DayShape
            <4> QED
                BY <1>0, <4>1, <4>2, <4>3 DEF DayRow, DayShape
        <3>2. CASE r.day # None
            <4>1. days' = [days EXCEPT ![r.day].active = FALSE, ![r.day].to = packet]
                BY <1>2, <3>2 DEF Days!EndCloses
            <4>2. r.day \in DOMAIN days /\ r.day = Len(days) /\ packet \in Nat /\ days[r.day] \in DayRow
                BY <1>0, <2>1, <3>2, OneActive DEF RangeInv, DayShape
            <4> DEFINE b == days[r.day]
            <4>a. b = [active |-> b.active, from |-> b.from, to |-> b.to, setup |-> b.setup,
                       of |-> b.of]
                BY <4>2 DEF DayRow
            <4>b. PICK u, x, y, z, v : b = [active |-> u, from |-> x, to |-> y, setup |-> z, of |-> v]
                BY <4>a
            <4> DEFINE c == [active |-> FALSE, from |-> x, to |-> packet, setup |-> z, of |-> v]
            <4>c. [[days[r.day] EXCEPT !.active = FALSE] EXCEPT !.to = packet] = c
                <5> DEFINE R(f, t) == [active |-> f, from |-> x, to |-> t, setup |-> z, of |-> v]
                <5>1. \A f : [R(u, y) EXCEPT !.active = f] = R(f, y)
                    OBVIOUS
                <5>2. \A f : [R(f, y) EXCEPT !.to = packet] = R(f, packet)
                    OBVIOUS
                <5>3. [R(u, y) EXCEPT !.active = FALSE] = R(FALSE, y)
                    BY <5>1, Zenon
                <5>4. [R(FALSE, y) EXCEPT !.to = packet] = R(FALSE, packet)
                    BY <5>2, Zenon
                <5>5. c = R(FALSE, packet) /\ days[r.day] = R(u, y)
                    BY <4>b
                <5> HIDE DEF R, c
                <5> QED
                    BY <5>3, <5>4, <5>5, Zenon
            <4>d. days' = [days EXCEPT ![r.day] = c]
                BY <1>0, <4>1, <4>2, <4>c DEF DayShape
            <4>3. /\ days' = [days EXCEPT ![r.day] = c] /\ c \in DayRow
                  /\ ~ c.active /\ c.to = packet /\ c.of = days[r.day].of
                  /\ c.from = days[r.day].from /\ c.setup = days[r.day].setup
                BY <4>2, <4>b, <4>d DEF DayRow
            <4> HIDE DEF c
            <4>4. ASSUME NEW d \in DOMAIN days, d # Len(days)
                  PROVE  ~ days[d].active /\ days[d].to \in Nat
                <5>1. ~ days[d].active /\ days[d].to # None /\ days[d] \in DayRow
                    BY <1>0, <4>4, OneActive DEF RangeInv, DayShape
                <5> QED
                    BY <5>1 DEF DayRow
            <4>5. days' \in Seq(DayRow) /\ DOMAIN days' = DOMAIN days
                BY <1>0, <4>2, <4>3 DEF DayShape
            <4>6. /\ days'[r.day] = c /\ \A d \in DOMAIN days : d # r.day => days'[d] = days[d]
                BY <1>0, <4>2, <4>3 DEF DayShape
            <4> QED
                BY <4>2, <4>3, <4>4, <4>5, <4>6
        <3> QED
            BY <3>1, <3>2
    <2>5. DayShape' /\ Calls'
        BY <1>0, <2>1, <2>2, <2>4 DEF DayShape, Calls, Linked
    <2>6. LinkInv'
        BY <1>0, <2>1, <2>2, <2>3, <2>4 DEF LinkInv, Linked, Opening
    <2>7. RangeInv'
        <3>1. Days!RangesApart'
            <4> SUFFICES ASSUME NEW d \in DOMAIN days \ {1}
                         PROVE  days'[d - 1].to # None /\ days'[d].from >= days'[d - 1].to
                BY <2>4 DEF Days!RangesApart
            <4>1. d - 1 \in DOMAIN days /\ d - 1 # Len(days)
                BY <1>0
            <4>2. days[d - 1].to # None /\ days[d].from >= days[d - 1].to
                BY <1>0 DEF RangeInv, Days!RangesApart
            <4> QED
                BY <2>4, <4>1, <4>2
        <3>2. \A d \in DOMAIN days' : days'[d].active <=> days'[d].to = None
            BY <1>0, <2>4
        <3>3. \A s \in reqs' : s.kind = "end" => FALSE
            BY <2>1, <2>2, <2>3 DEF Opening
        <3>4. ~ Linked'
            BY <2>1, <2>3 DEF Linked
        <3> QED
            BY <2>4, <3>1, <3>2, <3>3, <3>4 DEF RangeInv
    <2>8. LapInv'
        <3>1. \A d : RowsOf(d)' = RowsOf(d)
            BY <2>1 DEF RowsOf
        <3>2. \A s \in reqs' : s.kind = "laps" =>
                  /\ s.day \in DOMAIN days' /\ s.laps = dayLaps'[days'[s.day].of]
                  /\ s.cleared => RowsOf(s.day)' \subseteq s.laps
            BY <1>0, <2>1, <2>2, <2>4, <3>1 DEF LapInv
        <3>3. ASSUME NEW d \in DOMAIN days'
              PROVE  \/ RowsOf(d)' = dayLaps'[days'[d].of]
                     \/ Linked' /\ session'.day = d /\ lapTimer'
                     \/ \E s \in reqs' : s.kind = "laps" /\ s.day = d
            BY <1>0, <2>1, <2>2, <2>4, <3>1 DEF LapInv, Linked
        <3> QED
            BY <3>2, <3>3 DEF LapInv
    <2>9. SetupInv'
        BY <1>0, <2>1, <2>2, <2>3, <2>4 DEF SetupInv, Linked
    <2> QED
        BY <2>5, <2>6, <2>7, <2>8, <2>9 DEF DayInv
<1>3. CASE Days!NewDriveDay(r, TRUE)
    <2> DEFINE n == Days!NewDay(r)
               k == Len(days) + 1
    <2>1. /\ r.kind = "create" /\ reqs' = reqs \ {r} /\ days' = Append(days, n)
          /\ UNCHANGED <<rows, packet, setup, losses, dayLaps, dayClock>>
        BY <1>3 DEF Days!NewDriveDay, Days!Drop
    <2>2. session # None /\ session.id = r.id /\ ~ Linked /\ \A s \in reqs : Opening(s) => s = r
        BY <1>0, <2>1 DEF LinkInv, Opening
    <2>3. r.setup = setup /\ \A d \in DOMAIN days : ~ days[d].active /\ days[d].to # None
        BY <1>0, <2>1 DEF RangeInv, SetupInv
    <2>0. \A d \in DOMAIN days : days[d] \in DayRow
        BY <1>0 DEF DayShape
    <2>4. \A d \in DOMAIN days : days[d].to \in Nat
        BY <2>0, <2>3 DEF DayRow
    <2>5. /\ n.active = TRUE /\ n.to = None /\ n.setup = setup /\ n.of = session.id /\ n.from \in Nat
          /\ n \in DayRow
        <3> DEFINE f == IF days = <<>> \/ days[Len(days)].to = None THEN 1 ELSE days[Len(days)].to
        <3>1. f \in Nat
            <4>1. CASE Len(days) = 0
                BY <1>0, <4>1 DEF DayShape
            <4>2. CASE Len(days) # 0
                BY <1>0, <2>4, <4>2
            <4> QED
                BY <4>1, <4>2
        <3>2. n = [active |-> TRUE, to |-> None, setup |-> r.setup, of |-> r.id, from |-> f]
            BY DEF Days!NewDay
        <3>3. setup \in Nat /\ session.id \in Nat
            BY <1>0, <2>2 DEF DayShape, SessionRow
        <3> HIDE DEF f, n
        <3> QED
            BY <2>2, <2>3, <3>1, <3>2, <3>3 DEF DayRow
    <2>6. Len(days) # 0 => n.from = days[Len(days)].to
        BY <1>0, <2>3 DEF Days!NewDay, DayShape
    <2> HIDE DEF n
    <2>7. /\ days' \in Seq(DayRow) /\ Len(days') = k /\ DOMAIN days' = 1..k /\ days'[k] = n
          /\ \A d \in DOMAIN days : days'[d] = days[d] /\ d \in DOMAIN days' /\ d # k
          /\ \A d \in DOMAIN days' : d = k \/ d \in DOMAIN days
          /\ k \in DOMAIN days' /\ k \in Nat
        BY <1>0, <2>1, <2>5 DEF DayShape
    <2>8. /\ session' = [session EXCEPT !.day = k] /\ lapTimer' = TRUE /\ setupTimer' = TRUE
        BY <1>3, <2>2, <2>7 DEF Days!NewDriveDay
    <2>9. /\ session' \in SessionRow /\ session'.id = session.id /\ session'.day = k
          /\ session' # None /\ Linked'
        BY <1>0, <2>2, <2>7, <2>8 DEF SessionRow, Linked
    <2> HIDE DEF k
    <2>10. DayShape' /\ Calls'
        <3>1. \A d \in DOMAIN days' : days'[d].of \in DOMAIN dayLaps
            BY <1>0, <2>2, <2>5, <2>7 DEF DayShape
        <3> QED
            BY <1>0, <2>1, <2>2, <2>7, <2>8, <2>9, <3>1 DEF DayShape, Calls
    <2>11. LinkInv'
        <3>1. \A d \in DOMAIN days' : days'[d].of = session'.id <=> d = session'.day
            <4>1. \A d \in DOMAIN days : days[d].of # session.id
                BY <1>0, <2>2 DEF LinkInv, Linked
            <4> QED
                BY <2>5, <2>7, <2>9, <4>1
        <3>2. \A s \in reqs' : ~ Opening(s)
            BY <2>1, <2>2
        <3> QED
            BY <3>1, <3>2 DEF LinkInv, Opening
    <2>12. RangeInv'
        <3>1. Days!RangesApart'
            <4> SUFFICES ASSUME NEW d \in DOMAIN days' \ {1}
                         PROVE  days'[d - 1].to # None /\ days'[d].from >= days'[d - 1].to
                BY DEF Days!RangesApart
            <4>1. d - 1 \in DOMAIN days
                BY <1>0, <2>7 DEF k
            <4>2. CASE d = k
                <5>1. d - 1 = Len(days) /\ Len(days) # 0
                    BY <1>0, <4>1, <4>2 DEF k
                <5> QED
                    BY <2>3, <2>4, <2>6, <2>7, <4>1, <4>2, <5>1
            <4>3. CASE d \in DOMAIN days
                BY <1>0, <2>7, <4>1, <4>3 DEF RangeInv, Days!RangesApart
            <4> QED
                BY <2>7, <4>2, <4>3
        <3>2. \A d \in DOMAIN days' : days'[d].active <=> days'[d].to = None
            BY <1>0, <2>5, <2>7 DEF RangeInv
        <3>3. \A s \in reqs' : ~ Opening(s)
            BY <2>1, <2>2
        <3>4. days'[session'.day].active
            BY <2>5, <2>7, <2>9
        <3> QED
            BY <3>1, <3>2, <3>3, <3>4 DEF RangeInv, Opening
    <2>13. LapInv'
        <3>1. \A s \in reqs : s.kind = "laps" => s \in reqs'
            BY <2>1
        <3>2. \A d : RowsOf(d)' = RowsOf(d)
            BY <2>1 DEF RowsOf
        <3>3. \A s \in reqs' : s.kind = "laps" =>
                  /\ s.day \in DOMAIN days' /\ s.laps = dayLaps'[days'[s.day].of]
                  /\ s.cleared => RowsOf(s.day)' \subseteq s.laps
            BY <1>0, <2>1, <2>7, <3>2 DEF LapInv
        <3>4. ASSUME NEW d \in DOMAIN days'
              PROVE  \/ RowsOf(d)' = dayLaps'[days'[d].of]
                     \/ Linked' /\ session'.day = d /\ lapTimer'
                     \/ \E s \in reqs' : s.kind = "laps" /\ s.day = d
            <4>1. CASE d = k
                BY <2>8, <2>9, <4>1
            <4>2. CASE d \in DOMAIN days
                BY <1>0, <2>1, <2>2, <2>7, <3>1, <3>2, <4>2 DEF LapInv
            <4> QED
                BY <2>7, <4>1, <4>2
        <3> QED
            BY <3>3, <3>4 DEF LapInv
    <2>14. SetupInv'
        <3>1. \A d \in DOMAIN days' : setup' = 0 => days'[d].setup = 0
            BY <1>0, <2>1, <2>5, <2>7 DEF SetupInv
        <3>2. \A s \in reqs' : s.kind # "create"
            BY <2>1, <2>2 DEF Opening
        <3>3. \A s \in reqs' : s.kind = "setup" => s.day \in DOMAIN days' /\ s.setup = setup'
            BY <1>0, <2>1, <2>7 DEF SetupInv
        <3> QED
            BY <2>8, <3>1, <3>2, <3>3 DEF SetupInv
    <2> QED
        BY <2>10, <2>11, <2>12, <2>13, <2>14 DEF DayInv
<1>4. CASE Days!LapsCleared(r)
    <2> DEFINE n == [r EXCEPT !.cleared = TRUE]
    <2>1. /\ r.kind = "laps" /\ reqs' = (reqs \ {r}) \cup {n}
          /\ rows' = {w \in rows : w.day # r.day}
          /\ UNCHANGED <<days, packet, setup, losses, session, lapTimer, setupTimer,
                         dayLaps, dayClock>>
        BY <1>4 DEF Days!LapsCleared
    <2>2. PICK d, l, c : r = [kind |-> "laps", day |-> d, laps |-> l, cleared |-> c]
        BY <1>0, <2>1 DEF Call
    <2>3. n = [kind |-> "laps", day |-> d, laps |-> l, cleared |-> TRUE]
        BY <2>2, ClearedCall, Zenon
    <2>4. /\ Call(n) /\ n.kind = "laps" /\ n.day = r.day /\ n.laps = r.laps
        BY <2>2, <2>3, CallKinds
    <2> HIDE DEF n
    <2>5. RowsOf(r.day)' = {} /\ \A e : e # r.day => RowsOf(e)' = RowsOf(e)
        BY <2>1 DEF RowsOf
    <2>6. DayShape' /\ Calls'
        BY <1>0, <2>1, <2>4 DEF DayShape, Calls, Linked
    <2>7. LinkInv'
        BY <1>0, <2>1, <2>4 DEF LinkInv, Linked, Opening
    <2>8. RangeInv'
        BY <1>0, <2>1, <2>4 DEF RangeInv, Linked, Days!RangesApart
    <2>9. LapInv'
        <3>1. \A s \in reqs' : s.kind = "laps" =>
                  /\ s.day \in DOMAIN days' /\ s.laps = dayLaps'[days'[s.day].of]
                  /\ s.cleared => RowsOf(s.day)' \subseteq s.laps
            BY <1>0, <2>1, <2>4, <2>5 DEF LapInv
        <3>2. ASSUME NEW e \in DOMAIN days'
              PROVE  \/ RowsOf(e)' = dayLaps'[days'[e].of]
                     \/ Linked' /\ session'.day = e /\ lapTimer'
                     \/ \E s \in reqs' : s.kind = "laps" /\ s.day = e
            <4>1. CASE e = r.day
                BY <2>1, <2>4, <4>1
            <4>2. CASE e # r.day
                BY <1>0, <2>1, <2>5, <4>2 DEF LapInv, Linked
            <4> QED
                BY <4>1, <4>2
        <3> QED
            BY <3>1, <3>2 DEF LapInv
    <2>10. SetupInv'
        BY <1>0, <2>1, <2>4 DEF SetupInv, Linked
    <2> QED
        BY <2>6, <2>7, <2>8, <2>9, <2>10 DEF DayInv
<1>5. CASE Days!LapsStored(r)
    <2>1. /\ r.kind = "laps" /\ r.cleared /\ reqs' = reqs \ {r}
          /\ rows' = rows \cup {[day |-> r.day, lap |-> l] : l \in r.laps}
          /\ UNCHANGED <<days, packet, setup, losses, session, lapTimer, setupTimer,
                         dayLaps, dayClock>>
        BY <1>5 DEF Days!LapsStored, Days!Drop
    <2>2. RowsOf(r.day) \subseteq r.laps /\ r.day \in DOMAIN days /\ r.laps = dayLaps[days[r.day].of]
        BY <1>0, <2>1 DEF LapInv
    <2> DEFINE N == {[day |-> r.day, lap |-> l] : l \in r.laps}
    <2>a. ASSUME NEW w \in N
          PROVE  w.day = r.day /\ w.lap \in r.laps
        <3>1. PICK l \in r.laps : w = [day |-> r.day, lap |-> l]
            OBVIOUS
        <3> QED
            BY <3>1
    <2>b. ASSUME NEW l \in r.laps
          PROVE  \E w \in N : w.day = r.day /\ w.lap = l
        <3>1. [day |-> r.day, lap |-> l] \in N
            OBVIOUS
        <3> QED
            BY <3>1
    <2>c. rows' = rows \cup N
        BY <2>1
    <2> HIDE DEF N
    <2>3. RowsOf(r.day)' = RowsOf(r.day) \cup r.laps /\ \A e : e # r.day => RowsOf(e)' = RowsOf(e)
        <3>1. RowsOf(r.day)' \subseteq RowsOf(r.day) \cup r.laps
            BY <2>a, <2>c DEF RowsOf
        <3>2. RowsOf(r.day) \subseteq RowsOf(r.day)' /\ r.laps \subseteq RowsOf(r.day)'
            BY <2>b, <2>c DEF RowsOf
        <3>3. \A e : e # r.day => {x \in rows' : x.day = e} = {x \in rows : x.day = e}
            BY <2>a, <2>c
        <3> QED
            BY <2>1, <3>1, <3>2, <3>3 DEF RowsOf
    <2>4. RowsOf(r.day)' = dayLaps[days[r.day].of]
        BY <2>2, <2>3
    <2>5. DayShape' /\ Calls'
        BY <1>0, <2>1 DEF DayShape, Calls, Linked
    <2>6. LinkInv'
        BY <1>0, <2>1 DEF LinkInv, Linked, Opening
    <2>7. RangeInv'
        BY <1>0, <2>1 DEF RangeInv, Linked, Days!RangesApart
    <2>8. LapInv'
        <3>1. \A s \in reqs' : s.kind = "laps" =>
                  /\ s.day \in DOMAIN days' /\ s.laps = dayLaps'[days'[s.day].of]
                  /\ s.cleared => RowsOf(s.day)' \subseteq s.laps
            BY <1>0, <2>1, <2>3, <2>4 DEF LapInv
        <3>2. ASSUME NEW e \in DOMAIN days'
              PROVE  \/ RowsOf(e)' = dayLaps'[days'[e].of]
                     \/ Linked' /\ session'.day = e /\ lapTimer'
                     \/ \E s \in reqs' : s.kind = "laps" /\ s.day = e
            <4>1. CASE e = r.day
                BY <2>1, <2>4, <4>1
            <4>2. CASE e # r.day
                BY <1>0, <2>1, <2>3, <4>2 DEF LapInv, Linked
            <4> QED
                BY <4>1, <4>2
        <3> QED
            BY <3>1, <3>2 DEF LapInv
    <2>9. SetupInv'
        BY <1>0, <2>1 DEF SetupInv, Linked
    <2> QED
        BY <2>5, <2>6, <2>7, <2>8, <2>9 DEF DayInv
<1>6. CASE Days!UpdateDriveDay(r)
    <2>1. /\ r.kind = "setup" /\ reqs' = reqs \ {r}
          /\ days' = IF r.setup = 0 THEN days ELSE [days EXCEPT ![r.day].setup = r.setup]
          /\ UNCHANGED <<rows, packet, setup, losses, session, lapTimer, setupTimer,
                         dayLaps, dayClock>>
        BY <1>6 DEF Days!UpdateDriveDay, Days!Drop, Days!Blank
    <2>2. r.day \in DOMAIN days /\ r.setup = setup /\ setup \in Nat
        BY <1>0, <2>1 DEF SetupInv, DayShape
    <2>3. /\ days' \in Seq(DayRow) /\ DOMAIN days' = DOMAIN days
          /\ \A d \in DOMAIN days : /\ days'[d].of = days[d].of /\ days'[d].to = days[d].to
                                    /\ days'[d].from = days[d].from
                                    /\ days'[d].active <=> days[d].active
                                    /\ d # r.day => days'[d].setup = days[d].setup
          /\ days'[r.day].setup = setup
        <3>1. CASE setup = 0
            BY <1>0, <2>1, <2>2, <3>1 DEF SetupInv, DayShape
        <3>2. CASE setup # 0
            <4>1. days[r.day] \in DayRow
                BY <1>0, <2>2 DEF DayShape
            <4> DEFINE b == days[r.day]
                       c == [b EXCEPT !.setup = setup]
            <4>a. days' = [days EXCEPT ![r.day] = c]
                BY <1>0, <2>1, <2>2, <3>2 DEF DayShape
            <4>2. /\ days' = [days EXCEPT ![r.day] = c] /\ c \in DayRow
                  /\ c.active = days[r.day].active /\ c.to = days[r.day].to
                  /\ c.of = days[r.day].of /\ c.from = days[r.day].from /\ c.setup = setup
                BY <2>2, <4>1, <4>a DEF DayRow
            <4> HIDE DEF c
            <4>3. days' \in Seq(DayRow) /\ DOMAIN days' = DOMAIN days
                BY <1>0, <2>2, <4>2 DEF DayShape
            <4>4. /\ days'[r.day] = c /\ \A d \in DOMAIN days : d # r.day => days'[d] = days[d]
                BY <1>0, <2>2, <4>2 DEF DayShape
            <4> QED
                BY <2>2, <4>2, <4>3, <4>4
        <3> QED
            BY <3>1, <3>2
    <2>4. DayShape' /\ Calls'
        BY <1>0, <2>1, <2>3 DEF DayShape, Calls, Linked
    <2>5. LinkInv'
        BY <1>0, <2>1, <2>3 DEF LinkInv, Linked, Opening
    <2>6. RangeInv'
        <3>1. Days!RangesApart'
            <4> SUFFICES ASSUME NEW d \in DOMAIN days \ {1}
                         PROVE  days'[d - 1].to # None /\ days'[d].from >= days'[d - 1].to
                BY <2>3 DEF Days!RangesApart
            <4>1. d - 1 \in DOMAIN days
                BY <1>0
            <4>2. days[d - 1].to # None /\ days[d].from >= days[d - 1].to
                BY <1>0 DEF RangeInv, Days!RangesApart
            <4> QED
                BY <2>3, <4>1, <4>2
        <3>2. Linked => session.day \in DOMAIN days
            BY <1>0 DEF DayShape
        <3> QED
            BY <1>0, <2>1, <2>3, <3>1, <3>2 DEF RangeInv, Linked
    <2>7. LapInv'
        <3>1. \A d : RowsOf(d)' = RowsOf(d)
            BY <2>1 DEF RowsOf
        <3>2. \A s \in reqs' : s.kind = "laps" =>
                  /\ s.day \in DOMAIN days' /\ s.laps = dayLaps'[days'[s.day].of]
                  /\ s.cleared => RowsOf(s.day)' \subseteq s.laps
            BY <1>0, <2>1, <2>3, <3>1 DEF LapInv
        <3>3. ASSUME NEW d \in DOMAIN days'
              PROVE  \/ RowsOf(d)' = dayLaps'[days'[d].of]
                     \/ Linked' /\ session'.day = d /\ lapTimer'
                     \/ \E s \in reqs' : s.kind = "laps" /\ s.day = d
            BY <1>0, <2>1, <2>3, <3>1 DEF LapInv, Linked
        <3> QED
            BY <3>2, <3>3 DEF LapInv
    <2>8. SetupInv'
        <3>1. Linked => session.day \in DOMAIN days
            BY <1>0 DEF DayShape
        <3> QED
            BY <1>0, <2>1, <2>2, <2>3, <3>1 DEF SetupInv, Linked
    <2> QED
        BY <2>4, <2>5, <2>6, <2>7, <2>8 DEF DayInv
<1>7. CASE Days!EventFlag(r)
    <2> DEFINE n == [r EXCEPT !.answer = (Days!ActiveDay # None)]
    <2>1. /\ r.kind = "flag" /\ reqs' = (reqs \ {r}) \cup {n}
          /\ UNCHANGED <<days, rows, packet, setup, losses, session, lapTimer, setupTimer,
                         dayLaps, dayClock>>
        BY <1>7 DEF Days!EventFlag
    <2>0. r = [kind |-> "flag", t |-> r.t, answer |-> r.answer]
        BY <1>0, <2>1 DEF Call
    <2>2. n = [kind |-> "flag", t |-> r.t, answer |-> (Days!ActiveDay # None)]
        BY <2>0
    <2>3. Call(n) /\ n.kind = "flag"
        BY <2>2, CallKinds
    <2> HIDE DEF n
    <2>4. DayRest
        BY <1>0, <2>1, <2>3 DEF DayRest, DayShape
    <2> QED
        BY <2>4, DayRestStep
<1>8. CASE Days!FlagAnswered(r)
    <2>1. DayRest
        BY <1>0, <1>8 DEF DayRest, DayShape, Days!FlagAnswered, Days!Drop
    <2> QED
        BY <2>1, DayRestStep
<1> QED
    BY <1>1, <1>2, <1>3, <1>4, <1>5, <1>6, <1>7, <1>8, <1>w DEF Days!Served, Days!Lost

LEMMA DayStep == DayInv /\ [Days!Next]_dayVars => DayInv'
<1> SUFFICES ASSUME DayInv, [Days!Next]_dayVars PROVE DayInv'
    OBVIOUS
<1> USE DEF Days!server, Days!page
<1>0. DayShape
    BY DEF DayInv
<1>1. CASE Days!Packet \/ Days!eventFlag \/ Days!PullFlags \/ Days!OtherFlag \/ UNCHANGED dayVars
    <2>1. CASE Days!eventFlag
        <3> DEFINE n == [kind |-> "flag", t |-> dayClock + 1, answer |-> None]
        <3>1. /\ reqs' = reqs \cup {n} /\ dayClock' = dayClock + 1
              /\ UNCHANGED <<days, rows, packet, setup, losses, session, lapTimer, setupTimer, dayLaps>>
            BY <2>1 DEF Days!eventFlag, Days!Flag
        <3>2. Call(n) /\ n.kind = "flag"
            BY CallKinds
        <3> HIDE DEF n
        <3>3. DayRest
            BY <1>0, <3>1, <3>2 DEF DayRest, DayShape
        <3> QED
            BY <3>3, DayRestStep
    <2>2. CASE Days!Packet \/ Days!PullFlags \/ Days!OtherFlag \/ UNCHANGED dayVars
        <3>1. DayRest
            BY <1>0, <2>2 DEF DayRest, DayShape, Days!Packet, Days!PullFlags, Days!OtherFlag, dayVars
        <3> QED
            BY <3>1, DayRestStep
    <2> QED
        BY <1>1, <2>1, <2>2
<1> QED
    BY <1>1, DayPage, DayServed DEF Days!Next

-----------------------------------------------------------------------------
(* ----- Laps and the stored session ----- *)

\* The lap timer, with a reload and with a third lap.
LapsReload ==
    INSTANCE LapTimer WITH
        MinLapMs <- GateMinLap, MinSectorMs <- GateMinSector,
        PressWindowMs <- GateWindow, FreshMs <- GateFresh, NumSplits <- GateSplits,
        Prompt <- TRUE, MaxT <- GateUntil, MaxLaps <- GateLaps, MaxEdits <- 1,
        MaxReloads <- GateReloads, laps <- timedLaps, mirror <- timedMirror,
        edits <- timedEdits
LapsStop ==
    INSTANCE LapTimer WITH
        MinLapMs <- GateMinLap, MinSectorMs <- GateMinSector,
        PressWindowMs <- GateWindow, FreshMs <- GateFresh, NumSplits <- GateSplits,
        Prompt <- TRUE, MaxT <- 5, MaxLaps <- 2, MaxEdits <- 0,
        MaxReloads <- 0, laps <- timedLaps, mirror <- timedMirror,
        edits <- timedEdits

\* The stored session: two sessions and two reloads; one session whose requests
\* are lost; a mirror that follows.
CacheStops ==
    INSTANCE SessionCache WITH
        Clients <- {"a"}, Leader <- "a", EarlyPress <- FALSE,
        MaxSessions <- EndSessions, MaxLaps <- EndLaps, MaxSaves <- EndSaves,
        MaxReloads <- EndReloads, MaxFlags <- 0, MaxLosses <- EndLosses,
        clock <- cacheClock, local <- cacheLocal, mirror <- cacheMirror
CacheReload ==
    INSTANCE SessionCache WITH
        Clients <- {"a"}, Leader <- "a", EarlyPress <- FALSE,
        MaxSessions <- BackSessions, MaxLaps <- BackLaps, MaxSaves <- BackSaves,
        MaxReloads <- BackReloads, MaxFlags <- BackFlags, MaxLosses <- BackLosses,
        clock <- cacheClock, local <- cacheLocal, mirror <- cacheMirror
CacheFollow ==
    INSTANCE SessionCache WITH
        Clients <- {"a", "b"}, Leader <- "a", EarlyPress <- FALSE, MaxSessions <- 1,
        MaxLaps <- 1, MaxSaves <- 0, MaxReloads <- 0, MaxFlags <- 0, MaxLosses <- 0,
        clock <- cacheClock, local <- cacheLocal, mirror <- cacheMirror

ASSUME ReloadBounds ==
    /\ LapsReload!LapParams
    /\ LapsStop!LapParams
    /\ CacheStops!CacheParams
    /\ CacheReload!CacheParams
    /\ CacheFollow!CacheParams

timedVars == <<last, since, lap, timedLaps, total, selected, timedMirror, logged,
    timedEdits, reloads, halted>>

cacheVars == <<cacheClock, page, mem, found, cacheLocal, indexed, ended, idbQueue,
    backend, net, flagging, cacheMirror, stopped, budget>>

(* What a reload brings back, for any bounds on laps, sessions, saves, flags and  *)
(* lost requests.                                                                 *)

Entry(x) == "id" \in DOMAIN x

\* Until one is deleted, laps are numbered as they stand; until one is deselected, all count.
Numbered == \A i \in DOMAIN timedLaps : timedLaps[i].id[2] = i
AllChosen == \A i \in DOMAIN timedLaps : timedLaps[i].id \in selected

ChoiceInv ==
    /\ IsSeq(timedLaps)
    /\ \A i \in DOMAIN timedLaps : Entry(timedLaps[i])
    /\ timedEdits \in Nat
    /\ Numbered \/ AllChosen
    /\ timedEdits = 0 => Numbered /\ AllChosen

SavedDoc == [sess : Nat, laps : Nat, at : Nat]
Unsaved == [sess |-> 0, laps |-> 0, at |-> 0]
Newest == cacheLocal["a"]

\* Every copy of the session there is, wherever it is stored, read or under way.
Queued(q) == {q[i] : i \in 1..Len(q)}
Copies ==
    {Newest, indexed["a"], backend} \cup found["a"] \cup Queued(idbQueue["a"])
      \cup {r.doc : r \in net}

CacheShape ==
    /\ cacheClock \in Nat
    /\ page = [c \in {"a"} |-> page[c]]
    /\ mem \in [{"a"} -> [sess : Nat, laps : Nat]]
    /\ found = [c \in {"a"} |-> found[c]]
    /\ cacheLocal = [c \in {"a"} |-> cacheLocal[c]]
    /\ indexed = [c \in {"a"} |-> indexed[c]]
    /\ ended \in [{"a"} -> Nat]
    /\ idbQueue \in [{"a"} -> Seq(SavedDoc)]
    /\ flagging \in [{"a"} -> Nat]
    /\ {"sessions", "flags"} \subseteq DOMAIN budget
    /\ budget["sessions"] \in Nat
    /\ Copies \subseteq SavedDoc

\* The copy in localStorage, where there is one, is newer than the marker and the newest
\* of all; where there is none, nothing is newer than the marker.
NewestInv ==
    /\ ended["a"] <= cacheClock
    /\ \A d \in Copies : d.at <= cacheClock
    /\ Newest.sess # 0 =>
          /\ Newest.at = cacheClock /\ ended["a"] < cacheClock
          /\ \A d \in Copies : d.at = cacheClock /\ d.sess # 0 =>
                d.sess = Newest.sess /\ d.laps = Newest.laps
    /\ Newest.sess = 0 => \A d \in Copies : d.sess = 0 \/ d.at <= ended["a"]

\* A page that reads its stores shows nothing and awaits nothing yet, and has read
\* localStorage.
LoadInv ==
    /\ cacheMirror = {}
    /\ page["a"] \in {"closed", "local", "indexed"} => flagging["a"] = 0
    /\ page["a"] \in {"local", "indexed"} => mem["a"].sess = 0 /\ Newest \in found["a"]

CacheInv == CacheShape /\ NewestInv /\ LoadInv

BackInv == CacheInv /\ budget["sessions"] <= BackSessions

\* Sessions are numbered as they start.
StartedTill(n) ==
    /\ stopped \subseteq 1..n
    /\ mem["a"].sess <= n
    /\ \A d \in Copies : d.sess <= n

\* The session in localStorage was not stopped, and a page that shows one shows that.
EndedInv ==
    /\ CacheInv
    /\ budget["sessions"] <= EndSessions
    /\ StartedTill(EndSessions - budget["sessions"])
    /\ budget["flags"] = 0 /\ flagging["a"] = 0
    /\ page["a"] # "closed" /\ mem["a"].sess # 0 => ended["a"] = 0 /\ Newest.sess = mem["a"].sess
    /\ ended["a"] \in {0, cacheClock}
    /\ Newest.sess \notin stopped

\* A lap that is logged while laps stand at their numbers has an id of its own; while all
\* count, it joins them. Either way no choice is changed.
LEMMA ChoiceLog ==
    ASSUME ChoiceInv, NEW k, NEW a, NEW b, NEW q, NEW e,
           LapsReload!Log(LapsReload!NewLap(k, a, b, q, e)),
           timedEdits' \in Nat, timedEdits' >= timedEdits
    PROVE  ChoiceInv' /\ LapsReload!ChoiceIsManual
<1> DEFINE l == LapsReload!NewLap(k, a, b, q, e)
           n == Len(timedLaps)
<1>1. l.id[2] = n + 1 /\ Entry(l)
    BY DEF LapsReload!NewLap, Entry
<1> HIDE DEF l
<1>2. timedLaps' = Append(timedLaps, l) /\ selected' = selected \cup {l.id}
    BY DEF LapsReload!Log, l
<1>3. IsSeq(timedLaps') /\ n \in Nat /\ Len(timedLaps') = n + 1
    BY <1>2, SeqAppend DEF ChoiceInv
<1>4. DOMAIN timedLaps = 1..n /\ DOMAIN timedLaps' = 1..n + 1
    BY <1>3 DEF ChoiceInv, IsSeq
<1>5. \A i \in 1..n + 1 : timedLaps'[i] = IF i = n + 1 THEN l ELSE timedLaps[i]
    <2> DEFINE S == {timedLaps[i] : i \in DOMAIN timedLaps} \cup {l}
    <2>1. timedLaps \in Seq(S) /\ l \in S
        BY <1>3, <1>4 DEF ChoiceInv, IsSeq
    <2> HIDE DEF S
    <2> QED
        BY <1>2, <1>3, <2>1
<1>6. Numbered => Numbered'
    BY <1>1, <1>3, <1>4, <1>5 DEF Numbered
<1>7. AllChosen => AllChosen'
    BY <1>2, <1>3, <1>4, <1>5 DEF AllChosen
<1>8. \A i \in DOMAIN timedLaps' : Entry(timedLaps'[i])
    BY <1>1, <1>3, <1>4, <1>5 DEF ChoiceInv
<1>9. ChoiceInv'
    BY <1>3, <1>6, <1>7, <1>8 DEF ChoiceInv
<1>10. \A i \in DOMAIN timedLaps :
          (timedLaps[i].id \in selected) = (timedLaps[i].id \in selected')
    <2> SUFFICES ASSUME NEW i \in DOMAIN timedLaps
                 PROVE  timedLaps[i].id \in selected \/ timedLaps[i].id # l.id
        BY <1>2
    <2>1. CASE Numbered
        BY <1>1, <1>3, <1>4, <2>1 DEF Numbered
    <2>2. CASE AllChosen
        BY <2>2 DEF AllChosen
    <2> QED
        BY <2>1, <2>2 DEF ChoiceInv
<1> QED
    BY <1>9, <1>10 DEF LapsReload!ChoiceIsManual

\* What leaves laps and choice alone.
LEMMA ChoiceRest ==
    ASSUME ChoiceInv, UNCHANGED <<timedLaps, selected>>,
           timedEdits' \in Nat, timedEdits' >= timedEdits
    PROVE  ChoiceInv' /\ LapsReload!ChoiceIsManual
BY DEF ChoiceInv, Numbered, AllChosen, LapsReload!ChoiceIsManual

LEMMA ChoiceEdit ==
    ASSUME ChoiceInv, NEW i \in DOMAIN timedLaps, NEW d, LapsReload!EditLapDuration(i, d)
    PROVE  ChoiceInv' /\ LapsReload!ChoiceIsManual
<1> DEFINE x == timedLaps[i]
           y == [x EXCEPT !.duration = d, !.edited = TRUE, !.end = x.start + d]
<1>1. timedLaps' = [timedLaps EXCEPT ![i] = y]
    BY DEF LapsReload!EditLapDuration
<1>2. selected' = selected /\ timedEdits' = timedEdits + 1
    BY DEF LapsReload!EditLapDuration
<1>3. Entry(x)
    BY DEF ChoiceInv
<1>4. Entry(y) /\ y.id = x.id
    BY <1>3 DEF Entry
<1> HIDE DEF y
<1>5. IsSeq(timedLaps') /\ Len(timedLaps') = Len(timedLaps)
    BY <1>1, SeqExcept DEF ChoiceInv
<1>6. DOMAIN timedLaps' = DOMAIN timedLaps
    BY <1>5 DEF ChoiceInv, IsSeq
<1>7. \A j \in DOMAIN timedLaps : timedLaps'[j].id = timedLaps[j].id /\ Entry(timedLaps'[j])
    BY <1>1, <1>4 DEF ChoiceInv
<1>8. (Numbered => Numbered') /\ (AllChosen => AllChosen')
    BY <1>2, <1>6, <1>7 DEF Numbered, AllChosen
<1>9. ChoiceInv'
    BY <1>2, <1>5, <1>6, <1>7, <1>8 DEF ChoiceInv
<1> QED
    BY <1>2, <1>9 DEF LapsReload!ChoiceIsManual

\* A deletion takes one lap and its choice; the others have other numbers.
LEMMA ChoiceDelete ==
    ASSUME ChoiceInv, NEW i \in DOMAIN timedLaps, LapsReload!DeleteLap(i)
    PROVE  ChoiceInv' /\ LapsReload!ChoiceIsManual
<1> DEFINE n == Len(timedLaps)
           S == {timedLaps[j] : j \in DOMAIN timedLaps}
<1>1. /\ timedEdits = 0 /\ timedEdits' = 1
      /\ timedLaps' = LapsReload!RemoveAt(timedLaps, i)
      /\ selected' = selected \ {timedLaps[i].id}
    BY DEF LapsReload!DeleteLap, ChoiceInv
<1>2. Numbered /\ AllChosen
    BY <1>1 DEF ChoiceInv
<1>3. n \in Nat /\ DOMAIN timedLaps = 1..n /\ timedLaps \in Seq(S)
    BY DEF ChoiceInv, IsSeq
<1> HIDE DEF S
<1>4. timedLaps' = SubSeq(timedLaps, 1, i - 1) \o SubSeq(timedLaps, i + 1, n)
    BY <1>1 DEF LapsReload!RemoveAt
<1>5. /\ timedLaps' \in Seq(S) /\ Len(timedLaps') = n - 1
      /\ \A j \in 1..n - 1 : timedLaps'[j] = timedLaps[IF j < i THEN j ELSE j + 1]
    <2>1. SubSeq(timedLaps, 1, i - 1) \in Seq(S) /\ Len(SubSeq(timedLaps, 1, i - 1)) = i - 1
        BY <1>3
    <2>2. SubSeq(timedLaps, i + 1, n) \in Seq(S) /\ Len(SubSeq(timedLaps, i + 1, n)) = n - i
        BY <1>3
    <2>3. \A j \in 1..i - 1 : SubSeq(timedLaps, 1, i - 1)[j] = timedLaps[j]
        BY <1>3
    <2>4. \A j \in 1..n - i : SubSeq(timedLaps, i + 1, n)[j] = timedLaps[i + j]
        BY <1>3
    <2> DEFINE a == SubSeq(timedLaps, 1, i - 1)
               b == SubSeq(timedLaps, i + 1, n)
    <2> HIDE DEF a, b
    <2>5. /\ a \o b \in Seq(S) /\ Len(a \o b) = n - 1
          /\ \A j \in 1..n - 1 : (a \o b)[j] = IF j <= i - 1 THEN a[j] ELSE b[j - (i - 1)]
        <3>1. a \in Seq(S) /\ b \in Seq(S) /\ Len(a) = i - 1 /\ Len(b) = n - i
            BY <2>1, <2>2 DEF a, b
        <3>2. Len(a) + Len(b) = n - 1
            BY <1>3, <3>1
        <3>3. a \o b \in Seq(S) /\ Len(a \o b) = Len(a) + Len(b)
            BY <3>1
        <3>4. \A j \in 1..Len(a) + Len(b) : (a \o b)[j] = IF j <= Len(a) THEN a[j] ELSE b[j - Len(a)]
            BY <3>1
        <3> QED
            BY <3>1, <3>2, <3>3, <3>4
    <2>6. \A j \in 1..n - 1 : (a \o b)[j] = timedLaps[IF j < i THEN j ELSE j + 1]
        <3> SUFFICES ASSUME NEW j \in 1..n - 1
                     PROVE  (a \o b)[j] = timedLaps[IF j < i THEN j ELSE j + 1]
            OBVIOUS
        <3>0. i \in 1..n /\ j \in Int /\ i \in Int
            BY <1>3
        <3>1. CASE j < i
            <4>1. j \in 1..i - 1 /\ j <= i - 1
                BY <3>0, <3>1
            <4>2. (a \o b)[j] = a[j] /\ a[j] = timedLaps[j]
                BY <2>3, <2>5, <4>1 DEF a
            <4> QED
                BY <3>1, <4>2
        <3>2. CASE ~(j < i)
            <4>1. j - (i - 1) \in 1..n - i /\ i + (j - (i - 1)) = j + 1 /\ ~(j <= i - 1)
                BY <1>3, <3>0, <3>2
            <4>2. b[j - (i - 1)] = timedLaps[i + (j - (i - 1))]
                BY <2>4, <4>1 DEF b
            <4>3. (a \o b)[j] = b[j - (i - 1)]
                BY <2>5, <4>1
            <4> QED
                BY <3>2, <4>1, <4>2, <4>3
        <3> QED
            BY <3>1, <3>2
    <2> QED
        BY <1>4, <2>5, <2>6 DEF a, b
<1>6. IsSeq(timedLaps') /\ DOMAIN timedLaps' = 1..n - 1
    BY <1>3, <1>5 DEF IsSeq
<1>7. \A j \in 1..n - 1 : \E k \in 1..n : k # i /\ timedLaps'[j] = timedLaps[k]
    BY <1>3, <1>5
<1>8. \A j, k \in 1..n : timedLaps[j].id = timedLaps[k].id => j = k
    BY <1>2, <1>3 DEF Numbered
<1>9. \A j \in 1..n - 1 : timedLaps'[j].id # timedLaps[i].id
    BY <1>3, <1>7, <1>8
<1>10. AllChosen'
    BY <1>1, <1>2, <1>3, <1>6, <1>7, <1>9 DEF AllChosen
<1>11. ChoiceInv'
    BY <1>1, <1>3, <1>6, <1>7, <1>10 DEF ChoiceInv
<1>12. ASSUME NEW j \in DOMAIN timedLaps, timedLaps[j].id \in LapsReload!Ids'
       PROVE  (timedLaps[j].id \in selected) = (timedLaps[j].id \in selected')
    <2>1. timedLaps[j].id # timedLaps[i].id
        BY <1>6, <1>9, <1>12 DEF LapsReload!Ids
    <2> QED
        BY <1>1, <2>1
<1> QED
    BY <1>11, <1>12 DEF LapsReload!ChoiceIsManual

\* Every step of the lap timer keeps the invariant and the strategist's choice.
LEMMA ChoiceStep ==
    ASSUME ChoiceInv, [LapsReload!Next]_timedVars
    PROVE  ChoiceInv' /\ [LapsReload!ChoiceIsManual]_timedVars
<1>0. timedEdits \in Nat
    BY DEF ChoiceInv
<1>1. ASSUME NEW t, NEW e, LapsReload!GateSample(t, e)
      PROVE  ChoiceInv' /\ LapsReload!ChoiceIsManual
    <2>1. timedEdits' = timedEdits
        BY <1>1 DEF LapsReload!GateSample, LapsReload!Arrives
    <2>2. \/ \E q : LapsReload!Log(LapsReload!NewLap("flying", lap.start, t, q, lap.energy + e))
          \/ UNCHANGED <<timedLaps, selected>>
        BY <1>1, Zenon DEF LapsReload!GateSample
    <2> QED
        BY <1>0, <2>1, <2>2, ChoiceLog, ChoiceRest
<1>2. ASSUME NEW t, NEW e,
             LapsReload!MirrorSample(t, e) \/ LapsReload!SplitSample(t, e)
               \/ LapsReload!PlainSample(t, e)
      PROVE  ChoiceInv' /\ LapsReload!ChoiceIsManual
    <2>1. UNCHANGED <<timedLaps, selected, timedEdits>>
        BY <1>2, Zenon DEF LapsReload!MirrorSample, LapsReload!SplitSample, LapsReload!PlainSample,
            LapsReload!Arrives
    <2> QED
        BY <1>0, <2>1, ChoiceRest
<1>3. CASE LapsReload!StartLap \/ LapsReload!Elapse \/ LapsReload!ChangeRole
    <2>1. UNCHANGED <<timedLaps, selected>> /\ timedEdits' \in {timedEdits, timedEdits + 1}
        BY <1>3 DEF LapsReload!StartLap, LapsReload!Elapse, LapsReload!ChangeRole
    <2> QED
        BY <1>0, <2>1, ChoiceRest
<1>4. CASE LapsReload!LogLap \/ LapsReload!StopLap
    <2>1. PICK next : LapsReload!CloseLap(next)
        BY <1>4 DEF LapsReload!LogLap, LapsReload!StopLap
    <2>2. /\ timedEdits' = timedEdits
          /\ LapsReload!Log(LapsReload!NewLap("manual", lap.start, LapsReload!PressT, lap.sectors, lap.energy))
        BY <2>1, Zenon DEF LapsReload!CloseLap
    <2> QED
        BY <1>0, <2>2, ChoiceLog
<1>5. ASSUME NEW d, LapsReload!AddManualLap(d)
      PROVE  ChoiceInv' /\ LapsReload!ChoiceIsManual
    <2>1. /\ timedEdits' = timedEdits + 1
          /\ LapsReload!Log(LapsReload!NewLap("byHand", 0, d, <<>>, 0))
        BY <1>5, Zenon DEF LapsReload!AddManualLap
    <2> QED
        BY <1>0, <2>1, ChoiceLog
<1>6. ASSUME NEW id, LapsReload!ToggleLapSelected(id)
      PROVE  ChoiceInv' /\ LapsReload!ChoiceIsManual
    <2>1. /\ timedEdits = 0 /\ timedEdits' = 1 /\ timedLaps' = timedLaps
          /\ selected' = IF id \in selected THEN selected \ {id} ELSE selected \cup {id}
        BY <1>0, <1>6 DEF LapsReload!ToggleLapSelected
    <2>2. Numbered'
        BY <2>1 DEF ChoiceInv, Numbered
    <2>3. ChoiceInv'
        BY <2>1, <2>2 DEF ChoiceInv
    <2>4. \A x : (x \in selected) # (x \in selected') => x = id
        BY <2>1
    <2> QED
        BY <1>6, <2>3, <2>4, Zenon DEF LapsReload!ChoiceIsManual
<1>7. CASE LapsReload!Reload
    <2>1. /\ timedLaps' = timedLaps /\ timedEdits' = timedEdits
          /\ selected' = selected \cap LapsReload!Ids
        BY <1>7 DEF LapsReload!Reload, LapsReload!RestoredSelection
    <2>2. \A i \in DOMAIN timedLaps : (timedLaps[i].id \in selected') = (timedLaps[i].id \in selected)
        BY <2>1 DEF LapsReload!Ids
    <2>3. (Numbered => Numbered') /\ (AllChosen => AllChosen')
        BY <2>1, <2>2 DEF Numbered, AllChosen
    <2> QED
        BY <2>1, <2>2, <2>3 DEF ChoiceInv, LapsReload!ChoiceIsManual
<1>8. CASE UNCHANGED timedVars
    BY <1>0, <1>8, ChoiceRest DEF timedVars
<1>9. CASE LapsReload!Next
    BY <1>1, <1>2, <1>3, <1>4, <1>5, <1>6, <1>7, <1>9, ChoiceEdit, ChoiceDelete DEF LapsReload!Next
<1> QED
    BY <1>8, <1>9

\* What a step does to the copies: it saves a session under a new stamp, ...
SavesCopy(s, n) ==
    /\ cacheClock' = cacheClock + 1
    /\ Newest' = [sess |-> s, laps |-> n, at |-> cacheClock + 1]
    /\ Copies' \subseteq Copies \cup {Unsaved, Newest'}

\* ... forgets the one in localStorage, ...
DropsCopy ==
    /\ cacheClock' = cacheClock
    /\ Newest' = Unsaved
    /\ Copies' \subseteq Copies \cup {Unsaved}

\* ... or moves and loses copies.
MovesCopies ==
    /\ cacheClock' = cacheClock
    /\ Newest' = Newest
    /\ Copies' \subseteq Copies

LEMMA SavesNewest ==
    ASSUME CacheShape, NewestInv, NEW s \in Nat \ {0}, NEW n \in Nat, SavesCopy(s, n),
           ended'["a"] \in {0, ended["a"]}
    PROVE  NewestInv' /\ Copies' \subseteq SavedDoc
<1>1. cacheClock \in Nat /\ ended["a"] \in Nat /\ Copies \subseteq SavedDoc
    BY DEF CacheShape
<1>2. Newest' \in SavedDoc /\ Newest'.sess = s /\ Newest'.laps = n /\ Newest'.at = cacheClock + 1
    BY <1>1 DEF SavesCopy, SavedDoc
<1>3. Unsaved \in SavedDoc /\ Unsaved.sess = 0 /\ Unsaved.at = 0
    BY DEF Unsaved, SavedDoc
<1>4. \A d \in Copies' : d \in Copies \/ d = Unsaved \/ d = Newest'
    BY DEF SavesCopy
<1>5. Copies' \subseteq SavedDoc
    BY <1>1, <1>2, <1>3, <1>4
<1>6. cacheClock' = cacheClock + 1
    BY DEF SavesCopy
<1>7. \A d \in Copies' : d.at <= cacheClock' /\ (d.at = cacheClock' => d = Newest')
    <2>1. \A d \in Copies : d.at <= cacheClock /\ d.at \in Nat
        BY <1>1 DEF NewestInv, SavedDoc
    <2> QED
        BY <1>1, <1>2, <1>3, <1>4, <1>6, <2>1
<1>8. ended["a"] <= cacheClock
    BY DEF NewestInv
<1> HIDE DEF Newest
<1> QED
    BY <1>1, <1>2, <1>5, <1>6, <1>7, <1>8 DEF NewestInv

LEMMA DropsNewest ==
    ASSUME CacheShape, NewestInv, DropsCopy, ended'["a"] = cacheClock
    PROVE  NewestInv' /\ Copies' \subseteq SavedDoc
<1>1. cacheClock \in Nat /\ Copies \subseteq SavedDoc
    BY DEF CacheShape
<1>2. Unsaved \in SavedDoc /\ Unsaved.sess = 0 /\ Unsaved.at = 0
    BY DEF Unsaved, SavedDoc
<1>3. \A d \in Copies' : d \in Copies \/ d = Unsaved
    BY DEF DropsCopy
<1>4. cacheClock' = cacheClock /\ Newest'.sess = 0
    BY <1>2 DEF DropsCopy
<1>5. \A d \in Copies' : d.at <= cacheClock
    BY <1>1, <1>2, <1>3 DEF NewestInv
<1> HIDE DEF Newest
<1> QED
    BY <1>1, <1>2, <1>3, <1>4, <1>5 DEF NewestInv

LEMMA MovesNewest ==
    ASSUME CacheShape, NewestInv, MovesCopies, ended'["a"] = ended["a"]
    PROVE  NewestInv' /\ Copies' \subseteq SavedDoc
<1>1. Copies \subseteq SavedDoc
    BY DEF CacheShape
<1> HIDE DEF Newest
<1> QED
    BY <1>1 DEF NewestInv, MovesCopies

\* A restored copy is the newest, so the marker may go with it.
LEMMA RestoresNewest ==
    ASSUME CacheShape, NewestInv, MovesCopies, Newest.sess # 0, ended'["a"] = 0
    PROVE  NewestInv' /\ Copies' \subseteq SavedDoc
<1>1. Copies \subseteq SavedDoc /\ ended["a"] \in Nat /\ cacheClock \in Nat
    BY DEF CacheShape
<1> HIDE DEF Newest
<1> QED
    BY <1>1 DEF NewestInv, MovesCopies

\* Transactions that join the queue of IndexedDB, and one that leaves it.
LEMMA QueueJoins ==
    ASSUME NEW q \in Seq(SavedDoc), NEW docs \in Seq(SavedDoc)
    PROVE  q \o docs \in Seq(SavedDoc) /\ Queued(q \o docs) \subseteq Queued(q) \cup Queued(docs)
<1>1. q \o docs \in Seq(SavedDoc) /\ Len(q \o docs) = Len(q) + Len(docs)
    OBVIOUS
<1>2. \A i \in 1..Len(q) + Len(docs) : (q \o docs)[i] = IF i <= Len(q) THEN q[i] ELSE docs[i - Len(q)]
    OBVIOUS
<1>3. Len(q) \in Nat /\ Len(docs) \in Nat
    OBVIOUS
<1>4. ASSUME NEW i \in 1..Len(q) + Len(docs)
      PROVE  (q \o docs)[i] \in Queued(q) \cup Queued(docs)
    <2>1. CASE i <= Len(q)
        BY <1>2, <1>3, <2>1 DEF Queued
    <2>2. CASE ~(i <= Len(q))
        <3>1. i - Len(q) \in 1..Len(docs)
            BY <1>3, <2>2
        <3> QED
            BY <1>2, <2>2, <3>1 DEF Queued
    <2> QED
        BY <2>1, <2>2
<1> QED
    BY <1>1, <1>4 DEF Queued

LEMMA QueueLeaves ==
    ASSUME NEW q \in Seq(SavedDoc), q # <<>>
    PROVE  /\ Tail(q) \in Seq(SavedDoc) /\ Head(q) \in Queued(q)
           /\ Queued(Tail(q)) \subseteq Queued(q)
<1>1. Tail(q) \in Seq(SavedDoc) /\ Len(Tail(q)) = Len(q) - 1 /\ Len(q) \in Nat /\ Len(q) # 0
    OBVIOUS
<1>2. \A i \in 1..Len(q) - 1 : Tail(q)[i] = q[i + 1]
    OBVIOUS
<1>3. Head(q) = q[1]
    OBVIOUS
<1> QED
    BY <1>1, <1>2, <1>3 DEF Queued

LEMMA QueuedDocs ==
    ASSUME NEW d \in SavedDoc
    PROVE  /\ <<d>> \in Seq(SavedDoc) /\ Queued(<<d>>) = {d}
           /\ <<Unsaved, d>> \in Seq(SavedDoc) /\ Queued(<<Unsaved, d>>) = {Unsaved, d}
           /\ Unsaved \in SavedDoc
<1>1. Unsaved \in SavedDoc
    BY DEF Unsaved, SavedDoc
<1> HIDE DEF Unsaved
<1>2. Len(<<d>>) = 1 /\ <<d>>[1] = d
    OBVIOUS
<1>3. Len(<<Unsaved, d>>) = 2 /\ <<Unsaved, d>>[1] = Unsaved /\ <<Unsaved, d>>[2] = d
    OBVIOUS
<1>4. <<d>> \in Seq(SavedDoc) /\ <<Unsaved, d>> \in Seq(SavedDoc)
    BY <1>1
<1>5. 1..1 = {1} /\ 1..2 = {1, 2}
    OBVIOUS
<1>6. Queued(<<d>>) = {d}
    BY <1>2, <1>5 DEF Queued
<1>7. Queued(<<Unsaved, d>>) = {Unsaved, d}
    BY <1>3, <1>5 DEF Queued
<1> QED
    BY <1>1, <1>4, <1>6, <1>7

\* The instances differ in their bounds alone, which these steps do not read ...
CacheSteps ==
    \/ CacheStops!Autosave("a") \/ CacheStops!FlagAnswer("a") \/ CacheStops!Stop("a")
    \/ CacheStops!Hide("a") \/ CacheStops!Decide("a") \/ CacheStops!Flag("a")
    \/ CacheStops!Load("a") \/ CacheStops!ReadIndexed("a") \/ CacheStops!IdbCommit("a")
    \/ CacheStops!Beat("a") \/ CacheStops!Poll("a")
    \/ (\E r \in net : CacheStops!Deliver(r)) \/ (\E r \in net : CacheStops!Lose(r))

\* ... but for how many laps and sessions may still come.
LapSaved ==
    LET m == [mem["a"] EXCEPT !.laps = mem["a"].laps + 1] IN
    /\ page["a"] = "ready" /\ mem["a"].sess # 0 /\ mem' = [mem EXCEPT !["a"] = m]
    /\ CacheStops!Persist("a", m, {}) /\ CacheStops!Queue("a", <<CacheStops!DocOf(m, cacheClock + 1)>>)
    /\ UNCHANGED <<page, found, indexed, ended, backend, flagging, cacheMirror, stopped, budget>>

SessionSaved(n) ==
    LET m == [sess |-> n, laps |-> 0] IN
    /\ page["a"] = "ready" /\ mem' = [mem EXCEPT !["a"] = m]
    /\ budget["sessions"] > 0 /\ budget' = [budget EXCEPT !["sessions"] = budget["sessions"] - 1]
    /\ ended' = [ended EXCEPT !["a"] = 0]
    /\ CacheStops!Persist("a", m, {CacheStops!Delete("a")})
    /\ CacheStops!Queue("a", <<CacheStops!NoDoc, CacheStops!DocOf(m, cacheClock + 1)>>)
    /\ UNCHANGED <<page, found, indexed, backend, flagging, cacheMirror, stopped>>

LEMMA StopsSteps ==
    CacheStops!Next =>
      \/ CacheSteps \/ LapSaved \/ SessionSaved(EndSessions + 1 - budget["sessions"])
<1>1. CacheStops!LogLap("a") => LapSaved
    BY DEF CacheStops!LogLap, CacheStops!Presses, LapSaved
<1>2. CacheStops!StartNewSession("a") => SessionSaved(EndSessions + 1 - budget["sessions"])
    BY DEF CacheStops!StartNewSession, CacheStops!Presses, CacheStops!Spend, SessionSaved
<1> QED
    BY <1>1, <1>2 DEF CacheStops!Next, CacheSteps

LEMMA BackSteps ==
    CacheReload!Next =>
      \/ CacheSteps \/ LapSaved \/ SessionSaved(BackSessions + 1 - budget["sessions"])
<1> USE DEF CacheReload!Up, CacheReload!Spend, CacheReload!Presses, CacheReload!Persist,
        CacheReload!Queue, CacheReload!DocOf, CacheReload!NoDoc, CacheReload!Empty,
        CacheReload!Delete, CacheReload!Offer,
        CacheStops!Up, CacheStops!Spend, CacheStops!Presses, CacheStops!Persist,
        CacheStops!Queue, CacheStops!DocOf, CacheStops!NoDoc, CacheStops!Empty,
        CacheStops!Delete, CacheStops!Offer
<1>1. CacheReload!LogLap("a") => LapSaved
    BY Zenon DEF CacheReload!LogLap, LapSaved
<1>2. CacheReload!StartNewSession("a") => SessionSaved(BackSessions + 1 - budget["sessions"])
    BY Zenon DEF CacheReload!StartNewSession, SessionSaved
<1>3. CacheReload!Autosave("a") => CacheStops!Autosave("a")
    BY Zenon DEF CacheReload!Autosave, CacheStops!Autosave
<1>4. CacheReload!FlagAnswer("a") => CacheStops!FlagAnswer("a")
    BY Zenon DEF CacheReload!FlagAnswer, CacheStops!FlagAnswer
<1>5. CacheReload!Stop("a") => CacheStops!Stop("a")
    BY Zenon DEF CacheReload!Stop, CacheStops!Stop
<1>6. CacheReload!Hide("a") => CacheStops!Hide("a")
    BY Zenon DEF CacheReload!Hide, CacheStops!Hide
<1>7. CacheReload!Decide("a") => CacheStops!Decide("a")
    BY Zenon DEF CacheReload!Decide, CacheStops!Decide
<1>8. CacheReload!Flag("a") => CacheStops!Flag("a")
    BY Zenon DEF CacheReload!Flag, CacheStops!Flag
<1>9. CacheReload!Load("a") => CacheStops!Load("a")
    BY Zenon DEF CacheReload!Load, CacheStops!Load
<1>10. CacheReload!ReadIndexed("a") => CacheStops!ReadIndexed("a")
    BY Zenon DEF CacheReload!ReadIndexed, CacheStops!ReadIndexed
<1>11. CacheReload!IdbCommit("a") => CacheStops!IdbCommit("a")
    BY Zenon DEF CacheReload!IdbCommit, CacheStops!IdbCommit
<1>12. CacheReload!Beat("a") => CacheStops!Beat("a")
    BY Zenon DEF CacheReload!Beat, CacheStops!Beat
<1>13. CacheReload!Poll("a") => CacheStops!Poll("a")
    BY Zenon DEF CacheReload!Poll, CacheStops!Poll
<1>14. ASSUME NEW r
       PROVE  (CacheReload!Deliver(r) => CacheStops!Deliver(r)) /\ (CacheReload!Lose(r) => CacheStops!Lose(r))
    BY Zenon DEF CacheReload!Deliver, CacheStops!Deliver, CacheReload!Lose, CacheStops!Lose
<1> QED
    BY <1>1, <1>2, <1>3, <1>4, <1>5, <1>6, <1>7, <1>8, <1>9, <1>10, <1>11, <1>12, <1>13, <1>14
       DEF CacheReload!Next, CacheSteps

\* What a save of session m does, with the requests sent before it.
LEMMA CacheSaved ==
    ASSUME CacheShape, NEW m \in [sess : Nat, laps : Nat], NEW before,
           \A r \in before : r.doc = Unsaved,
           CacheStops!Persist("a", m, before),
           \/ CacheStops!Queue("a", <<CacheStops!DocOf(m, cacheClock + 1)>>)
           \/ CacheStops!Queue("a", <<CacheStops!NoDoc, CacheStops!DocOf(m, cacheClock + 1)>>),
           UNCHANGED <<found, indexed, backend>>
    PROVE  /\ SavesCopy(m.sess, m.laps) /\ cacheClock' \in Nat
           /\ cacheLocal' = [c \in {"a"} |-> cacheLocal'[c]]
           /\ idbQueue' \in [{"a"} -> Seq(SavedDoc)]
<1> DEFINE d == [sess |-> m.sess, laps |-> m.laps, at |-> cacheClock + 1]
<1>1. cacheClock \in Nat
    BY DEF CacheShape
<1>2. d \in SavedDoc
    BY <1>1 DEF SavedDoc
<1>3. CacheStops!DocOf(m, cacheClock + 1) = d /\ CacheStops!NoDoc = Unsaved
    BY DEF CacheStops!DocOf, CacheStops!NoDoc, Unsaved
<1> HIDE DEF d
<1>4. PICK docs \in {<<d>>, <<Unsaved, d>>} : CacheStops!Queue("a", docs)
    BY <1>3
<1>5. docs \in Seq(SavedDoc) /\ Queued(docs) \subseteq {Unsaved, d}
    BY <1>2, QueuedDocs
<1>6. idbQueue' = [idbQueue EXCEPT !["a"] = idbQueue["a"] \o docs]
    BY <1>4 DEF CacheStops!Queue
<1>7. idbQueue["a"] \in Seq(SavedDoc)
    BY DEF CacheShape
<1>8. /\ idbQueue["a"] \o docs \in Seq(SavedDoc)
      /\ Queued(idbQueue["a"] \o docs) \subseteq Queued(idbQueue["a"]) \cup Queued(docs)
    BY <1>5, <1>7, QueueJoins
<1>9. idbQueue'["a"] = idbQueue["a"] \o docs /\ idbQueue' \in [{"a"} -> Seq(SavedDoc)]
    BY <1>6, <1>8 DEF CacheShape
<1>10. /\ cacheClock' = cacheClock + 1
       /\ cacheLocal' = [cacheLocal EXCEPT !["a"] = d]
       /\ \A r \in net' : r \in net \/ r \in before \/ r.doc = d
    <2>1. /\ cacheClock' = cacheClock + 1
          /\ cacheLocal' = [cacheLocal EXCEPT !["a"] = CacheStops!DocOf(m, cacheClock + 1)]
          /\ net' = net \cup before
                        \cup (IF "a" \in cacheMirror THEN {}
                              ELSE {[op |-> "post", by |-> "a", doc |-> CacheStops!DocOf(m, cacheClock + 1)]})
        BY DEF CacheStops!Persist
    <2>2. cacheLocal' = [cacheLocal EXCEPT !["a"] = d]
        BY <1>3, <2>1
    <2>3. net' \subseteq net \cup before \cup {[op |-> "post", by |-> "a", doc |-> d]}
        BY <1>3, <2>1
    <2>4. [op |-> "post", by |-> "a", doc |-> d].doc = d
        OBVIOUS
    <2> QED
        BY <2>1, <2>2, <2>3, <2>4
<1>11. cacheLocal' = [c \in {"a"} |-> cacheLocal'[c]] /\ Newest' = d
    BY <1>10 DEF CacheShape, Newest
<1>12. \A r \in net' : r.doc \in Copies \cup {Unsaved, d}
    BY <1>10 DEF Copies
<1>13. Queued(idbQueue'["a"]) \subseteq Copies \cup {Unsaved, d}
    BY <1>5, <1>8, <1>9 DEF Copies
<1>14. {indexed["a"], backend} \cup found["a"] \subseteq Copies
    BY DEF Copies
<1>15. Copies' \subseteq Copies \cup {Unsaved, Newest'}
    <2>1. Copies' = {Newest', indexed'["a"], backend'} \cup found'["a"] \cup Queued(idbQueue'["a"])
                      \cup {r.doc : r \in net'}
        BY DEF Copies, Newest, Queued
    <2> QED
        BY <1>11, <1>12, <1>13, <1>14, <2>1
<1> QED
    BY <1>1, <1>9, <1>10, <1>11, <1>15 DEF SavesCopy, d

\* The steps that save.
LEMMA CacheAutosave ==
    ASSUME CacheInv, CacheStops!Autosave("a")
    PROVE  CacheInv' /\ SavesCopy(mem["a"].sess, mem["a"].laps) /\ budget'["sessions"] = budget["sessions"]
<1>1. /\ CacheStops!Up("a") /\ mem["a"].sess # 0
      /\ budget' = [budget EXCEPT !["saves"] = budget["saves"] - 1]
      /\ CacheStops!Persist("a", mem["a"], {}) /\ CacheStops!Queue("a", <<CacheStops!DocOf(mem["a"], cacheClock + 1)>>)
      /\ UNCHANGED <<page, mem, found, indexed, ended, backend, flagging, cacheMirror, stopped>>
    BY DEF CacheStops!Autosave, CacheStops!Spend
<1>2. mem["a"] \in [sess : Nat, laps : Nat]
    BY DEF CacheInv, CacheShape
<1>3. /\ SavesCopy(mem["a"].sess, mem["a"].laps) /\ cacheClock' \in Nat
      /\ cacheLocal' = [c \in {"a"} |-> cacheLocal'[c]]
      /\ idbQueue' \in [{"a"} -> Seq(SavedDoc)]
    <2> DEFINE before == {}
    <2>1. \A r \in before : r.doc = Unsaved
        OBVIOUS
    <2>2. CacheStops!Persist("a", mem["a"], before)
        BY <1>1, <2>1
    <2> HIDE DEF before
    <2> QED
        BY <1>1, <1>2, <2>1, <2>2, CacheSaved DEF CacheInv
<1>4. NewestInv' /\ Copies' \subseteq SavedDoc
    BY <1>1, <1>2, <1>3, SavesNewest DEF CacheInv
<1>5. CacheShape'
    BY <1>1, <1>3, <1>4 DEF CacheInv, CacheShape
<1>6. LoadInv'
    BY <1>1 DEF CacheInv, LoadInv
<1>7. budget'["sessions"] = budget["sessions"]
    BY <1>1 DEF CacheInv, CacheShape
<1> QED
    BY <1>3, <1>4, <1>5, <1>6, <1>7 DEF CacheInv

LEMMA CacheLogLap ==
    ASSUME CacheInv, LapSaved
    PROVE  /\ CacheInv' /\ SavesCopy(mem["a"].sess, mem["a"].laps + 1)
           /\ mem'["a"].sess = mem["a"].sess
<1> DEFINE m == [mem["a"] EXCEPT !.laps = mem["a"].laps + 1]
<1>1. mem["a"] \in [sess : Nat, laps : Nat]
    BY DEF CacheInv, CacheShape
<1>2. m \in [sess : Nat, laps : Nat] /\ m.sess = mem["a"].sess /\ m.laps = mem["a"].laps + 1
    BY <1>1
<1>3. /\ page["a"] = "ready" /\ mem["a"].sess # 0 /\ mem' = [mem EXCEPT !["a"] = m]
      /\ CacheStops!Persist("a", m, {}) /\ CacheStops!Queue("a", <<CacheStops!DocOf(m, cacheClock + 1)>>)
      /\ UNCHANGED <<page, found, indexed, ended, backend, flagging, cacheMirror, stopped, budget>>
    BY DEF LapSaved
<1> HIDE DEF m
<1>4. /\ SavesCopy(m.sess, m.laps) /\ cacheClock' \in Nat
      /\ cacheLocal' = [c \in {"a"} |-> cacheLocal'[c]]
      /\ idbQueue' \in [{"a"} -> Seq(SavedDoc)]
    <2> DEFINE before == {}
    <2>1. \A r \in before : r.doc = Unsaved
        OBVIOUS
    <2>2. CacheStops!Persist("a", m, before)
        BY <1>3, <2>1
    <2> HIDE DEF before
    <2> QED
        BY <1>2, <1>3, <2>1, <2>2, CacheSaved DEF CacheInv
<1>5. m.sess \in Nat \ {0} /\ m.laps \in Nat
    BY <1>1, <1>2, <1>3
<1>6. NewestInv' /\ Copies' \subseteq SavedDoc
    BY <1>3, <1>4, <1>5, SavesNewest DEF CacheInv
<1>7. mem' \in [{"a"} -> [sess : Nat, laps : Nat]] /\ mem'["a"] = m
    BY <1>2, <1>3 DEF CacheInv, CacheShape
<1>8. CacheShape'
    BY <1>3, <1>4, <1>6, <1>7 DEF CacheInv, CacheShape
<1>9. LoadInv'
    BY <1>3 DEF CacheInv, LoadInv
<1> QED
    BY <1>2, <1>4, <1>6, <1>7, <1>8, <1>9 DEF CacheInv

LEMMA CacheStart ==
    ASSUME CacheInv, NEW n \in Nat \ {0}, SessionSaved(n)
    PROVE  /\ CacheInv' /\ SavesCopy(n, 0)
           /\ mem'["a"].sess = n /\ ended'["a"] = 0
           /\ budget'["sessions"] = budget["sessions"] - 1
           /\ budget'["flags"] = budget["flags"]
<1> DEFINE m == [sess |-> n, laps |-> 0]
<1>1. budget["sessions"] \in Nat /\ {"sessions", "flags"} \subseteq DOMAIN budget
    BY DEF CacheInv, CacheShape
<1>2. m \in [sess : Nat, laps : Nat] /\ m.sess = n /\ m.sess # 0 /\ m.laps = 0
    BY <1>1
<1>3. /\ page["a"] = "ready" /\ mem' = [mem EXCEPT !["a"] = m]
      /\ budget["sessions"] > 0 /\ budget' = [budget EXCEPT !["sessions"] = budget["sessions"] - 1]
      /\ ended' = [ended EXCEPT !["a"] = 0]
      /\ CacheStops!Persist("a", m, {CacheStops!Delete("a")})
      /\ CacheStops!Queue("a", <<CacheStops!NoDoc, CacheStops!DocOf(m, cacheClock + 1)>>)
      /\ UNCHANGED <<page, found, indexed, backend, flagging, cacheMirror, stopped>>
    BY DEF SessionSaved
<1>4. \A r \in {CacheStops!Delete("a")} : r.doc = Unsaved
    BY DEF CacheStops!Delete, CacheStops!NoDoc, Unsaved
<1> HIDE DEF m
<1>5. /\ SavesCopy(m.sess, m.laps) /\ cacheClock' \in Nat
      /\ cacheLocal' = [c \in {"a"} |-> cacheLocal'[c]]
      /\ idbQueue' \in [{"a"} -> Seq(SavedDoc)]
    BY <1>2, <1>3, <1>4, CacheSaved DEF CacheInv
<1>6. ended' \in [{"a"} -> Nat] /\ ended'["a"] = 0
    BY <1>3 DEF CacheInv, CacheShape
<1>7. NewestInv' /\ Copies' \subseteq SavedDoc
    <2>1. m.sess \in Nat \ {0} /\ m.laps \in Nat
        BY <1>2
    <2> QED
        BY <1>5, <1>6, <2>1, SavesNewest DEF CacheInv
<1>8. mem' \in [{"a"} -> [sess : Nat, laps : Nat]] /\ mem'["a"] = m
    BY <1>2, <1>3 DEF CacheInv, CacheShape
<1>9. /\ budget'["sessions"] = budget["sessions"] - 1 /\ budget'["flags"] = budget["flags"]
      /\ {"sessions", "flags"} \subseteq DOMAIN budget' /\ budget'["sessions"] \in Nat
    BY <1>1, <1>3
<1>10. CacheShape'
    BY <1>3, <1>5, <1>6, <1>7, <1>8, <1>9 DEF CacheInv, CacheShape
<1>11. LoadInv'
    BY <1>3 DEF CacheInv, LoadInv
<1> QED
    BY <1>2, <1>5, <1>6, <1>7, <1>8, <1>9, <1>10, <1>11 DEF CacheInv

\* A flag whose post was awaited saves under the session it was raised in.
LEMMA CacheFlagAnswer ==
    ASSUME CacheInv, CacheStops!FlagAnswer("a")
    PROVE  CacheInv' /\ budget' = budget
<1> DEFINE m == [sess |-> flagging["a"], laps |-> mem["a"].laps]
<1>1. mem["a"] \in [sess : Nat, laps : Nat] /\ flagging["a"] \in Nat
    BY DEF CacheInv, CacheShape
<1>2. m \in [sess : Nat, laps : Nat] /\ m.sess = flagging["a"]
    BY <1>1
<1>3. /\ flagging["a"] # 0 /\ flagging' = [flagging EXCEPT !["a"] = 0]
      /\ CacheStops!Persist("a", m, {}) /\ CacheStops!Queue("a", <<CacheStops!DocOf(m, cacheClock + 1)>>)
      /\ UNCHANGED <<page, mem, found, indexed, ended, backend, cacheMirror, stopped, budget>>
    BY DEF CacheStops!FlagAnswer
<1> HIDE DEF m
<1>4. /\ SavesCopy(m.sess, m.laps) /\ cacheClock' \in Nat
      /\ cacheLocal' = [c \in {"a"} |-> cacheLocal'[c]]
      /\ idbQueue' \in [{"a"} -> Seq(SavedDoc)]
    <2> DEFINE before == {}
    <2>1. \A r \in before : r.doc = Unsaved
        OBVIOUS
    <2>2. CacheStops!Persist("a", m, before)
        BY <1>3, <2>1
    <2> HIDE DEF before
    <2> QED
        BY <1>2, <1>3, <2>1, <2>2, CacheSaved DEF CacheInv
<1>5. m.sess \in Nat \ {0} /\ m.laps \in Nat
    BY <1>1, <1>2, <1>3
<1>6. NewestInv' /\ Copies' \subseteq SavedDoc
    BY <1>3, <1>4, <1>5, SavesNewest DEF CacheInv
<1>7. flagging' \in [{"a"} -> Nat]
    BY <1>3 DEF CacheInv, CacheShape
<1>8. CacheShape'
    BY <1>3, <1>4, <1>6, <1>7 DEF CacheInv, CacheShape
<1>9. LoadInv'
    BY <1>3 DEF CacheInv, LoadInv
<1> QED
    BY <1>3, <1>6, <1>8, <1>9 DEF CacheInv

\* Stop: the marker is set to now and the copy in localStorage removed.
LEMMA CacheStop ==
    ASSUME CacheInv, CacheStops!Stop("a")
    PROVE  /\ CacheInv' /\ DropsCopy /\ budget' = budget
           /\ mem'["a"].sess = 0 /\ ended'["a"] = cacheClock
<1>1. /\ page["a"] = "ready"
      /\ ended' = [ended EXCEPT !["a"] = cacheClock]
      /\ mem' = [mem EXCEPT !["a"] = [sess |-> 0, laps |-> 0]]
      /\ cacheLocal' = [cacheLocal EXCEPT !["a"] = Unsaved]
      /\ idbQueue' = [idbQueue EXCEPT !["a"] = idbQueue["a"] \o <<Unsaved>>]
      /\ net' = net \cup {CacheStops!Delete("a")}
      /\ UNCHANGED <<cacheClock, page, found, indexed, backend, flagging, cacheMirror, budget>>
    BY DEF CacheStops!Stop, CacheStops!Presses, CacheStops!Empty, CacheStops!NoDoc, CacheStops!Queue, Unsaved
<1>2. CacheStops!Delete("a").doc = Unsaved
    BY DEF CacheStops!Delete, CacheStops!NoDoc, Unsaved
<1>3. idbQueue["a"] \in Seq(SavedDoc) /\ Unsaved \in SavedDoc /\ cacheClock \in Nat
    BY DEF CacheInv, CacheShape, Unsaved, SavedDoc
<1> HIDE DEF Unsaved
<1>4. <<Unsaved>> \in Seq(SavedDoc) /\ Queued(<<Unsaved>>) = {Unsaved}
    BY <1>3, QueuedDocs
<1>5. /\ idbQueue["a"] \o <<Unsaved>> \in Seq(SavedDoc)
      /\ Queued(idbQueue["a"] \o <<Unsaved>>) \subseteq Queued(idbQueue["a"]) \cup {Unsaved}
    BY <1>3, <1>4, QueueJoins
<1>6. /\ idbQueue' \in [{"a"} -> Seq(SavedDoc)]
      /\ Queued(idbQueue'["a"]) \subseteq Queued(idbQueue["a"]) \cup {Unsaved}
    BY <1>1, <1>5 DEF CacheInv, CacheShape
<1>7. cacheLocal' = [c \in {"a"} |-> cacheLocal'[c]] /\ Newest' = Unsaved
    BY <1>1 DEF CacheInv, CacheShape, Newest
<1>8. \A r \in net' : r.doc \in Copies \cup {Unsaved}
    BY <1>1, <1>2 DEF Copies
<1>9. Copies' \subseteq Copies \cup {Unsaved}
    <2>1. Copies' = {Newest', indexed'["a"], backend'} \cup found'["a"] \cup Queued(idbQueue'["a"])
                      \cup {r.doc : r \in net'}
        BY DEF Copies, Newest, Queued
    <2>2. {indexed["a"], backend} \cup found["a"] \cup Queued(idbQueue["a"]) \subseteq Copies
        BY DEF Copies
    <2> QED
        BY <1>1, <1>6, <1>7, <1>8, <2>1, <2>2
<1>10. DropsCopy
    BY <1>1, <1>7, <1>9 DEF DropsCopy
<1>11. ended' \in [{"a"} -> Nat] /\ ended'["a"] = cacheClock
    BY <1>1, <1>3 DEF CacheInv, CacheShape
<1>12. mem' \in [{"a"} -> [sess : Nat, laps : Nat]] /\ mem'["a"].sess = 0
    BY <1>1 DEF CacheInv, CacheShape
<1>13. NewestInv' /\ Copies' \subseteq SavedDoc
    BY <1>10, <1>11, DropsNewest DEF CacheInv
<1>14. CacheShape'
    BY <1>1, <1>6, <1>7, <1>11, <1>12, <1>13 DEF CacheInv, CacheShape
<1>15. LoadInv'
    BY <1>1 DEF CacheInv, LoadInv
<1> QED
    BY <1>1, <1>10, <1>11, <1>12, <1>13, <1>14, <1>15 DEF CacheInv

\* pagehide saves what is shown, or nothing.
LEMMA CacheHide ==
    ASSUME CacheInv, CacheStops!Hide("a")
    PROVE  /\ CacheInv' /\ page'["a"] = "closed" /\ budget'["sessions"] = budget["sessions"]
           /\ \/ mem["a"].sess # 0 /\ SavesCopy(mem["a"].sess, mem["a"].laps)
              \/ mem["a"].sess = 0 /\ MovesCopies
<1>1. /\ page["a"] # "closed"
      /\ budget' = [budget EXCEPT !["reloads"] = budget["reloads"] - 1]
      /\ page' = [page EXCEPT !["a"] = "closed"]
      /\ flagging' = [flagging EXCEPT !["a"] = 0]
      /\ UNCHANGED <<mem, found, indexed, ended, backend, cacheMirror, stopped>>
    BY DEF CacheStops!Hide, CacheStops!Up, CacheStops!Spend
<1>2. mem["a"] \in [sess : Nat, laps : Nat]
    BY DEF CacheInv, CacheShape
<1>3. /\ page' = [c \in {"a"} |-> page'[c]] /\ page'["a"] = "closed"
      /\ flagging' \in [{"a"} -> Nat] /\ flagging'["a"] = 0
      /\ budget'["sessions"] = budget["sessions"]
      /\ {"sessions", "flags"} \subseteq DOMAIN budget'
    BY <1>1 DEF CacheInv, CacheShape
<1>4. LoadInv'
    BY <1>1, <1>3 DEF CacheInv, LoadInv
<1>5. CASE mem["a"].sess # 0
    <2>1. /\ CacheStops!Persist("a", mem["a"], {})
          /\ CacheStops!Queue("a", <<CacheStops!DocOf(mem["a"], cacheClock + 1)>>)
        BY <1>5 DEF CacheStops!Hide
    <2>2. /\ SavesCopy(mem["a"].sess, mem["a"].laps) /\ cacheClock' \in Nat
          /\ cacheLocal' = [c \in {"a"} |-> cacheLocal'[c]]
          /\ idbQueue' \in [{"a"} -> Seq(SavedDoc)]
        <3> DEFINE before == {}
        <3>1. \A r \in before : r.doc = Unsaved
            OBVIOUS
        <3>2. CacheStops!Persist("a", mem["a"], before)
            BY <2>1
        <3> HIDE DEF before
        <3> QED
            BY <1>1, <1>2, <2>1, <3>1, <3>2, CacheSaved DEF CacheInv
    <2>3. NewestInv' /\ Copies' \subseteq SavedDoc
        BY <1>1, <1>2, <1>5, <2>2, SavesNewest DEF CacheInv
    <2>4. CacheShape'
        BY <1>1, <1>3, <2>2, <2>3 DEF CacheInv, CacheShape
    <2> QED
        BY <1>3, <1>4, <1>5, <2>2, <2>3, <2>4 DEF CacheInv
<1>6. CASE mem["a"].sess = 0
    <2>1. net' \subseteq net /\ UNCHANGED <<cacheClock, cacheLocal, idbQueue>>
        BY <1>6 DEF CacheStops!Hide
    <2>2. MovesCopies
        BY <1>1, <2>1 DEF MovesCopies, Copies, Newest
    <2>3. NewestInv' /\ Copies' \subseteq SavedDoc
        BY <1>1, <2>2, MovesNewest DEF CacheInv
    <2>4. CacheShape'
        BY <1>1, <1>3, <2>1, <2>3 DEF CacheInv, CacheShape
    <2> QED
        BY <1>3, <1>4, <1>6, <2>2, <2>3, <2>4 DEF CacheInv
<1> QED
    BY <1>2, <1>5, <1>6

\* The steps that move or lose copies and show nothing new.
LEMMA CacheMoves ==
    ASSUME CacheInv,
           \/ CacheStops!Flag("a") \/ CacheStops!Load("a") \/ CacheStops!ReadIndexed("a") \/ CacheStops!IdbCommit("a")
           \/ CacheStops!Beat("a") \/ CacheStops!Poll("a")
           \/ (\E r \in net : CacheStops!Deliver(r)) \/ (\E r \in net : CacheStops!Lose(r))
    PROVE  /\ CacheInv' /\ MovesCopies /\ UNCHANGED <<ended, stopped>>
           /\ budget'["sessions"] = budget["sessions"]
           /\ mem' = mem \/ mem'["a"].sess = 0
           /\ page'["a"] = page["a"] \/ page'["a"] \in {"local", "indexed"}
<1> USE DEF CacheInv
<1>0. /\ idbQueue["a"] \in Seq(SavedDoc)
      /\ "sessions" \in DOMAIN budget /\ "flags" \in DOMAIN budget
    BY DEF CacheShape
<1>1. CASE CacheStops!Flag("a")
    <2>1. /\ page["a"] = "ready" /\ flagging' = [flagging EXCEPT !["a"] = mem["a"].sess]
          /\ budget' = [budget EXCEPT !["flags"] = budget["flags"] - 1]
          /\ UNCHANGED <<cacheClock, page, mem, found, cacheLocal, indexed, ended, idbQueue, backend,
                         net, cacheMirror, stopped>>
        BY <1>1 DEF CacheStops!Flag, CacheStops!Presses, CacheStops!Spend
    <2>2. MovesCopies
        BY <2>1 DEF MovesCopies, Copies, Newest
    <2>3. NewestInv' /\ Copies' \subseteq SavedDoc
        BY <2>1, <2>2, MovesNewest
    <2>4. flagging' \in [{"a"} -> Nat] /\ budget'["sessions"] = budget["sessions"]
          /\ {"sessions", "flags"} \subseteq DOMAIN budget'
        BY <1>0, <2>1 DEF CacheShape
    <2>5. CacheShape' /\ LoadInv'
        BY <2>1, <2>3, <2>4 DEF CacheShape, LoadInv
    <2> QED
        BY <2>1, <2>2, <2>3, <2>4, <2>5
<1>2. CASE CacheStops!Load("a")
    <2>1. /\ page["a"] = "closed" /\ page' = [page EXCEPT !["a"] = "local"]
          /\ mem' = [mem EXCEPT !["a"] = [sess |-> 0, laps |-> 0]]
          /\ found' = [found EXCEPT !["a"] = {Newest}]
          /\ cacheMirror' = cacheMirror \ {"a"}
          /\ UNCHANGED <<cacheClock, cacheLocal, indexed, ended, idbQueue, backend, net, flagging,
                         stopped, budget>>
        BY <1>2 DEF CacheStops!Load, CacheStops!Empty, Newest
    <2>2. /\ page' = [c \in {"a"} |-> page'[c]] /\ page'["a"] = "local"
          /\ mem' \in [{"a"} -> [sess : Nat, laps : Nat]] /\ mem'["a"].sess = 0
          /\ found' = [c \in {"a"} |-> found'[c]] /\ found'["a"] = {Newest}
        BY <2>1 DEF CacheShape
    <2>3. MovesCopies
        BY <2>1, <2>2 DEF MovesCopies, Copies, Newest
    <2>4. NewestInv' /\ Copies' \subseteq SavedDoc
        BY <2>1, <2>3, MovesNewest
    <2>5. CacheShape'
        BY <2>1, <2>2, <2>4 DEF CacheShape
    <2>6. LoadInv'
        BY <2>1, <2>2 DEF LoadInv, Newest
    <2> QED
        BY <2>1, <2>2, <2>3, <2>4, <2>5, <2>6
<1>3. CASE CacheStops!ReadIndexed("a")
    <2>1. /\ page["a"] = "local" /\ page' = [page EXCEPT !["a"] = "indexed"]
          /\ found' = [found EXCEPT !["a"] = found["a"] \cup {indexed["a"]}]
          /\ UNCHANGED <<cacheClock, mem, cacheLocal, indexed, ended, idbQueue, backend, net,
                         flagging, cacheMirror, stopped, budget>>
        BY <1>3 DEF CacheStops!ReadIndexed
    <2>2. /\ page' = [c \in {"a"} |-> page'[c]] /\ page'["a"] = "indexed"
          /\ found' = [c \in {"a"} |-> found'[c]] /\ found'["a"] = found["a"] \cup {indexed["a"]}
        BY <2>1 DEF CacheShape
    <2>3. MovesCopies
        BY <2>1, <2>2 DEF MovesCopies, Copies, Newest
    <2>4. NewestInv' /\ Copies' \subseteq SavedDoc
        BY <2>1, <2>3, MovesNewest
    <2>5. CacheShape'
        BY <2>1, <2>2, <2>4 DEF CacheShape
    <2>6. LoadInv'
        BY <2>1, <2>2 DEF LoadInv, Newest
    <2> QED
        BY <2>1, <2>2, <2>3, <2>4, <2>5, <2>6
<1>4. CASE CacheStops!IdbCommit("a")
    <2>1. /\ idbQueue["a"] # <<>>
          /\ indexed' = [indexed EXCEPT !["a"] = Head(idbQueue["a"])]
          /\ idbQueue' = [idbQueue EXCEPT !["a"] = Tail(idbQueue["a"])]
          /\ UNCHANGED <<cacheClock, page, mem, found, cacheLocal, ended, backend, net, flagging,
                         cacheMirror, stopped, budget>>
        BY <1>4 DEF CacheStops!IdbCommit
    <2>2. /\ Tail(idbQueue["a"]) \in Seq(SavedDoc) /\ Head(idbQueue["a"]) \in Queued(idbQueue["a"])
          /\ Queued(Tail(idbQueue["a"])) \subseteq Queued(idbQueue["a"])
        BY <1>0, <2>1, QueueLeaves
    <2>3. /\ indexed' = [c \in {"a"} |-> indexed'[c]] /\ indexed'["a"] \in Queued(idbQueue["a"])
          /\ idbQueue' \in [{"a"} -> Seq(SavedDoc)]
          /\ Queued(idbQueue'["a"]) \subseteq Queued(idbQueue["a"])
        BY <2>1, <2>2 DEF CacheShape
    <2>4. MovesCopies
        <3>1. Copies' = {Newest', indexed'["a"], backend'} \cup found'["a"] \cup Queued(idbQueue'["a"])
                          \cup {r.doc : r \in net'}
            BY DEF Copies, Newest, Queued
        <3>2. Newest' = Newest
            BY <2>1 DEF Newest
        <3> QED
            BY <2>1, <2>3, <3>1, <3>2 DEF MovesCopies, Copies
    <2>5. NewestInv' /\ Copies' \subseteq SavedDoc
        BY <2>1, <2>4, MovesNewest
    <2>6. CacheShape' /\ LoadInv'
        BY <2>1, <2>3, <2>5 DEF CacheShape, LoadInv, Newest
    <2> QED
        BY <2>1, <2>4, <2>5, <2>6
<1>5. CASE CacheStops!Beat("a") \/ CacheStops!Poll("a")
    <2>1. /\ cacheMirror' = {}
          /\ UNCHANGED <<cacheClock, page, mem, found, cacheLocal, indexed, ended, idbQueue, backend,
                         net, flagging, stopped, budget>>
        BY <1>5 DEF CacheStops!Beat, CacheStops!Poll, LoadInv
    <2>2. MovesCopies
        BY <2>1 DEF MovesCopies, Copies, Newest
    <2>3. NewestInv' /\ Copies' \subseteq SavedDoc
        BY <2>1, <2>2, MovesNewest
    <2>4. CacheShape' /\ LoadInv'
        BY <2>1, <2>3 DEF CacheShape, LoadInv, Newest
    <2> QED
        BY <2>1, <2>2, <2>3, <2>4
<1>6. ASSUME NEW r \in net, CacheStops!Deliver(r) \/ CacheStops!Lose(r)
      PROVE  /\ CacheInv' /\ MovesCopies /\ UNCHANGED <<ended, stopped, mem, page>>
             /\ budget'["sessions"] = budget["sessions"]
    <2>1. /\ net' = net \ {r} /\ backend' \in {backend, r.doc}
          /\ UNCHANGED <<cacheClock, page, mem, found, cacheLocal, indexed, ended, idbQueue, flagging,
                         cacheMirror, stopped>>
        BY <1>6 DEF CacheStops!Deliver, CacheStops!Lose
    <2>2. budget'["sessions"] = budget["sessions"] /\ {"sessions", "flags"} \subseteq DOMAIN budget'
        BY <1>0, <1>6 DEF CacheStops!Deliver, CacheStops!Lose, CacheStops!Spend
    <2>3. MovesCopies
        BY <2>1 DEF MovesCopies, Copies, Newest
    <2>4. NewestInv' /\ Copies' \subseteq SavedDoc
        BY <2>1, <2>3, MovesNewest
    <2>5. CacheShape' /\ LoadInv'
        BY <2>1, <2>2, <2>4 DEF CacheShape, LoadInv, Newest
    <2> QED
        BY <2>1, <2>2, <2>3, <2>4, <2>5
<1> QED
    BY <1>1, <1>2, <1>3, <1>4, <1>5, <1>6

\* What a load decides: the copy in localStorage is shown, where there is one.
LEMMA CacheDecide ==
    ASSUME CacheInv, CacheStops!Decide("a")
    PROVE  /\ CacheInv' /\ MovesCopies /\ UNCHANGED <<stopped, budget>>
           /\ \/ mem' = mem /\ ended' = ended /\ Newest.sess = 0
              \/ /\ mem'["a"] = [sess |-> Newest.sess, laps |-> Newest.laps]
                 /\ ended'["a"] = 0 /\ Newest.sess # 0
<1>1. PICK answer \in {{backend}, {}} :
          LET docs == {d \in found["a"] \cup answer : d.sess # 0 /\ d.at > ended["a"]}
          IN  IF docs = {} THEN UNCHANGED <<mem, ended>>
              ELSE /\ mem' = [mem EXCEPT !["a"] = [sess |-> CacheStops!Offer(docs).sess,
                                                   laps |-> CacheStops!Offer(docs).laps]]
                   /\ ended' = [ended EXCEPT !["a"] = 0]
    BY DEF CacheStops!Decide
<1> DEFINE docs == {d \in found["a"] \cup answer : d.sess # 0 /\ d.at > ended["a"]}
<1>2. /\ page["a"] = "indexed" /\ page' = [page EXCEPT !["a"] = "ready"]
      /\ found' = [found EXCEPT !["a"] = {}]
      /\ UNCHANGED <<cacheClock, cacheLocal, indexed, idbQueue, backend, net, flagging, cacheMirror,
                     stopped, budget>>
    BY DEF CacheStops!Decide
<1>3. /\ page' = [c \in {"a"} |-> page'[c]] /\ page'["a"] = "ready"
      /\ found' = [c \in {"a"} |-> found'[c]] /\ found'["a"] = {}
    BY <1>2 DEF CacheInv, CacheShape
<1>4. MovesCopies
    BY <1>2, <1>3 DEF MovesCopies, Copies, Newest
<1>5. found["a"] \cup answer \subseteq Copies /\ Newest \in found["a"]
    BY <1>2 DEF CacheInv, LoadInv, Copies
<1>6. Copies \subseteq SavedDoc /\ ended["a"] \in Nat /\ cacheClock \in Nat
    BY DEF CacheInv, CacheShape
<1>7. LoadInv'
    BY <1>2, <1>3 DEF CacheInv, LoadInv
<1>8. CASE docs = {}
    <2>1. UNCHANGED <<mem, ended>>
        BY <1>1, <1>8
    <2>2. Newest.sess = 0
        <3> HIDE DEF Newest
        <3>1. Newest.sess # 0 => Newest.at = cacheClock /\ ended["a"] < cacheClock
            BY DEF CacheInv, NewestInv
        <3> QED
            BY <1>5, <1>6, <1>8, <3>1
    <2>3. NewestInv' /\ Copies' \subseteq SavedDoc
        BY <1>4, <2>1, MovesNewest DEF CacheInv
    <2>4. CacheShape'
        BY <1>2, <1>3, <2>1, <2>3 DEF CacheInv, CacheShape
    <2> QED
        BY <1>2, <1>4, <1>7, <2>1, <2>2, <2>3, <2>4 DEF CacheInv
<1>9. CASE docs # {}
    <2>1. /\ mem' = [mem EXCEPT !["a"] = [sess |-> CacheStops!Offer(docs).sess, laps |-> CacheStops!Offer(docs).laps]]
          /\ ended' = [ended EXCEPT !["a"] = 0]
        BY <1>1, <1>9
    <2>2. PICK x \in docs : TRUE
        BY <1>9
    <2>3. Newest.sess # 0
        <3> HIDE DEF Newest
        <3>1. x.sess # 0 /\ x.at > ended["a"] /\ x \in Copies
            BY <1>5, <2>2
        <3>2. x.at \in Nat
            BY <1>6, <3>1 DEF SavedDoc
        <3> QED
            BY <1>6, <3>1, <3>2 DEF CacheInv, NewestInv
    <2>4. Newest \in docs /\ \A e \in docs : Newest.at >= e.at
        <3> HIDE DEF Newest
        <3>1. Newest.at = cacheClock /\ ended["a"] < cacheClock
            BY <2>3 DEF CacheInv, NewestInv
        <3>2. \A e \in Copies : e.at <= cacheClock
            BY DEF CacheInv, NewestInv
        <3> QED
            BY <1>5, <1>6, <2>3, <3>1, <3>2
    <2> DEFINE o == CacheStops!Offer(docs)
    <2>5. o \in docs /\ \A e \in docs : o.at >= e.at
        <3> HIDE DEF docs
        <3> QED
            BY <2>4 DEF CacheStops!Offer
    <2>6. o.sess = Newest.sess /\ o.laps = Newest.laps
        <3> HIDE DEF o, Newest
        <3>1. o \in Copies /\ o.sess # 0 /\ o.at >= Newest.at /\ o.at \in Nat
            BY <1>5, <1>6, <2>4, <2>5 DEF SavedDoc
        <3>2. Newest.at = cacheClock /\ o.at <= cacheClock
            BY <2>3, <3>1 DEF CacheInv, NewestInv
        <3>3. o.at = cacheClock
            BY <1>6, <3>1, <3>2
        <3> QED
            BY <2>3, <3>1, <3>3 DEF CacheInv, NewestInv
    <2> HIDE DEF o
    <2>7. mem' = [mem EXCEPT !["a"] = [sess |-> Newest.sess, laps |-> Newest.laps]]
        BY <2>1, <2>6 DEF o
    <2>8. Newest.sess \in Nat /\ Newest.laps \in Nat
        BY <1>6 DEF Copies, SavedDoc
    <2>9. /\ mem' \in [{"a"} -> [sess : Nat, laps : Nat]]
          /\ mem'["a"] = [sess |-> Newest.sess, laps |-> Newest.laps]
          /\ ended' \in [{"a"} -> Nat] /\ ended'["a"] = 0
        <3> DEFINE r == [sess |-> Newest.sess, laps |-> Newest.laps]
        <3>1. r \in [sess : Nat, laps : Nat]
            BY <2>8
        <3>2. mem' = [mem EXCEPT !["a"] = r]
            BY <2>7
        <3> HIDE DEF r
        <3>3. mem' \in [{"a"} -> [sess : Nat, laps : Nat]] /\ mem'["a"] = r
            BY <3>1, <3>2 DEF CacheInv, CacheShape
        <3>4. ended' \in [{"a"} -> Nat] /\ ended'["a"] = 0
            BY <2>1 DEF CacheInv, CacheShape
        <3> QED
            BY <3>3, <3>4 DEF r
    <2>10. NewestInv' /\ Copies' \subseteq SavedDoc
        BY <1>4, <2>3, <2>9, RestoresNewest DEF CacheInv
    <2>11. CacheShape'
        BY <1>2, <1>3, <2>9, <2>10 DEF CacheInv, CacheShape
    <2> QED
        BY <1>2, <1>4, <1>7, <2>3, <2>9, <2>10, <2>11 DEF CacheInv
<1> QED
    BY <1>8, <1>9

LEMMA CacheRest ==
    ASSUME CacheInv, UNCHANGED cacheVars
    PROVE  CacheInv' /\ MovesCopies
<1>1. UNCHANGED <<cacheClock, page, mem, found, cacheLocal, indexed, ended, idbQueue, backend, net,
                  flagging, cacheMirror, stopped, budget>>
    BY DEF cacheVars
<1>2. MovesCopies /\ Copies' = Copies /\ Newest' = Newest
    BY <1>1 DEF MovesCopies, Copies, Newest, Queued
<1>3. NewestInv' /\ Copies' \subseteq SavedDoc
    BY <1>1, <1>2, MovesNewest DEF CacheInv
<1>4. CacheShape' /\ LoadInv'
    BY <1>1, <1>3 DEF CacheInv, CacheShape, LoadInv, Newest
<1> QED
    BY <1>2, <1>3, <1>4 DEF CacheInv

\* The scene of ended sessions: what is stored, shown and numbered is of sessions that ran.
LEMMA EndedMoves ==
    ASSUME EndedInv, CacheInv', MovesCopies, UNCHANGED <<ended, stopped>>,
           budget'["sessions"] = budget["sessions"], budget'["flags"] = 0, flagging'["a"] = 0,
           mem' = mem \/ mem'["a"].sess = 0,
           page["a"] = "closed" /\ page'["a"] # "closed" => mem'["a"].sess = 0
    PROVE  EndedInv'
<1>1. budget["sessions"] \in Nat /\ EndSessions \in Nat
    BY ReloadBounds DEF EndedInv, CacheInv, CacheShape, CacheStops!CacheParams
<1>2. cacheClock' = cacheClock /\ Newest' = Newest /\ Copies' \subseteq Copies
    BY DEF MovesCopies
<1> HIDE DEF Newest
<1>3. StartedTill(EndSessions - budget["sessions"])'
    BY <1>1, <1>2 DEF EndedInv, StartedTill
<1> QED
    BY <1>1, <1>2, <1>3 DEF EndedInv

LEMMA EndedSaves ==
    ASSUME EndedInv, CacheInv', NEW n, SavesCopy(mem["a"].sess, n),
           page["a"] # "closed", mem["a"].sess # 0,
           UNCHANGED <<ended, stopped>>, mem'["a"].sess = mem["a"].sess,
           budget'["sessions"] = budget["sessions"], budget'["flags"] = 0, flagging'["a"] = 0
    PROVE  EndedInv'
<1>1. /\ budget["sessions"] \in Nat /\ EndSessions \in Nat /\ cacheClock \in Nat
      /\ Copies \subseteq SavedDoc
    BY ReloadBounds DEF EndedInv, CacheInv, CacheShape, CacheStops!CacheParams
<1>2. ended["a"] = 0 /\ Newest.sess = mem["a"].sess /\ Newest.sess \notin stopped
    BY DEF EndedInv
<1>3. Newest'.sess = mem["a"].sess
    BY DEF SavesCopy
<1>4. \A d \in Copies' : d \in Copies \/ d = Unsaved \/ d = Newest'
    BY DEF SavesCopy
<1>5. Unsaved.sess = 0
    BY DEF Unsaved
<1> HIDE DEF Newest
<1>6. StartedTill(EndSessions - budget["sessions"])'
    BY <1>1, <1>3, <1>4, <1>5 DEF EndedInv, StartedTill
<1> QED
    BY <1>1, <1>2, <1>3, <1>6 DEF EndedInv

\* No step of the cache revives a session that was stopped here.
LEMMA EndedStep ==
    ASSUME EndedInv, [CacheStops!Next]_cacheVars
    PROVE  EndedInv' /\ [CacheStops!EndedNotRestored]_cacheVars
<1>1. /\ CacheInv /\ budget["sessions"] <= EndSessions /\ budget["sessions"] \in Nat
      /\ EndSessions \in Nat /\ cacheClock \in Nat /\ {"sessions", "flags"} \subseteq DOMAIN budget
    BY ReloadBounds DEF EndedInv, CacheInv, CacheShape, CacheStops!CacheParams
<1>2. budget["flags"] = 0 /\ flagging["a"] = 0 /\ Newest.sess \notin stopped
    BY DEF EndedInv
<1>3. page["a"] # "indexed" \/ page'["a"] # "ready" => CacheStops!EndedNotRestored
    BY DEF CacheStops!EndedNotRestored
<1>4. page["a"] = page'["a"] => CacheStops!EndedNotRestored
    BY <1>3
<1>5. CASE CacheStops!Autosave("a")
    <2>1. /\ page["a"] # "closed" /\ mem["a"].sess # 0
          /\ budget' = [budget EXCEPT !["saves"] = budget["saves"] - 1]
          /\ UNCHANGED <<page, mem, ended, flagging, stopped>>
        BY <1>5 DEF CacheStops!Autosave, CacheStops!Up, CacheStops!Spend
    <2>2. CacheInv' /\ SavesCopy(mem["a"].sess, mem["a"].laps)
          /\ budget'["sessions"] = budget["sessions"]
        BY <1>1, <1>5, CacheAutosave
    <2>3. budget'["flags"] = 0
        BY <1>1, <1>2, <2>1
    <2> QED
        BY <1>2, <1>4, <2>1, <2>2, <2>3, EndedSaves
<1>6. CASE LapSaved
    <2>1. /\ page["a"] = "ready" /\ mem["a"].sess # 0
          /\ UNCHANGED <<page, ended, flagging, stopped, budget>>
        BY <1>6 DEF LapSaved
    <2>2. /\ CacheInv' /\ SavesCopy(mem["a"].sess, mem["a"].laps + 1)
          /\ mem'["a"].sess = mem["a"].sess
        BY <1>1, <1>6, CacheLogLap
    <2> QED
        BY <1>2, <1>4, <2>1, <2>2, EndedSaves
<1>7. CASE SessionSaved(EndSessions + 1 - budget["sessions"])
    <2> DEFINE n == EndSessions + 1 - budget["sessions"]
    <2>1. /\ CacheInv' /\ SavesCopy(n, 0) /\ mem'["a"].sess = n /\ ended'["a"] = 0
          /\ budget'["sessions"] = budget["sessions"] - 1 /\ budget'["flags"] = budget["flags"]
        <3>1. n \in Nat \ {0}
            BY <1>1
        <3> QED
            BY <1>1, <1>7, <3>1, CacheStart
    <2>2. UNCHANGED <<page, flagging, stopped>>
        BY <1>7 DEF SessionSaved
    <2>3. Newest'.sess = n
        BY <2>1 DEF SavesCopy
    <2>4. \A d \in Copies' : d \in Copies \/ d = Unsaved \/ d = Newest'
        BY <2>1 DEF SavesCopy
    <2>5. Unsaved.sess = 0
        BY DEF Unsaved
    <2>6. \A d \in Copies : d.sess <= n - 1 /\ d.sess \in Nat
        BY <1>1 DEF EndedInv, StartedTill, CacheInv, CacheShape, SavedDoc
    <2>7. n \in Nat /\ stopped \subseteq 1..n - 1
        BY <1>1 DEF EndedInv, StartedTill
    <2> HIDE DEF n, Newest
    <2>8. stopped' \subseteq 1..n /\ mem'["a"].sess <= n /\ \A d \in Copies' : d.sess <= n
        <3>1. stopped' \subseteq 1..n /\ mem'["a"].sess <= n
            BY <2>1, <2>2, <2>7
        <3>2. \A d \in Copies' : d.sess <= n
            BY <2>3, <2>4, <2>5, <2>6, <2>7
        <3> QED
            BY <3>1, <3>2
    <2>9. EndSessions - budget'["sessions"] = n
        BY <1>1, <2>1 DEF n
    <2>10. Newest'.sess \notin stopped'
        BY <2>2, <2>3, <2>7
    <2>11. StartedTill(EndSessions - budget["sessions"])'
        BY <2>8, <2>9 DEF StartedTill
    <2>12. budget'["sessions"] <= EndSessions
        BY <1>1, <2>1
    <2> QED
        BY <1>2, <1>4, <2>1, <2>2, <2>3, <2>10, <2>11, <2>12 DEF EndedInv
<1>8. CASE CacheStops!Stop("a")
    <2>1. /\ CacheInv' /\ DropsCopy /\ budget' = budget /\ mem'["a"].sess = 0
          /\ ended'["a"] = cacheClock
        BY <1>1, <1>8, CacheStop
    <2>2. stopped' = stopped \cup {mem["a"].sess} /\ mem["a"].sess # 0 /\ UNCHANGED <<page, flagging>>
        BY <1>8 DEF CacheStops!Stop
    <2>3. cacheClock' = cacheClock /\ Newest' = Unsaved
        BY <2>1 DEF DropsCopy
    <2>4. \A d \in Copies' : d \in Copies \/ d = Unsaved
        BY <2>1 DEF DropsCopy
    <2>5. Unsaved.sess = 0
        BY DEF Unsaved
    <2>6. mem["a"].sess \in Nat
        BY <1>1 DEF CacheInv, CacheShape
    <2>7. StartedTill(EndSessions - budget["sessions"])
        BY DEF EndedInv
    <2> HIDE DEF Newest
    <2>8. StartedTill(EndSessions - budget["sessions"])'
        <3> DEFINE n == EndSessions - budget["sessions"]
        <3>1. n \in Nat /\ EndSessions - budget'["sessions"] = n
            BY <1>1, <2>1
        <3>2. stopped \subseteq 1..n /\ mem["a"].sess <= n /\ \A d \in Copies : d.sess <= n
            BY <2>7 DEF StartedTill
        <3> HIDE DEF n
        <3>3. stopped' \subseteq 1..n
            <4>1. mem["a"].sess \in 1..n
                BY <2>2, <2>6, <3>1, <3>2
            <4> QED
                BY <2>2, <3>2, <4>1
        <3>4. mem'["a"].sess <= n /\ \A d \in Copies' : d.sess <= n
            BY <2>1, <2>4, <2>5, <3>1, <3>2
        <3> QED
            BY <3>1, <3>3, <3>4 DEF StartedTill
    <2>9. Newest'.sess \notin stopped'
        <3>1. 0 \notin stopped
            BY <2>7 DEF StartedTill
        <3> QED
            BY <2>2, <2>3, <2>5, <3>1
    <2> QED
        BY <1>1, <1>2, <1>4, <2>1, <2>2, <2>3, <2>8, <2>9 DEF EndedInv
<1>9. CASE CacheStops!FlagAnswer("a") \/ CacheStops!Flag("a")
    BY <1>2, <1>9 DEF CacheStops!FlagAnswer, CacheStops!Flag, CacheStops!Spend
<1>10. CASE CacheStops!Hide("a")
    <2>1. /\ CacheInv' /\ page'["a"] = "closed" /\ budget'["sessions"] = budget["sessions"]
          /\ \/ mem["a"].sess # 0 /\ SavesCopy(mem["a"].sess, mem["a"].laps)
             \/ mem["a"].sess = 0 /\ MovesCopies
        BY <1>1, <1>10, CacheHide
    <2>2. /\ page["a"] # "closed" /\ UNCHANGED <<mem, ended, stopped>>
          /\ flagging' = [flagging EXCEPT !["a"] = 0]
          /\ budget' = [budget EXCEPT !["reloads"] = budget["reloads"] - 1]
        BY <1>10 DEF CacheStops!Hide, CacheStops!Up, CacheStops!Spend
    <2>3. budget'["flags"] = 0 /\ flagging'["a"] = 0
        BY <1>1, <1>2, <2>2 DEF CacheInv, CacheShape
    <2>4. CacheStops!EndedNotRestored
        BY <1>3, <2>1
    <2>5. CASE mem["a"].sess # 0 /\ SavesCopy(mem["a"].sess, mem["a"].laps)
        BY <2>1, <2>2, <2>3, <2>4, <2>5, EndedSaves
    <2>6. CASE mem["a"].sess = 0 /\ MovesCopies
        BY <2>1, <2>2, <2>3, <2>4, <2>6, EndedMoves
    <2> QED
        BY <2>1, <2>5, <2>6
<1>11. CASE CacheStops!Decide("a")
    <2>1. /\ CacheInv' /\ MovesCopies /\ UNCHANGED <<stopped, budget>>
          /\ \/ mem' = mem /\ ended' = ended /\ Newest.sess = 0
             \/ /\ mem'["a"] = [sess |-> Newest.sess, laps |-> Newest.laps]
                /\ ended'["a"] = 0 /\ Newest.sess # 0
        BY <1>1, <1>11, CacheDecide
    <2>2. page["a"] = "indexed" /\ UNCHANGED flagging
        BY <1>11 DEF CacheStops!Decide
    <2>3. cacheClock' = cacheClock /\ Newest' = Newest /\ Copies' \subseteq Copies
        BY <2>1 DEF MovesCopies
    <2>4. Newest \in Copies
        BY DEF Copies
    <2> HIDE DEF Newest
    <2>5. CASE mem' = mem /\ ended' = ended
        <3>1. EndedInv'
            BY <1>2, <2>1, <2>2, <2>5, EndedMoves
        <3> QED
            BY <2>5, <3>1, Zenon DEF CacheStops!EndedNotRestored
    <2>6. CASE /\ mem'["a"] = [sess |-> Newest.sess, laps |-> Newest.laps]
               /\ ended'["a"] = 0
        <3>1. mem'["a"].sess = Newest.sess
            BY <2>6
        <3>2. StartedTill(EndSessions - budget["sessions"])'
            BY <2>1, <2>3, <2>4, <3>1 DEF EndedInv, StartedTill
        <3>3. EndedInv'
            BY <1>2, <2>1, <2>2, <2>3, <2>6, <3>1, <3>2 DEF EndedInv
        <3>4. CacheStops!EndedNotRestored
            BY <1>2, <3>1 DEF CacheStops!EndedNotRestored
        <3> QED
            BY <3>3, <3>4
    <2> QED
        BY <2>1, <2>5, <2>6
<1>12. CASE \/ CacheStops!Load("a") \/ CacheStops!ReadIndexed("a") \/ CacheStops!IdbCommit("a")
            \/ CacheStops!Beat("a") \/ CacheStops!Poll("a")
            \/ (\E r \in net : CacheStops!Deliver(r)) \/ (\E r \in net : CacheStops!Lose(r))
    <2>1. /\ CacheInv' /\ MovesCopies /\ UNCHANGED <<ended, stopped>>
          /\ budget'["sessions"] = budget["sessions"]
          /\ mem' = mem \/ mem'["a"].sess = 0
          /\ page'["a"] = page["a"] \/ page'["a"] \in {"local", "indexed"}
        BY <1>1, <1>12, CacheMoves
    <2>2. flagging' = flagging /\ (budget' = budget \/ budget' = [budget EXCEPT !["losses"] = budget["losses"] - 1])
        BY <1>12 DEF CacheStops!Load, CacheStops!ReadIndexed, CacheStops!IdbCommit, CacheStops!Beat,
            CacheStops!Poll, CacheStops!Deliver, CacheStops!Lose, CacheStops!Spend
    <2>3. budget'["flags"] = 0 /\ flagging'["a"] = 0
        BY <1>1, <1>2, <2>2
    <2>4. page["a"] = "closed" /\ page'["a"] # "closed" => mem'["a"].sess = 0
        BY <2>1 DEF CacheInv, LoadInv
    <2>5. EndedInv'
        BY <2>1, <2>3, <2>4, EndedMoves
    <2>6. CacheStops!EndedNotRestored
        BY <1>3, <1>4, <2>1
    <2> QED
        BY <2>5, <2>6
<1>13. CASE UNCHANGED cacheVars
    <2>1. CacheInv' /\ MovesCopies
        BY <1>1, <1>13, CacheRest
    <2>2. UNCHANGED <<page, mem, ended, flagging, stopped, budget>>
        BY <1>13 DEF cacheVars
    <2> QED
        BY <1>2, <1>13, <2>1, <2>2, EndedMoves
<1>14. CASE CacheStops!Next
    BY <1>5, <1>6, <1>7, <1>8, <1>9, <1>10, <1>11, <1>12, <1>14, StopsSteps DEF CacheSteps
<1> QED
    BY <1>13, <1>14

\* A load brings back what localStorage holds.
LEMMA BackStep ==
    ASSUME BackInv, [CacheReload!Next]_cacheVars
    PROVE  BackInv' /\ [CacheReload!ReloadKeepsLaps]_cacheVars
<1>1. CacheInv /\ budget["sessions"] <= BackSessions /\ budget["sessions"] \in Nat /\ BackSessions \in Nat
    BY ReloadBounds DEF BackInv, CacheInv, CacheShape, CacheReload!CacheParams
<1>2. page["a"] # "indexed" \/ page'["a"] # "ready" => CacheReload!ReloadKeepsLaps
    BY DEF CacheReload!ReloadKeepsLaps
<1>3. page["a"] = page'["a"] => CacheReload!ReloadKeepsLaps
    BY <1>2
<1>4. CASE CacheStops!Autosave("a") \/ LapSaved \/ CacheStops!FlagAnswer("a") \/ CacheStops!Stop("a")
    <2>1. CacheInv' /\ budget'["sessions"] = budget["sessions"]
        BY <1>1, <1>4, CacheAutosave, CacheLogLap, CacheFlagAnswer, CacheStop DEF LapSaved
    <2>2. page' = page
        BY <1>4, Zenon DEF CacheStops!Autosave, LapSaved, CacheStops!FlagAnswer, CacheStops!Stop
    <2> QED
        BY <1>1, <1>3, <2>1, <2>2 DEF BackInv
<1>5. CASE SessionSaved(BackSessions + 1 - budget["sessions"])
    <2>1. CacheInv' /\ budget'["sessions"] = budget["sessions"] - 1
        <3>1. BackSessions + 1 - budget["sessions"] \in Nat \ {0}
            BY <1>1
        <3> QED
            BY <1>1, <1>5, <3>1, CacheStart
    <2>2. page' = page
        BY <1>5 DEF SessionSaved
    <2> QED
        BY <1>1, <1>3, <2>1, <2>2 DEF BackInv
<1>6. CASE CacheStops!Hide("a")
    <2>1. CacheInv' /\ page'["a"] = "closed" /\ budget'["sessions"] = budget["sessions"]
        BY <1>1, <1>6, CacheHide
    <2> QED
        BY <1>1, <1>2, <2>1 DEF BackInv
<1>7. CASE CacheStops!Decide("a")
    <2>1. /\ CacheInv' /\ budget' = budget
          /\ \/ mem' = mem /\ ended' = ended /\ Newest.sess = 0
             \/ mem'["a"] = [sess |-> Newest.sess, laps |-> Newest.laps]
        BY <1>1, <1>7, CacheDecide
    <2>2. CacheReload!ReloadKeepsLaps
        BY <2>1 DEF CacheReload!ReloadKeepsLaps, Newest
    <2> QED
        BY <1>1, <2>1, <2>2 DEF BackInv
<1>8. CASE \/ CacheStops!Flag("a") \/ CacheStops!Load("a") \/ CacheStops!ReadIndexed("a")
           \/ CacheStops!IdbCommit("a") \/ CacheStops!Beat("a") \/ CacheStops!Poll("a")
           \/ (\E r \in net : CacheStops!Deliver(r)) \/ (\E r \in net : CacheStops!Lose(r))
    <2>1. /\ CacheInv' /\ budget'["sessions"] = budget["sessions"]
          /\ page'["a"] = page["a"] \/ page'["a"] \in {"local", "indexed"}
        BY <1>1, <1>8, CacheMoves
    <2>2. CacheReload!ReloadKeepsLaps
        BY <1>2, <1>3, <2>1
    <2> QED
        BY <1>1, <2>1, <2>2 DEF BackInv
<1>9. CASE UNCHANGED cacheVars
    <2>1. CacheInv'
        BY <1>1, <1>9, CacheRest
    <2> QED
        BY <1>1, <1>9, <2>1 DEF BackInv, cacheVars
<1>10. CASE CacheReload!Next
    BY <1>4, <1>5, <1>6, <1>7, <1>8, <1>10, BackSteps DEF CacheSteps
<1> QED
    BY <1>9, <1>10

-----------------------------------------------------------------------------
(* ----- The live feed ----- *)

\* The live feed, with outages of the broker and without.
FeedDrops ==
    INSTANCE LiveFeed WITH
        Streams <- FeedStreams, NoStream <- None, MaxCalls <- FeedCalls,
        MaxPresses <- FeedPresses, MaxFaults <- FeedFaults,
        MaxOutages <- FeedOutages
FeedHeals ==
    INSTANCE LiveFeed WITH
        Streams <- FeedStreams, NoStream <- None, MaxCalls <- FeedCalls,
        MaxPresses <- FeedPresses, MaxFaults <- FeedFaults, MaxOutages <- 0

ASSUME FeedBounds == FeedDrops!FeedParams /\ FeedHeals!FeedParams

feedVars == <<intent, ref, timer, calls, source, route, running, connected, broker,
    mounted, presses, faults, outages>>

\* The live feed, whatever the streams and the bounds: the references and the flags
\* have their types, a retry is wanted and the reference is usable.
FeedShape ==
    /\ {intent, timer} \subseteq BOOLEAN
    /\ ref \in FeedStreams \cup {None}
    /\ source = [s \in FeedStreams |-> source[s]]

FeedInv == FeedShape /\ FeedDrops!RetryIsWanted /\ FeedDrops!RefIsUsable

LEMMA FeedInit == FeedDrops!Init => FeedInv
BY DEF FeedInv, FeedShape, FeedDrops!Init, FeedDrops!RetryIsWanted,
    FeedDrops!RefIsUsable

\* A call of startLiveData wants the feed and leaves no timer.
LEMMA FeedStart == FeedDrops!StartLiveData => intent' /\ ~timer' /\ {intent', timer'} \subseteq BOOLEAN
BY DEF FeedDrops!StartLiveData

\* Every step of the feed keeps the invariant.
LEMMA FeedStep ==
    ASSUME None \notin FeedStreams
    PROVE  FeedInv /\ [FeedDrops!Next]_feedVars => FeedInv'
<1> SUFFICES ASSUME FeedInv, [FeedDrops!Next]_feedVars
             PROVE  FeedInv'
    OBVIOUS
<1> USE DEF FeedInv, FeedShape, FeedDrops!RetryIsWanted, FeedDrops!RefIsUsable
<1>1. CASE FeedDrops!AutoStart
    BY <1>1, FeedStart DEF FeedDrops!AutoStart
<1>2. CASE FeedDrops!RetryFires
    <2>1. CASE FeedDrops!StartLiveData
        BY <1>2, <2>1, FeedStart DEF FeedDrops!RetryFires
    <2>2. CASE timer' = FALSE /\ UNCHANGED intent
        BY <1>2, <2>2 DEF FeedDrops!RetryFires
    <2> QED
        BY <1>2, <2>1, <2>2 DEF FeedDrops!RetryFires
<1>3. ASSUME NEW s \in FeedStreams, FeedDrops!ConfigArrives(s)
      PROVE  FeedInv'
    BY <1>3 DEF FeedDrops!ConfigArrives
<1>4. CASE FeedDrops!ConfigFails
    BY <1>4 DEF FeedDrops!ConfigFails, FeedDrops!ScheduleReconnect
<1>5. ASSUME NEW s \in FeedStreams, FeedDrops!Opens(s)
      PROVE  FeedInv'
    BY <1>5 DEF FeedDrops!Opens
<1>6. ASSUME NEW s \in FeedStreams, FeedDrops!KafkaAnswers(s) \/ FeedDrops!Receives(s)
      PROVE  FeedInv'
    <2>1. UNCHANGED <<intent, ref, timer, source, mounted>>
        BY <1>6, Zenon DEF FeedDrops!KafkaAnswers, FeedDrops!Receives
    <2> QED
        BY <2>1
<1>7. ASSUME NEW s \in FeedStreams, FeedDrops!Refused(s)
      PROVE  FeedInv'
    BY <1>7 DEF FeedDrops!Refused, FeedDrops!CloseRef
<1>8. ASSUME NEW s \in FeedStreams, FeedDrops!Drops(s)
      PROVE  FeedInv'
    BY <1>8 DEF FeedDrops!Drops, FeedDrops!CloseRef, FeedDrops!ScheduleReconnect
<1>9. CASE FeedDrops!Restarts
    BY <1>9, FeedStart DEF FeedDrops!Restarts, FeedDrops!ClearFeed, FeedDrops!Shut
<1>10. CASE FeedDrops!StopEvent
    BY <1>10 DEF FeedDrops!StopEvent, FeedDrops!ClearFeed, FeedDrops!Shut
<1>11. CASE FeedDrops!Unmount
    BY <1>11 DEF FeedDrops!Unmount, FeedDrops!Shut
<1>12. CASE FeedDrops!BrokerDown \/ FeedDrops!BrokerUp
    BY <1>12 DEF FeedDrops!BrokerDown, FeedDrops!BrokerUp
<1>13. CASE UNCHANGED feedVars
    BY <1>13 DEF feedVars
<1> QED
    BY <1>1, <1>2, <1>3, <1>4, <1>5, <1>6, <1>7, <1>8, <1>9, <1>10, <1>11, <1>12,
       <1>13 DEF FeedDrops!Next

-----------------------------------------------------------------------------
(* ----- Presence ----- *)

\* Who leads: an admin and two others at two seats; then two at rest again.
PresenceThree ==
    INSTANCE Presence WITH
        Clients <- SeatClients, Admins <- SeatAdmins, Starter <- SeatStarter,
        MAX_CLIENTS <- Seats, MaxInFlight <- SeatInFlight, MaxTrouble <- SeatTrouble,
        server <- seatServer
PresenceTwo ==
    INSTANCE Presence WITH
        Clients <- {"a", "b"}, Admins <- {"b"}, Starter <- "a", MAX_CLIENTS <- 2,
        MaxInFlight <- 1, MaxTrouble <- 2, server <- seatServer

ASSUME SeatBounds == PresenceThree!PresenceParams /\ PresenceTwo!PresenceParams

seatVars == <<seatServer, forcing, view, open, posts, answers, trouble>>

(* Who leads, for any set of clients and admins and any number of seats. *)

\* What the route's state always is: a lock names somebody.
Sane(s) ==
    /\ s = [seats |-> s.seats, earlier |-> s.earlier, silent |-> s.silent,
            requests |-> s.requests, designated |-> s.designated, locked |-> s.locked]
    /\ s.seats \subseteq SeatClients
    /\ s.designated \in SeatClients \cup {None}
    /\ s.locked \in BOOLEAN
    /\ s.locked => s.designated # None

\* The lock holds for a leader with a seat.
Held(s) == s.locked /\ s.designated \in s.seats

SeatInv ==
    /\ Sane(seatServer)
    /\ forcing \subseteq SeatClients
    /\ \A m \in posts : m.client \in SeatClients

LEMMA HeldLeads ==
    ASSUME NEW s, Held(s)
    PROVE  PresenceThree!LeaderId(s) = s.designated
BY DEF Held, PresenceThree!LeaderId

\* Who leads depends on the seats, their order and the designation only.
LEMMA SameLeader ==
    ASSUME NEW s, NEW t, s.seats = t.seats, s.earlier = t.earlier,
           s.designated = t.designated
    PROVE  PresenceThree!LeaderId(s) = PresenceThree!LeaderId(t)
BY DEF PresenceThree!LeaderId

\* Dropping seats but a locked leader's leaves a sane state.
LEMMA AmongSane ==
    ASSUME NEW s, Sane(s), NEW seats \in SUBSET s.seats, NEW locked \in BOOLEAN,
           locked => s.designated \in seats, None \notin SeatClients
    PROVE  LET t == PresenceThree!Among(s, seats, locked)
           IN  /\ Sane(t)
               /\ t.seats = seats /\ t.silent \subseteq s.silent /\ t.locked = locked
               /\ locked => t.designated = s.designated
<1> DEFINE t == PresenceThree!Among(s, seats, locked)
<1>1. /\ t.seats = seats /\ t.silent = s.silent \cap seats /\ t.locked = locked
      /\ t.designated = IF s.designated \in seats THEN s.designated ELSE None
      /\ t = [seats |-> t.seats, earlier |-> t.earlier, silent |-> t.silent,
              requests |-> t.requests, designated |-> t.designated, locked |-> t.locked]
    BY DEF PresenceThree!Among
<1>2. t.designated \in SeatClients \cup {None}
    BY <1>1 DEF Sane
<1> HIDE DEF t
<1> QED
    BY <1>1, <1>2 DEF Sane, t

\* prune keeps a held lock with its leader, and drops every other lock.
LEMMA PruneKeeps ==
    ASSUME NEW s, Sane(s), None \notin SeatClients
    PROVE  LET t == PresenceThree!Prune(s)
           IN  /\ Sane(t)
               /\ t.locked => Held(s) /\ Held(t) /\ t.designated = s.designated
               /\ Held(s) => t.locked
               /\ t.silent \subseteq s.silent
<1> DEFINE kept == {c \in s.seats : c \notin s.silent \/ (s.locked /\ c = s.designated)}
           locked == s.locked /\ (s.designated = None \/ s.designated \in kept)
<1>1. PresenceThree!Prune(s) = PresenceThree!Among(s, kept, locked)
    BY DEF PresenceThree!Prune
<1>2. kept \in SUBSET s.seats /\ locked \in BOOLEAN
    OBVIOUS
<1>3. /\ locked => s.locked /\ s.designated \in kept
      /\ Held(s) => locked
    BY DEF Sane, Held
<1> HIDE DEF kept, locked
<1> DEFINE t == PresenceThree!Among(s, kept, locked)
<1>4. /\ Sane(t)
      /\ t.seats = kept /\ t.silent \subseteq s.silent /\ t.locked = locked
      /\ locked => t.designated = s.designated
    <2>1. locked => s.designated \in kept
        BY <1>3
    <2> QED
        BY ONLY Sane(s), None \notin SeatClients, <1>2, <2>1, AmongSane
<1> HIDE DEF t
<1>5. PresenceThree!Prune(s) = t
    BY <1>1 DEF t
<1> QED
    BY <1>2, <1>3, <1>4, <1>5 DEF Held

\* A client that leaves does not take the lock from another one.
LEMMA LeaveKeeps ==
    ASSUME NEW s, NEW c \in SeatClients, Sane(s), s.locked => Held(s),
           None \notin SeatClients
    PROVE  LET t == PresenceThree!Leave(s, c)
           IN  /\ Sane(t)
               /\ t.locked => Held(s) /\ Held(t) /\ t.designated = s.designated
<1>1. CASE s.locked /\ s.designated = c
    BY <1>1 DEF PresenceThree!Leave, Sane, Held
<1>2. CASE ~(s.locked /\ s.designated = c)
    <2> DEFINE kept == s.seats \ {c}
               locked == s.locked
               t == PresenceThree!Among(s, kept, locked)
    <2>1. PresenceThree!Leave(s, c) = t
        BY <1>2 DEF PresenceThree!Leave
    <2>2. /\ kept \in SUBSET s.seats /\ locked \in BOOLEAN
          /\ locked => s.designated \in kept
        BY <1>2 DEF Held, Sane
    <2>3. locked => Held(s)
        OBVIOUS
    <2> HIDE DEF kept, locked
    <2>4. /\ Sane(t)
          /\ t.seats = kept /\ t.locked = locked
          /\ locked => t.designated = s.designated
        BY ONLY Sane(s), None \notin SeatClients, <2>2, AmongSane
    <2> HIDE DEF t
    <2> QED
        BY <2>1, <2>2, <2>3, <2>4 DEF Held
<1> QED
    BY <1>1, <1>2

LEMMA ClaimKeeps ==
    ASSUME NEW s, NEW c \in SeatClients, Sane(s)
    PROVE  LET t == PresenceThree!Claim(s, c)
           IN  /\ Sane(t)
               /\ t.locked = s.locked /\ t.designated = s.designated
               /\ s.seats \subseteq t.seats /\ t.silent \subseteq s.silent
<1> DEFINE t == PresenceThree!Claim(s, c)
<1>1. CASE c \in s.seats
    BY <1>1 DEF PresenceThree!Claim, Sane
<1>2. CASE c \notin s.seats
    <2>1. t = [seats |-> s.seats \cup {c}, earlier |-> s.earlier \cup (s.seats \X {c}),
               silent |-> s.silent, requests |-> s.requests,
               designated |-> s.designated, locked |-> s.locked]
        BY <1>2 DEF PresenceThree!Claim, Sane
    <2> QED
        BY <1>2, <2>1 DEF Sane
<1> QED
    BY <1>1, <1>2

\* A command that keeps a held lock moves the leadership only by the leader's grant
\* or while the leader is away; one that sets a lock sets it for a client.
LEMMA ActKeeps ==
    ASSUME NEW s, NEW c \in SeatClients, NEW action, NEW target, Sane(s),
           None \notin SeatClients
    PROVE  LET t == PresenceThree!Act(s, c, action, target)
           IN  /\ Sane(t)
               /\ t.locked => s.locked \/ action = "lock"
               /\ t.locked /\ Held(s) =>
                     \/ t.designated = s.designated /\ t.seats = s.seats
                     \/ action = "grant" /\ c = s.designated
                     \/ action \in {"take", "claim_starter"} /\ s.designated \in s.silent
<1> DEFINE t == PresenceThree!Act(s, c, action, target)
           Same == t.designated = s.designated /\ t.seats = s.seats /\ t.locked = s.locked
<1> USE DEF Sane, Held
<1>1. t \in {s, [s EXCEPT !.requests = @ \cup {c}], [s EXCEPT !.requests = @ \ {target}],
              [s EXCEPT !.locked = FALSE]}
       \/ (action = "grant" /\ c = PresenceThree!LeaderId(s) /\ target \in s.seats
            /\ t = PresenceThree!Designate(s, target))
       \/ (action = "lock" /\ c = PresenceThree!LeaderId(s)
            /\ t = [s EXCEPT !.designated = c, !.locked = TRUE])
       \/ (action = "take" /\ PresenceThree!LeaderAway(s) /\ t = PresenceThree!Designate(s, c))
       \/ (action = "claim_starter" /\ (~s.locked \/ PresenceThree!LeaderAway(s))
            /\ t = PresenceThree!Designate(s, c))
    BY Zenon DEF PresenceThree!Act
<1>2. CASE t \in {s, [s EXCEPT !.requests = @ \cup {c}], [s EXCEPT !.requests = @ \ {target}],
                  [s EXCEPT !.locked = FALSE]}
    BY <1>2
<1>3. CASE /\ action = "grant" /\ c = PresenceThree!LeaderId(s) /\ target \in s.seats
           /\ t = PresenceThree!Designate(s, target)
    BY <1>3, HeldLeads DEF PresenceThree!Designate
<1>4. CASE /\ action = "lock" /\ c = PresenceThree!LeaderId(s)
           /\ t = [s EXCEPT !.designated = c, !.locked = TRUE]
    BY <1>4, HeldLeads
<1>5. Held(s) /\ PresenceThree!LeaderAway(s) => s.designated \in s.silent
    BY HeldLeads DEF PresenceThree!LeaderAway
<1>6. CASE /\ action \in {"take", "claim_starter"}
           /\ ~s.locked \/ PresenceThree!LeaderAway(s)
           /\ t = PresenceThree!Designate(s, c)
    BY <1>5, <1>6 DEF PresenceThree!Designate
<1> QED
    BY <1>1, <1>2, <1>3, <1>4, <1>6

\* Steps that leave the route's state alone.
LEMMA SeatsRest ==
    ASSUME SeatInv, UNCHANGED seatServer, forcing' \subseteq forcing,
           \A m \in posts' : m.client \in SeatClients
    PROVE  SeatInv' /\ PresenceThree!LockHolds
BY DEF SeatInv, Sane, PresenceThree!LockHolds, PresenceThree!LeaderId,
    PresenceThree!First

\* A post is handled: prune, then a leave, a refusal or a claim with its command.
LEMMA ServeStep ==
    ASSUME SeatInv, None \notin SeatClients, NEW m \in posts,
           \/ PresenceThree!ServeLeave(m)
           \/ PresenceThree!ServeFull(m)
           \/ PresenceThree!ServeSeated(m)
    PROVE  SeatInv' /\ PresenceThree!LockHolds
<1> DEFINE s == PresenceThree!Prune(seatServer)
<1>1. /\ Sane(s)
      /\ s.locked => /\ Held(seatServer) /\ Held(s)
                     /\ s.designated = seatServer.designated
      /\ Held(seatServer) => s.locked
      /\ s.silent \subseteq seatServer.silent
    <2>1. Sane(seatServer)
        BY DEF SeatInv
    <2> QED
        BY ONLY <2>1, None \notin SeatClients, PruneKeeps
<1>2. m.client \in SeatClients /\ posts' = posts \ {m} /\ m \notin posts'
    BY DEF SeatInv, PresenceThree!ServeLeave, PresenceThree!ServeFull,
        PresenceThree!ServeSeated
<1>3. \A p \in posts' : p.client \in SeatClients
    BY <1>2 DEF SeatInv
<1>4. ASSUME NEW t, seatServer' = t, Sane(t), forcing' \subseteq SeatClients,
             t.locked => /\ Held(seatServer) /\ Held(t)
                         /\ t.designated = seatServer.designated
      PROVE  SeatInv' /\ PresenceThree!LockHolds
    <2>1. SeatInv'
        BY <1>3, <1>4 DEF SeatInv
    <2>2. t.locked => PresenceThree!LeaderId(t) = PresenceThree!LeaderId(seatServer)
        BY <1>4, HeldLeads
    <2> QED
        BY <1>4, <2>1, <2>2 DEF PresenceThree!LockHolds
<1> HIDE DEF s
<1>5. CASE PresenceThree!ServeLeave(m)
    <2> DEFINE t == PresenceThree!Leave(s, m.client)
    <2>1. Sane(t) /\ (t.locked => Held(s) /\ Held(t) /\ t.designated = s.designated)
        <3>1. s.locked => Held(s)
            BY <1>1
        <3> QED
            BY ONLY <1>1, <1>2, <3>1, None \notin SeatClients, LeaveKeeps
    <2>2. seatServer' = t /\ forcing' \subseteq SeatClients
        BY <1>5 DEF PresenceThree!ServeLeave, SeatInv, s
    <2> HIDE DEF t
    <2> QED
        BY <1>1, <1>4, <2>1, <2>2 DEF Held
<1>6. CASE PresenceThree!ServeFull(m)
    <2>1. seatServer' = s /\ forcing' \subseteq SeatClients
        BY <1>6 DEF PresenceThree!ServeFull, SeatInv, s
    <2> QED
        BY <1>1, <1>4, <2>1
<1>7. CASE PresenceThree!ServeSeated(m)
    <2> DEFINE t == PresenceThree!Claim(s, m.client)
               u == PresenceThree!Act(t, m.client, m.action, m.target)
    <2>1. /\ Sane(t)
          /\ t.locked = s.locked /\ t.designated = s.designated
          /\ s.seats \subseteq t.seats /\ t.silent \subseteq s.silent
        BY ONLY <1>1, <1>2, ClaimKeeps
    <2>2. /\ Sane(u)
          /\ u.locked => t.locked \/ m.action = "lock"
          /\ u.locked /\ Held(t) =>
                \/ u.designated = t.designated /\ u.seats = t.seats
                \/ m.action = "grant" /\ m.client = t.designated
                \/ m.action \in {"take", "claim_starter"} /\ t.designated \in t.silent
        BY ONLY <1>2, <2>1, None \notin SeatClients, ActKeeps
    <2>3. /\ seatServer' = IF m.action = "force" THEN t ELSE u
          /\ forcing' \subseteq SeatClients
        BY <1>2, <1>7 DEF PresenceThree!ServeSeated, SeatInv, s
    <2> HIDE DEF t, u
    <2>4. t.locked => /\ Held(seatServer) /\ Held(t)
                      /\ t.designated = seatServer.designated
        BY <1>1, <2>1 DEF Held
    <2>5. CASE m.action = "force"
        BY <1>4, <2>1, <2>3, <2>4, <2>5
    <2>6. CASE m.action # "force"
        <3>1. seatServer' = u
            BY <2>3, <2>6
        <3>2. SeatInv'
            BY <1>3, <2>2, <2>3, <3>1 DEF SeatInv
        <3>3. ASSUME seatServer.locked, u.locked,
                     PresenceThree!LeaderId(u) # PresenceThree!LeaderId(seatServer)
              PROVE  \/ m.action = "grant" /\ m.client = PresenceThree!LeaderId(seatServer)
                     \/ /\ m.action \in {"take", "claim_starter"}
                        /\ PresenceThree!LeaderId(seatServer) \in seatServer.silent
                     \/ /\ m.action = "lock"
                        /\ seatServer.designated \notin seatServer.seats
            <4>1. CASE t.locked
                <5>1. PresenceThree!LeaderId(seatServer) = t.designated
                    BY <2>4, <4>1, HeldLeads
                <5>2. ~(u.designated = t.designated /\ u.seats = t.seats)
                    BY <2>4, <3>3, <4>1, <5>1, HeldLeads DEF Held
                <5> QED
                    BY <1>1, <2>1, <2>2, <2>4, <3>3, <4>1, <5>1, <5>2
            <4>2. CASE ~t.locked
                BY <1>1, <2>1, <2>2, <3>3, <4>2 DEF Held
            <4> QED
                BY <4>1, <4>2
        <3> QED
            BY <1>2, <3>1, <3>2, <3>3 DEF PresenceThree!LockHolds
    <2> QED
        BY <2>5, <2>6
<1> QED
    BY <1>5, <1>6, <1>7

LEMMA SeatStep ==
    ASSUME SeatInv, None \notin SeatClients, [PresenceThree!Next]_seatVars
    PROVE  SeatInv' /\ PresenceThree!LockHolds
<1>1. CASE \E m \in posts : \/ PresenceThree!ServeLeave(m)
                            \/ PresenceThree!ServeFull(m)
                            \/ PresenceThree!ServeSeated(m)
    BY <1>1, ServeStep
<1>2. ASSUME NEW c \in SeatClients, PresenceThree!FinishForce(c)
      PROVE  SeatInv' /\ PresenceThree!LockHolds
    <2>1. CASE c \in SeatAdmins
        <3>1. seatServer' = [seatServer EXCEPT !.designated = c, !.requests = @ \ {c}]
            BY <1>2, <2>1 DEF PresenceThree!FinishForce, PresenceThree!Designate
        <3>2. Sane(seatServer')
            BY <3>1 DEF SeatInv, Sane
        <3>3. /\ c \in forcing \cap SeatAdmins /\ c \notin forcing'
              /\ forcing' \subseteq forcing /\ posts' = posts
            BY <1>2, <2>1 DEF PresenceThree!FinishForce
        <3> QED
            BY <3>2, <3>3 DEF SeatInv, PresenceThree!LockHolds
    <2>2. CASE c \notin SeatAdmins
        <3>1. UNCHANGED seatServer /\ forcing' \subseteq forcing /\ posts' = posts
            BY <1>2, <2>2 DEF PresenceThree!FinishForce
        <3> QED
            BY <3>1, SeatsRest DEF SeatInv
    <2> QED
        BY <2>1, <2>2
<1>3. ASSUME NEW c \in SeatClients, NEW action, NEW target,
             PresenceThree!Send(c, action, target)
      PROVE  SeatInv' /\ PresenceThree!LockHolds
    <2>1. /\ UNCHANGED <<seatServer, forcing>>
          /\ posts' = posts \cup {[client |-> c, action |-> action, target |-> target]}
        BY <1>3 DEF PresenceThree!Send
    <2>2. \A m \in posts' : m.client \in SeatClients
        BY <2>1 DEF SeatInv
    <2> QED
        BY <2>1, <2>2, SeatsRest
<1>4. CASE \E c \in SeatClients : PresenceThree!Heartbeat(c)
    BY <1>3, <1>4 DEF PresenceThree!Heartbeat
<1>5. CASE \E c \in SeatClients, action \in PresenceThree!Commands,
             target \in SeatClients \cup {None} : PresenceThree!Press(c, action, target)
    BY <1>3, <1>5 DEF PresenceThree!Press
<1>6. CASE (\E a \in answers : PresenceThree!Apply(a)) \/ PresenceThree!Lose
    <2>1. UNCHANGED <<seatServer, forcing>> /\ posts' \subseteq posts
        BY <1>6 DEF PresenceThree!Apply, PresenceThree!Lose
    <2> QED
        BY <2>1, SeatsRest DEF SeatInv
<1>7. CASE \E c \in SeatClients : PresenceThree!Close(c) \/ PresenceThree!Open(c)
    <2> PICK c \in SeatClients : PresenceThree!Close(c) \/ PresenceThree!Open(c)
        BY <1>7
    <2>1. /\ UNCHANGED <<seatServer, forcing>>
          /\ \E action, target :
                posts' = posts \cup {[client |-> c, action |-> action, target |-> target]}
        BY Zenon DEF PresenceThree!Close, PresenceThree!Open
    <2>2. \A m \in posts' : m.client \in SeatClients
        BY <2>1 DEF SeatInv
    <2> QED
        BY <2>1, <2>2, SeatsRest
<1>8. ASSUME NEW c \in SeatClients, PresenceThree!Elapse(c)
      PROVE  SeatInv' /\ PresenceThree!LockHolds
    <2>1. /\ seatServer' = [seatServer EXCEPT !.silent = @ \cup {c}]
          /\ UNCHANGED <<forcing, posts>>
        BY <1>8 DEF PresenceThree!Elapse
    <2>2. /\ Sane(seatServer')
          /\ seatServer'.seats = seatServer.seats
          /\ seatServer'.earlier = seatServer.earlier
          /\ seatServer'.designated = seatServer.designated
        BY <2>1 DEF SeatInv, Sane
    <2>3. PresenceThree!LeaderId(seatServer') = PresenceThree!LeaderId(seatServer)
        BY <2>2, SameLeader
    <2> QED
        BY <2>1, <2>2, <2>3 DEF SeatInv, PresenceThree!LockHolds
<1>9. CASE PresenceThree!Restart
    <2>1. seatServer' = PresenceThree!EmptyServer /\ forcing' = {} /\ posts' = posts
        BY <1>9 DEF PresenceThree!Restart
    <2> QED
        BY <2>1 DEF SeatInv, Sane, PresenceThree!EmptyServer, PresenceThree!LockHolds
<1>10. CASE UNCHANGED seatVars
    BY <1>10, SeatsRest DEF seatVars, SeatInv
<1> QED
    BY <1>1, <1>2, <1>4, <1>5, <1>6, <1>7, <1>8, <1>9, <1>10 DEF PresenceThree!Next

-----------------------------------------------------------------------------
(* ----- The other components, and the page as a whole ----- *)

\* The list of sessions with room for all of them, and at the browser's cap with a
\* worker out of reach and mirrors that count laps. Pushes overtake each other in both.
Registry ==
    INSTANCE SessionRegistry WITH
        Devices <- {"lead", "mirror"}, Leader <- "lead", MaxIds <- 2, Cap <- 2,
        ServerCap <- 2, Attempts <- 2, Edits <- 3, Loads <- 1, Fails <- 2,
        Slow <- TRUE, Hasty <- FALSE, BadLoads <- FALSE, Mirrors <- FALSE,
        local <- regLocal, server <- regServer, clock <- regClock, edits <- regEdits
RegistrySlow ==
    INSTANCE SessionRegistry WITH
        Devices <- {"lead", "mirror"}, Leader <- "lead", MaxIds <- 2, Cap <- 1,
        ServerCap <- 2, Attempts <- 2, Edits <- 3, Loads <- 2, Fails <- 1,
        Slow <- TRUE, Hasty <- FALSE, BadLoads <- TRUE, Mirrors <- TRUE,
        local <- regLocal, server <- regServer, clock <- regClock, edits <- regEdits

\* The race plan, one page editing and one following.
Plan ==
    INSTANCE RacePlan WITH
        Clients <- {"a", "b"}, Mirrors <- {"b"}, Values <- {1, 2, 3}, MaxEdits <- 2,
        Offline <- FALSE, local <- planLocal, server <- planServer,
        edits <- planEdits

ASSUME TracksideBounds ==
    /\ Registry!LeaderAssumption
    /\ Registry!BoundsAssumption
    /\ Registry!ModesAssumption
    /\ RegistrySlow!LeaderAssumption
    /\ RegistrySlow!BoundsAssumption
    /\ RegistrySlow!ModesAssumption
    /\ Plan!RacePlanParams

regVars == <<regLocal, regServer, pushes, sync, plan, unsent, regClock, regEdits,
    loads, fails>>
planVars == <<planLocal, grace, poll, puts, planServer, typed, editors, planEdits>>

vars == <<scene, seatVars, feedVars, timedVars, cacheVars, regVars, planVars, dayVars>>

\* The scene is chosen once; the components of the other scenes rest in an initial state.
Init ==
    /\ scene \in Scenes
    /\ IF scene = "settle" THEN PresenceTwo!Init ELSE PresenceThree!Init
    /\ FeedDrops!Init
    /\ LapsReload!Init
    /\ CASE scene = "follow" -> CacheFollow!Init [] scene = "reload" -> CacheReload!Init
         [] OTHER -> CacheStops!Init
    /\ Registry!Init
    /\ Plan!Init
    /\ Days!Init
    /\ scene # "plan" => planServer = Plan!Unset

InPresence ==
    /\ \/ scene = "presence" /\ PresenceThree!Next
       \/ scene = "settle" /\ PresenceTwo!Next
    /\ UNCHANGED <<scene, feedVars, timedVars, cacheVars, regVars, planVars, dayVars>>

InLiveFeed ==
    /\ \/ scene = "feed" /\ FeedDrops!Next
       \/ scene = "heals" /\ FeedHeals!Next
    /\ UNCHANGED <<scene, seatVars, timedVars, cacheVars, regVars, planVars, dayVars>>

InLapTimer ==
    /\ \/ scene = "laps" /\ LapsReload!Next
       \/ scene = "stops" /\ LapsStop!Next
    /\ UNCHANGED <<scene, seatVars, feedVars, cacheVars, regVars, planVars, dayVars>>

InSessionCache ==
    /\ \/ scene = "cache" /\ CacheStops!Next
       \/ scene = "reload" /\ CacheReload!Next
       \/ scene = "follow" /\ CacheFollow!Next
    /\ UNCHANGED <<scene, seatVars, feedVars, timedVars, regVars, planVars, dayVars>>

InSessionRegistry ==
    /\ \/ scene = "registry" /\ Registry!Next
       \/ scene = "crowded" /\ RegistrySlow!Next
    /\ UNCHANGED <<scene, seatVars, feedVars, timedVars, cacheVars, planVars,
                   dayVars>>

InRacePlan ==
    /\ scene = "plan" /\ Plan!Next
    /\ UNCHANGED <<scene, seatVars, feedVars, timedVars, cacheVars, regVars, dayVars>>

InDriveDays ==
    /\ \/ scene = "days" /\ Days!Next
       \/ scene = "lossy" /\ DaysLossy!Next
    /\ UNCHANGED <<scene, seatVars, feedVars, timedVars, cacheVars, regVars,
                   planVars>>

Next ==
    \/ InPresence
    \/ InLiveFeed
    \/ InLapTimer
    \/ InSessionCache
    \/ InSessionRegistry
    \/ InRacePlan
    \/ InDriveDays

Spec ==
    /\ Init /\ [][Next]_vars
    /\ \A c \in {"a", "b"} :
          /\ WF_seatVars(scene = "settle" /\ PresenceTwo!Heartbeat(c))
          /\ WF_seatVars(scene = "settle" /\ \E m \in posts : m.client = c /\ PresenceTwo!Serve(m))
          /\ WF_seatVars(scene = "settle" /\ \E a \in answers : a.client = c /\ PresenceTwo!Apply(a))
          /\ WF_seatVars(scene = "settle" /\ PresenceTwo!FinishForce(c))
          /\ WF_seatVars(scene = "settle" /\ c \notin open /\ PresenceTwo!Elapse(c))
    /\ WF_feedVars(scene = "heals" /\ FeedHeals!AutoStart)
    /\ WF_feedVars(scene = "heals" /\ FeedHeals!RetryFires)
    /\ WF_feedVars(scene = "heals" /\ \E s \in FeedStreams : FeedHeals!ConfigArrives(s))
    /\ \A s \in FeedStreams :
          /\ WF_feedVars(scene = "heals" /\ FeedHeals!Opens(s))
          /\ WF_feedVars(scene = "heals" /\ FeedHeals!KafkaAnswers(s))
          /\ WF_feedVars(scene = "heals" /\ FeedHeals!Refused(s))
    /\ \A c \in {"a", "b"} :
          /\ WF_cacheVars(scene = "follow" /\ CacheFollow!Load(c))
          /\ WF_cacheVars(scene = "follow" /\ CacheFollow!ReadIndexed(c))
          /\ WF_cacheVars(scene = "follow" /\ CacheFollow!Decide(c))
          /\ WF_cacheVars(scene = "follow" /\ CacheFollow!Beat(c))
          /\ WF_cacheVars(scene = "follow" /\ CacheFollow!Poll(c))
    /\ WF_cacheVars(scene = "follow" /\ \E r \in net : CacheFollow!Deliver(r))
    /\ \A c \in {"a", "b"} :
          /\ SF_planVars(scene = "plan" /\ Plan!GraceEnds(c))
          /\ WF_planVars(scene = "plan" /\ Plan!Poll(c))
          /\ WF_planVars(scene = "plan" /\ Plan!ServerGet(c))
          /\ WF_planVars(scene = "plan" /\ Plan!Polled(c))
    /\ WF_planVars(scene = "plan" /\ \E p \in puts : Plan!ServerPut(p))

\* Presence: while the lock holds, silence, reloads and late beacons never move the
\* leadership; a grant, a claim in the leader's absence or an admin's force does.
LockHolds == [][scene = "presence" => PresenceThree!LockHolds]_seatVars

\* Presence: after the last disturbance the page that the server calls leader, and no
\* other, is in control.
Settles == (scene = "settle") => PresenceTwo!Settles

\* startLiveData and its reconnect timer: no order of drops, failed fetches and stops
\* leaves a retry behind that would restart a feed nobody wants.
RetryIsWanted == scene = "feed" => FeedDrops!RetryIsWanted

\* The feed's reference never holds a closed source while the page is there.
RefIsUsable == scene = "feed" => FeedDrops!RefIsUsable

\* Once faults end, a wanted feed flows for good.
Heals == (scene = "heals") => FeedHeals!Heals

\* The lap timer books energy once: laps and the running lap add up to no more than
\* the session's total, whatever gates, presses, stops and reloads closed them.
EnergyOnce == scene = "laps" => LapsReload!EnergyOnce

\* The sectors of a lap the gate closed tile it, those of a pressed lap fit into it.
SectorsTile == scene = "laps" => LapsReload!SectorsTile

\* No stretch of car time is in two laps, and a lap id names one lap.
LapsDisjoint == scene = "laps" => LapsReload!LapsDisjoint

\* No sample, edit, save or reload changes which laps the strategist selected.
ChoiceIsManual == [][scene = "laps" => LapsReload!ChoiceIsManual]_timedVars

\* After Stop Lap no crossing of the line starts a lap, on a page that is not reloaded.
StopLapHolds == (scene = "stops") => LapsStop!StopLapHolds

\* A browser that stopped a session, with no flag of it still being saved, does not
\* restore it from any of the three stores, however late the deletes are.
EndedNotRestored == [][scene = "cache" => CacheStops!EndedNotRestored]_cacheVars

\* A reloaded page comes back with the session and laps that the closed one showed.
ReloadKeepsLaps == [][scene = "reload" => CacheReload!ReloadKeepsLaps]_cacheVars

\* Every mirror comes to show the shared session with its laps.
MirrorsFollow == (scene = "follow") => CacheFollow!MirrorsFollow

\* With no request under way, the worker has a browser's records, as new or newer, at
\* the latest once it answers a load of that browser: the page sends again what a push
\* that failed or came late took from the worker.
Converged ==
    /\ scene = "registry" => Registry!Converged
    /\ scene = "crowded" => RegistrySlow!Converged

\* The worker's record of a session holds the plan its leader entered last, at the
\* latest once it answers a load of the leader.
PlanStored == scene = "registry" => Registry!PlanStored

\* Merging the worker's list never takes a browser's record back to an older version,
\* though the worker's own may have gone back.
NeverOlder ==
    [][/\ scene = "registry" => Registry!NeverOlder
       /\ scene = "crowded" => RegistrySlow!NeverOlder]_regVars

\* The session under way is never dropped from its leader's list, at the cap either.
CurrentKept == scene = "crowded" => RegistrySlow!CurrentKept

\* A poll never takes back what the only editor of the race plan typed.
TypedStays == scene = "plan" => Plan!TypedStays

\* Once editing is over, all pages come to show one plan.
OnePlan == (scene = "plan") => Plan!OnePlan

\* Once nothing is under way, each day holds its session's laps as last corrected.
LapsKept == scene = "days" => Days!LapsKept

\* The open day holds the setup on the form, whatever order the debounced pushes took.
SetupKept == scene = "days" => Days!SetupKept

\* The day of the session under way is open.
SessionDayOpen == scene = "days" => Days!SessionDayOpen

\* Each day's packets begin where the day before it ended.
RangesApart == scene = "days" => Days!RangesApart

\* No flag is listed twice, although its post, its answer and the pull of all flags
\* overlap or are lost.
FlagsOnce == scene = "lossy" => DaysLossy!FlagsOnce

\* A session lists no flag older than itself, whatever day the flag was stored on.
FlagsOwn == scene = "lossy" => DaysLossy!FlagsOwn

(* ----- What the page promises, component by component ----- *)

\* The feed of LiveFeed: nobody's feed is restarted, nobody's is left on a closed source.
FeedSound ==
    /\ RetryIsWanted
    /\ RefIsUsable

\* The laps of LapTimer cut the session's time, distance and energy without overlap,
\* whatever mixture of gate, button, stop and reload ended them.
LapsSound ==
    /\ EnergyOnce
    /\ SectorsTile
    /\ LapsDisjoint
    /\ StopLapHolds

\* What a reload does: the session under way comes back with its laps and the
\* strategist's choice of them, one that was ended with no flag under way does not come
\* back.  One browser at a time.
ReloadTrue ==
    /\ EndedNotRestored
    /\ ReloadKeepsLaps
    /\ ChoiceIsManual

\* The list of sessions that browsers and worker share: no browser goes back to an older
\* version or drops the session under way, and the worker has every browser's records
\* again once that browser's next load is answered, over pushes that fail, are retried,
\* overtake each other and replace a newer record at the worker. Not while a page that
\* merges changes a record, which its merge then writes back over.
SharedKept ==
    /\ [](Converged /\ PlanStored /\ CurrentKept)
    /\ NeverOlder

\* What DriveDays leaves in the database is what the page had: laps, setup, packets and
\* flags, each on the day of its session and once.
DaysSound ==
    /\ LapsKept
    /\ SetupKept
    /\ SessionDayOpen
    /\ RangesApart
    /\ FlagsOnce
    /\ FlagsOwn

\* Once disturbances end there is one leader, its feed flows and its mirrors show it.
TracksideSettles ==
    /\ Settles
    /\ Heals
    /\ MirrorsFollow

\* The race plan: nothing typed is taken back, and every page comes to show one plan.
PlanShared ==
    /\ []TypedStays
    /\ OnePlan

-----------------------------------------------------------------------------
(* ----- The theorems ----- *)

\* A step of the page leaves the feed alone or is a step of its scene.
LEMMA FeedScene ==
    [Next]_vars /\ scene = "feed" => [FeedDrops!Next]_feedVars
BY DEF Next, vars, InPresence, InLiveFeed, InLapTimer, InSessionCache,
    InSessionRegistry, InRacePlan, InDriveDays

\* The scene is chosen once.
LEMMA OneScene == [Next]_vars => scene' = scene
BY DEF Next, vars, InPresence, InLiveFeed, InLapTimer, InSessionCache,
    InSessionRegistry, InRacePlan, InDriveDays

\* startLiveData and its reconnect timer, for any number of EventSources, calls,
\* presses, faults and outages: no retry outlives the wish for the feed, and the
\* reference of a mounted page never holds a closed source.
THEOREM FeedIsSound == Spec => []FeedSound
<1> DEFINE Inv == scene = "feed" => FeedInv
<1>1. Init => Inv
    BY FeedInit DEF Init
<1>2. Inv /\ [Next]_vars => Inv'
    <2>1. None \notin FeedStreams
        BY FeedBounds DEF FeedDrops!FeedParams
    <2> QED
        BY <2>1, FeedStep, FeedScene, OneScene
<1>3. Inv => FeedSound
    BY DEF FeedInv, FeedSound, RetryIsWanted, RefIsUsable
<1> QED
    BY <1>1, <1>2, <1>3, PTL DEF Spec

\* The presence route, for any clients and admins, any number of seats, and any losses,
\* reloads and restarts: a locked leader keeps the lead until it is granted, claimed in
\* the leader's absence, or forced.
THEOREM LeaderHoldsLock == Spec => LockHolds
<1> DEFINE Inv == scene = "presence" => SeatInv
<1>1. Init => Inv
    <2>1. Init /\ scene = "presence" => PresenceThree!Init
        BY DEF Init
    <2>2. PresenceThree!Init => SeatInv
        BY DEF PresenceThree!Init, PresenceThree!EmptyServer, SeatInv, Sane
    <2> QED
        BY <2>1, <2>2
<1>2. Inv /\ [Next]_vars =>
        Inv' /\ [scene = "presence" => PresenceThree!LockHolds]_seatVars
    <2>1. None \notin SeatClients
        BY SeatBounds DEF PresenceThree!PresenceParams
    <2>2. [Next]_vars /\ scene = "presence" => [PresenceThree!Next]_seatVars
        BY DEF Next, vars, InPresence, InLiveFeed, InLapTimer, InSessionCache,
            InSessionRegistry, InRacePlan, InDriveDays
    <2> QED
        BY <2>1, <2>2, SeatStep, OneScene
<1> QED
    BY <1>1, <1>2, PTL DEF Spec, LockHolds

DaysInv == (scene = "days" => DayInv) /\ (scene = "lossy" => FlagInv)

\* For any number of moves, sessions, packets, flags and lost calls: while requests are
\* answered promptly a session's day holds its laps and its setup once nothing is under way,
\* stays open while the session runs and shares no packet with another day; whatever is late or
\* lost, no flag is listed twice or for a session it was not raised in.
THEOREM DaysAreSound == Spec => []DaysSound
<1>1. Init => DaysInv
    <2> SUFFICES ASSUME Init PROVE DaysInv
        OBVIOUS
    <2>1. /\ days = <<>> /\ rows = {} /\ flagRows = {} /\ packet = 1
          /\ session = None /\ dayLaps = <<>> /\ flags = {} /\ setup = 0
          /\ lapTimer = FALSE /\ setupTimer = FALSE
          /\ reqs = {} /\ dayClock = 0 /\ moves = 0 /\ losses = 0
        BY DEF Init, Days!Init, Days!Blank
    <2>2. /\ IsSeq(days) /\ IsSeq(dayLaps) /\ DOMAIN days = {} /\ DOMAIN dayLaps = {}
          /\ days \in Seq(DayRow) /\ dayLaps \in Seq(SUBSET Nat)
        BY <2>1 DEF IsSeq
    <2>3. FlagInv
        BY <2>1, <2>2 DEF FlagInv, Calls, DaysLossy!FlagsOnce, DaysLossy!FlagsOwn
    <2>4. DayInv
        BY <2>1, <2>2 DEF DayInv, DayShape, Calls, LinkInv, RangeInv, LapInv, SetupInv, Linked,
            Days!RangesApart
    <2> QED
        BY <2>3, <2>4 DEF DaysInv
<1>2. DaysInv /\ [Next]_vars => DaysInv'
    <2> SUFFICES ASSUME DaysInv, [Next]_vars PROVE DaysInv'
        OBVIOUS
    <2>1. scene' = scene
        BY OneScene
    <2>2. scene = "days" => [Days!Next]_dayVars
        BY DEF Next, vars, InPresence, InLiveFeed, InLapTimer, InSessionCache,
            InSessionRegistry, InRacePlan, InDriveDays
    <2>3. scene = "lossy" => [DaysLossy!Next]_dayVars
        BY DEF Next, vars, InPresence, InLiveFeed, InLapTimer, InSessionCache,
            InSessionRegistry, InRacePlan, InDriveDays
    <2>4. FlagInv /\ UNCHANGED dayVars => FlagInv'
        BY FlagsRestStep DEF FlagInv, FlagsRest, dayVars
    <2>5. FlagInv /\ DaysLossy!Next => FlagInv'
        BY FlagPage, FlagServed DEF DaysLossy!Next
    <2> QED
        BY <2>1, <2>2, <2>3, <2>4, <2>5, DayStep DEF DaysInv
<1>3. DaysInv => DaysSound
    <2> SUFFICES ASSUME DaysInv PROVE DaysSound
        OBVIOUS
    <2>1. CASE scene = "days"
        <3>1. DayInv
            BY <2>1 DEF DaysInv
        <3>2. Days!LapsKept
            BY <3>1 DEF DayInv, LapInv, Days!LapsKept, Days!Quiet, RowsOf
        <3>3. Days!SetupKept /\ Days!SessionDayOpen /\ Days!RangesApart
            BY <3>1 DEF DayInv, SetupInv, RangeInv, Days!SetupKept, Days!SessionDayOpen,
                Days!Quiet, Linked
        <3> QED
            BY <2>1, <3>2, <3>3 DEF DaysSound, LapsKept, SetupKept, SessionDayOpen, RangesApart,
                FlagsOnce, FlagsOwn
    <2>2. CASE scene # "days"
        BY <2>2 DEF DaysInv, FlagInv, DaysSound, LapsKept, SetupKept, SessionDayOpen, RangesApart,
            FlagsOnce, FlagsOwn
    <2> QED
        BY <2>1, <2>2
<1> QED
    BY <1>1, <1>2, <1>3, PTL DEF Spec

ReloadInv ==
    /\ scene = "laps" => ChoiceInv
    /\ scene = "cache" => EndedInv
    /\ scene = "reload" => BackInv

\* Of one browser, for any bounds on laps, sessions, saves, reloads and lost requests: no
\* sample, save or reload changes which laps the strategist chose; the page comes back with
\* the session and laps it had saved last, with any number of flags; and, where no flag is
\* saved, it does not bring back a session that was stopped.
THEOREM ReloadIsTrue == Spec => ReloadTrue
<1>1. Init => ReloadInv
    <2> SUFFICES ASSUME Init PROVE ReloadInv
        OBVIOUS
    <2>1. scene = "laps" => ChoiceInv
        <3>1. timedLaps = <<>> /\ timedEdits = 0 /\ DOMAIN timedLaps = {}
            BY DEF Init, LapsReload!Init
        <3> QED
            BY <3>1 DEF ChoiceInv, Numbered, AllChosen, IsSeq
    <2>2. scene \in {"cache", "reload"} =>
            /\ cacheClock = 0 /\ backend = Unsaved /\ net = {} /\ stopped = {} /\ cacheMirror = {}
            /\ page = [c \in {"a"} |-> "closed"]
            /\ mem = [c \in {"a"} |-> [sess |-> 0, laps |-> 0]]
            /\ found = [c \in {"a"} |-> {}]
            /\ cacheLocal = [c \in {"a"} |-> Unsaved] /\ indexed = [c \in {"a"} |-> Unsaved]
            /\ ended = [c \in {"a"} |-> 0] /\ idbQueue = [c \in {"a"} |-> <<>>]
            /\ flagging = [c \in {"a"} |-> 0]
        BY DEF Init, CacheStops!Init, CacheReload!Init, CacheStops!NoDoc, CacheReload!NoDoc,
            CacheStops!Empty, CacheReload!Empty, Unsaved
    <2>3. /\ scene = "cache" => budget = [sessions |-> EndSessions, saves |-> EndSaves,
                reloads |-> EndReloads, flags |-> 0, losses |-> EndLosses]
          /\ scene = "reload" => budget = [sessions |-> BackSessions, saves |-> BackSaves,
                reloads |-> BackReloads, flags |-> BackFlags, losses |-> BackLosses]
        BY DEF Init, CacheStops!Init, CacheReload!Init
    <2>4. EndSessions \in Nat /\ BackSessions \in Nat
        BY ReloadBounds DEF CacheStops!CacheParams, CacheReload!CacheParams
    <2>5. ASSUME scene \in {"cache", "reload"}
          PROVE  /\ CacheInv /\ Copies = {Unsaved} /\ Newest = Unsaved /\ Unsaved.sess = 0
                 /\ {"sessions", "flags"} \subseteq DOMAIN budget
        <3>1. Queued(<<>>) = {} /\ <<>> \in Seq(SavedDoc)
            BY DEF Queued
        <3>2. Unsaved \in SavedDoc /\ Unsaved.sess = 0 /\ Unsaved.at = 0
            BY DEF Unsaved, SavedDoc
        <3>3. {"sessions", "flags"} \subseteq DOMAIN budget /\ budget["sessions"] \in Nat
            BY <2>3, <2>4, <2>5
        <3> HIDE DEF Unsaved
        <3>4. Copies = {Unsaved} /\ Newest = Unsaved
            BY <2>2, <2>5, <3>1 DEF Copies, Newest
        <3>5. CacheShape
            <4>1. mem \in [{"a"} -> [sess : Nat, laps : Nat]]
                BY <2>2, <2>5
            <4>2. idbQueue \in [{"a"} -> Seq(SavedDoc)]
                <5>1. idbQueue = [c \in {"a"} |-> <<>>]
                    BY <2>2, <2>5
                <5>2. \A x \in Seq(SavedDoc) : [c \in {"a"} |-> x] \in [{"a"} -> Seq(SavedDoc)]
                    OBVIOUS
                <5> QED
                    BY <3>1, <5>1, <5>2, Zenon
            <4>3. ended \in [{"a"} -> Nat] /\ flagging \in [{"a"} -> Nat] /\ cacheClock \in Nat
                BY <2>2, <2>5
            <4>4. /\ page = [c \in {"a"} |-> page[c]] /\ found = [c \in {"a"} |-> found[c]]
                  /\ cacheLocal = [c \in {"a"} |-> cacheLocal[c]]
                  /\ indexed = [c \in {"a"} |-> indexed[c]]
                BY <2>2, <2>5
            <4> QED
                BY <3>2, <3>3, <3>4, <4>1, <4>2, <4>3, <4>4 DEF CacheShape
        <3>6. NewestInv /\ LoadInv
            BY <2>2, <2>5, <3>2, <3>4 DEF NewestInv, LoadInv
        <3> QED
            BY <3>2, <3>3, <3>4, <3>5, <3>6 DEF CacheInv
    <2>6. scene = "cache" => EndedInv
        <3> SUFFICES ASSUME scene = "cache" PROVE EndedInv
            OBVIOUS
        <3>1. budget["sessions"] = EndSessions /\ budget["flags"] = 0
            BY <2>3
        <3>2. EndSessions - budget["sessions"] = 0
            BY <2>4, <3>1
        <3>3. stopped = {} /\ mem["a"].sess = 0 /\ ended["a"] = 0 /\ flagging["a"] = 0
            BY <2>2
        <3>4. StartedTill(0)
            BY <2>5, <3>3 DEF StartedTill
        <3> QED
            BY <2>4, <2>5, <3>1, <3>2, <3>3, <3>4 DEF EndedInv
    <2>7. scene = "reload" => BackInv
        BY <2>3, <2>4, <2>5 DEF BackInv
    <2> QED
        BY <2>1, <2>6, <2>7 DEF ReloadInv
<1>2. ASSUME ReloadInv, [Next]_vars
      PROVE  /\ ReloadInv'
             /\ [scene = "laps" => LapsReload!ChoiceIsManual]_timedVars
             /\ [scene = "cache" => CacheStops!EndedNotRestored]_cacheVars
             /\ [scene = "reload" => CacheReload!ReloadKeepsLaps]_cacheVars
    <2>1. scene' = scene
        BY <1>2, OneScene
    <2>2. /\ scene = "laps" => [LapsReload!Next]_timedVars
          /\ scene = "cache" => [CacheStops!Next]_cacheVars
          /\ scene = "reload" => [CacheReload!Next]_cacheVars
        BY <1>2 DEF Next, vars, InPresence, InLiveFeed, InLapTimer, InSessionCache,
            InSessionRegistry, InRacePlan, InDriveDays
    <2>3. scene = "laps" => ChoiceInv' /\ [LapsReload!ChoiceIsManual]_timedVars
        BY <1>2, <2>2, ChoiceStep DEF ReloadInv
    <2>4. scene = "cache" => EndedInv' /\ [CacheStops!EndedNotRestored]_cacheVars
        BY <1>2, <2>2, EndedStep DEF ReloadInv
    <2>5. scene = "reload" => BackInv' /\ [CacheReload!ReloadKeepsLaps]_cacheVars
        BY <1>2, <2>2, BackStep DEF ReloadInv
    <2> QED
        BY <2>1, <2>3, <2>4, <2>5 DEF ReloadInv
<1>3. Spec => [](ReloadInv)
    BY <1>1, <1>2, PTL DEF Spec
<1>4. Spec => ChoiceIsManual
    BY <1>2, <1>3, PTL DEF Spec, ChoiceIsManual
<1>5. Spec => EndedNotRestored
    BY <1>2, <1>3, PTL DEF Spec, EndedNotRestored
<1>6. Spec => ReloadKeepsLaps
    BY <1>2, <1>3, PTL DEF Spec, ReloadKeepsLaps
<1> QED
    BY <1>4, <1>5, <1>6, PTL DEF ReloadTrue

==============================================================================
