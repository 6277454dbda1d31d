------------------------------ MODULE DriveDays ------------------------------
(* A trackside session is backed by a drive_day row: the session leader's     *)
(* page (TracksideApp.tsx) opens and closes the row and stores its laps,      *)
(* flags and setup through app/api/{end-event, new-drive-day, laps/sync,      *)
(* event-flag, update-drive-day}. Requests may overtake each other.           *)
EXTENDS Integers, Sequences, FiniteSets, FiniteSetsExt

CONSTANTS Moves,       \* bound on what the strategist does
          MaxSessions, \* bound on sessions
          MaxPackets,  \* bound on packets
          MaxFlags,    \* bound on flags, other devices' included
          Losses,      \* bound on requests or answers lost
          Slow,        \* the kinds of request that may outlast the page's next step
          Hasty,       \* may a new session start before the lap timer fires?
          Clears,      \* is a setup field ever emptied?
          None

BoundsAssumption == /\ Moves \in Nat /\ MaxSessions \in Nat /\ MaxPackets \in Nat \ {0}
                           /\ MaxFlags \in Nat /\ Losses \in Nat
                           /\ None \notin Nat
                           /\ None \notin [id : Nat, day : Nat \cup {None}, started : Nat]
ModesAssumption == Slow \subseteq {"end", "create", "laps", "setup", "flag"} /\ Hasty \in BOOLEAN /\ Clears \in BOOLEAN

VARIABLES days,      \* drive_day: [active, from, to, setup], by day_id,
                     \* with the session it was made for
          rows,      \* classifier rows: [day, lap] of type 'lap'
          flagRows,  \* classifier rows: [day, t] of type 'event_flag'
          packet,    \* the newest packet
          session,   \* sessionInfo: [id, day, started], or None
          laps,      \* the laps of each session, by id
          flags,     \* liveState.flags: [t, saved]
          setup,     \* driveDaySetup, one field of it
          lapTimer, setupTimer,   \* a debounced push is due
          reqs,      \* requests not answered yet
          clock, moves, losses

server == <<days, rows, flagRows, packet>>
page == <<session, laps, flags, setup, lapTimer, setupTimer>>
vars == <<server, page, reqs, clock, moves, losses>>

Blank == 0
Setups == 1..2

Init == /\ days = <<>> /\ rows = {} /\ flagRows = {} /\ packet = 1
        /\ session = None /\ laps = <<>> /\ flags = {} /\ setup = Blank
        /\ lapTimer = FALSE /\ setupTimer = FALSE
        /\ reqs = {} /\ clock = 0 /\ moves = 0 /\ losses = 0

Waits == \A r \in reqs : r.kind \in Slow
User == moves < Moves /\ moves' = moves + 1 /\ Waits

\* The routes' "latest active drive day".
ActiveDays == {d \in DOMAIN days : days[d].active}
ActiveDay == IF ActiveDays = {} THEN None ELSE Max(ActiveDays)

End(next) == [kind |-> "end", day |-> None, next |-> next]
Create(id) == [kind |-> "create", id |-> id, setup |-> setup]
LapSync(d, ls) == [kind |-> "laps", day |-> d, laps |-> ls, cleared |-> FALSE]
Update(d) == [kind |-> "setup", day |-> d, setup |-> setup]
Flag(t) == [kind |-> "flag", t |-> t, answer |-> None]

Packet == /\ packet < MaxPackets /\ packet' = packet + 1
          /\ UNCHANGED <<days, rows, flagRows, page, reqs, clock, moves, losses>>

-----------------------------------------------------------------------------
(* The leader's page.                                                         *)

\* Effects without a linked day do nothing, and those of the last session are
\* called off.
startNewSession ==
  /\ User /\ Len(laps) < MaxSessions /\ (Hasty \/ ~lapTimer)
  /\ clock' = clock + 1
  /\ session' = [id |-> Len(laps) + 1, day |-> None, started |-> clock']
  /\ laps' = Append(laps, {}) /\ flags' = {}
  /\ lapTimer' = FALSE /\ setupTimer' = FALSE
  /\ reqs' = reqs \cup {End(Len(laps) + 1)}
  /\ UNCHANGED <<server, setup, losses>>

\* Mutant: the laps still waiting for their timer are forgotten.
StopWithoutFlush ==
  /\ User /\ session # None
  /\ session' = None /\ flags' = {} /\ lapTimer' = FALSE /\ setupTimer' = FALSE
  /\ reqs' = reqs \cup {End(None)}
  /\ UNCHANGED <<server, laps, setup, clock, losses>>
stopEventAndDownload ==
  /\ User /\ session # None
  /\ session' = None /\ flags' = {} /\ lapTimer' = FALSE /\ setupTimer' = FALSE
  /\ reqs' = reqs \cup {End(None)}
              \cup (IF session.day = None THEN {} ELSE {LapSync(session.day, laps[session.id])})
  /\ UNCHANGED <<server, laps, setup, clock, losses>>

\* A lap is finished, its time or note corrected, or it is deleted.
ChangeLap ==
  /\ User /\ session # None /\ clock' = clock + 1
  /\ LET mine == laps[session.id] IN
     \/ laps' = [laps EXCEPT ![session.id] = mine \cup {clock'}]
     \/ \E l \in mine : laps' = [laps EXCEPT ![session.id] = (mine \ {l}) \cup {clock'}]
     \/ \E l \in mine : laps' = [laps EXCEPT ![session.id] = mine \ {l}]
  /\ lapTimer' = (session.day # None)
  /\ UNCHANGED <<server, session, flags, setup, setupTimer, reqs, losses>>

EditSetup ==
  /\ User /\ setup' \in Setups \cup (IF Clears THEN {Blank} ELSE {}) /\ setup' # setup
  /\ setupTimer' = (session # None /\ session.day # None)
  /\ UNCHANGED <<server, session, laps, flags, lapTimer, reqs, clock, losses>>

eventFlag ==
  /\ User /\ session # None /\ Cardinality(flagRows) < MaxFlags /\ clock' = clock + 1
  /\ flags' = flags \cup {[t |-> clock', saved |-> FALSE]}
  /\ reqs' = reqs \cup {Flag(clock')}
  /\ UNCHANGED <<server, session, laps, setup, lapTimer, setupTimer, losses>>

\* The 1500 ms timers.
PushLaps == /\ lapTimer /\ Waits /\ lapTimer' = FALSE
            /\ reqs' = reqs \cup {LapSync(session.day, laps[session.id])}
            /\ UNCHANGED <<server, session, laps, flags, setup, setupTimer, clock, moves, losses>>
PushSetup == /\ setupTimer /\ Waits /\ setupTimer' = FALSE
             /\ reqs' = reqs \cup {Update(session.day)}
             /\ UNCHANGED <<server, session, laps, flags, setup, lapTimer, clock, moves, losses>>

\* The 10 s poll of the active day's flags. An answer for another session is dropped.
PullFlags ==
  /\ session # None /\ session.day # None /\ ActiveDay = session.day
  /\ LET new == {r.t : r \in {r \in flagRows : r.day = ActiveDay /\ r.t >= session.started}}
                  \ {f.t : f \in flags} IN
     new # {} /\ flags' = flags \cup {[t |-> t, saved |-> TRUE] : t \in new}
  /\ UNCHANGED <<server, session, laps, setup, lapTimer, setupTimer, reqs, clock, moves, losses>>

-----------------------------------------------------------------------------
(* The routes. What is read and what is written are separate queries.        *)

Drop(r) == reqs' = reqs \ {r}

\* end-event looks the day up and then closes it; the page goes on to create.
EndFinds(r) ==
  /\ r.kind = "end" /\ r.day = None /\ ActiveDay # None
  /\ reqs' = (reqs \ {r}) \cup {[r EXCEPT !.day = ActiveDay]}
  /\ UNCHANGED <<server, page, clock, moves, losses>>

GoOn(r) == reqs' = (reqs \ {r}) \cup (IF r.next = None THEN {} ELSE {Create(r.next)})

EndCloses(r) ==
  /\ r.kind = "end"
  /\ IF r.day = None THEN ActiveDay = None /\ UNCHANGED days
     ELSE days' = [days EXCEPT ![r.day].active = FALSE, ![r.day].to = packet]
  /\ GoOn(r) /\ UNCHANGED <<rows, flagRows, packet, page, clock, moves, losses>>

NewDay(r) == [active |-> TRUE, to |-> None, setup |-> r.setup, of |-> r.id,
              from |-> IF days = <<>> \/ days[Len(days)].to = None THEN 1 ELSE days[Len(days)].to]

\* new-drive-day, and the page linking the day: its effects then push what
\* there is.
NewDriveDay(r, ok) ==
  /\ r.kind = "create" /\ Drop(r) /\ days' = Append(days, NewDay(r))
  /\ IF ok /\ session # None /\ session.id = r.id
     THEN session' = [session EXCEPT !.day = Len(days')] /\ lapTimer' = TRUE /\ setupTimer' = TRUE
     ELSE UNCHANGED <<session, lapTimer, setupTimer>>
  /\ losses' = IF ok THEN losses ELSE losses + 1
  /\ UNCHANGED <<rows, flagRows, packet, laps, flags, setup, clock, moves>>

\* laps/sync: deleteMany, then createMany.
LapsCleared(r) ==
  /\ r.kind = "laps" /\ ~r.cleared
  /\ rows' = {w \in rows : w.day # r.day}
  /\ reqs' = (reqs \ {r}) \cup {[r EXCEPT !.cleared = TRUE]}
  /\ UNCHANGED <<days, flagRows, packet, page, clock, moves, losses>>
LapsStored(r) ==
  /\ r.kind = "laps" /\ r.cleared /\ Drop(r)
  /\ rows' = rows \cup {[day |-> r.day, lap |-> l] : l \in r.laps}
  /\ UNCHANGED <<days, flagRows, packet, page, clock, moves, losses>>

\* A field that is blank is not sent, and what is not sent is not written.
UpdateDriveDay(r) ==
  /\ r.kind = "setup" /\ Drop(r)
  /\ days' = IF r.setup = Blank THEN days ELSE [days EXCEPT ![r.day].setup = r.setup]
  /\ UNCHANGED <<rows, flagRows, packet, page, clock, moves, losses>>

\* event-flag: the flag goes to the day that is active when it arrives.
EventFlag(r) ==
  /\ r.kind = "flag" /\ r.answer = None
  /\ flagRows' = IF ActiveDay = None THEN flagRows ELSE flagRows \cup {[day |-> ActiveDay, t |-> r.t]}
  /\ reqs' = (reqs \ {r}) \cup {[r EXCEPT !.answer = (ActiveDay # None)]}
  /\ UNCHANGED <<days, rows, packet, page, clock, moves, losses>>
FlagAnswered(r) ==
  /\ r.kind = "flag" /\ r.answer # None /\ Drop(r)
  /\ flags' = {IF f.t = r.t THEN [f EXCEPT !.saved = r.answer] ELSE f : f \in flags}
  /\ UNCHANGED <<server, session, laps, setup, lapTimer, setupTimer, clock, moves, losses>>

\* Another device flags the active day.
OtherFlag == /\ ActiveDay # None /\ Cardinality(flagRows) < MaxFlags
             /\ clock' = clock + 1 /\ flagRows' = flagRows \cup {[day |-> ActiveDay, t |-> clock']}
             /\ UNCHANGED <<days, rows, packet, page, reqs, moves, losses>>

\* A request that never arrives: the page goes on without it.
Lost(r) == /\ losses < Losses /\ losses' = losses + 1
           /\ IF r.kind = "end" THEN GoOn(r) ELSE Drop(r)
           /\ UNCHANGED <<server, page, clock, moves>>

Served(r) == \/ EndFinds(r) \/ EndCloses(r) \/ NewDriveDay(r, TRUE)
             \/ (losses < Losses /\ NewDriveDay(r, FALSE))
             \/ LapsCleared(r) \/ LapsStored(r) \/ UpdateDriveDay(r) \/ EventFlag(r) \/ FlagAnswered(r)

Next == \/ Packet \/ startNewSession \/ stopEventAndDownload \/ ChangeLap \/ EditSetup
        \/ eventFlag \/ PushLaps \/ PushSetup \/ PullFlags \/ OtherFlag
        \/ \E r \in reqs : Served(r) \/ Lost(r)

Spec == Init /\ [][Next]_vars

-----------------------------------------------------------------------------
Quiet == reqs = {} /\ ~lapTimer /\ ~setupTimer

\* Once nothing is under way, each session's day holds its laps as they were
\* last corrected, those of a session stopped right after a lap included.
LapsKept ==
  Quiet => \A d \in DOMAIN days : {w.lap : w \in {w \in rows : w.day = d}} = laps[days[d].of]

\* The day of the session under way holds the setup on the form.
SetupKept == (Quiet /\ session # None /\ session.day # None) => days[session.day].setup = setup

\* The day of the session under way is open: flags find it.
SessionDayOpen == (session # None /\ session.day # None) => days[session.day].active

\* Each day's packets begin where the day before it ended.
RangesApart == \A d \in DOMAIN days \ {1} : days[d - 1].to # None /\ days[d].from >= days[d - 1].to

\* No flag is listed twice, saved or not.
FlagsOnce == \A f, g \in flags : f.t = g.t => f = g

\* Flags listed are no older than the session, whatever day they were stored on.
FlagsOwn == \A f \in flags : session # None /\ f.t >= session.started
=============================================================================
