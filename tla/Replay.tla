------------------------------- MODULE Replay -------------------------------
(* The replay page (app/replay/page.tsx) and its routes under app/api/replay: *)
(* drive days are picked from a list, the summary of the day's event gives    *)
(* the timeline, and an event stream drives the cursor from an anchor.        *)
(* An event is its drive day: both have the same id.                          *)
EXTENDS Integers, FiniteSets, FiniteSetsExt

CONSTANTS Days,          \* ids of drive days
          Unfinished,    \* the days that have no packet range yet
          Span,          \* ticks from a day's first to its last packet
          Gap,           \* the tick of a day without a packet
          Marks,         \* classifiers: ticks from the first packet, open-ended
          Moves,         \* bound on what the user does
          Overlap,       \* bound on the stream's unanswered queries
          Drops,         \* bound on connections lost while playing
          LateSummaries, \* may a summary outlast the user's next choice?
          None

DaysAssumption == /\ Days \subseteq Nat \ {0} /\ (\E d \in Days : \A e \in Days : e <= d)
                  /\ Unfinished \subseteq Days /\ None \notin Nat
SpanAssumption == Span \in Nat \ {0} /\ Gap \in 1..Span - 1 /\ Marks \subseteq Int
BoundsAssumption == Moves \in Nat /\ Overlap \in Nat \ {0} /\ Drops \in Nat
LateAssumption == LateSummaries \in BOOLEAN

VARIABLES listed,      \* the drive days have been loaded
          day, events, \* selectedDay, selectedDayEvents
          eventReqs,   \* unanswered requests for events: [day, cancelled]
          selected, summary,
          summaryReqs, \* events whose summary is on its way
          playing, isEnd,
          cursor,      \* timeCursor
          cursorRef, anchor,     \* streamStartAtMs
          conn,        \* the open EventSource, with its stream at the server
          moves, drops

picks == <<listed, day, events, eventReqs>>
choice == <<selected, summary, summaryReqs>>
play == <<playing, isEnd, cursor, cursorRef, anchor>>
vars == <<picks, choice, play, conn, moves, drops>>

-----------------------------------------------------------------------------
(* The database: packets in id order are in time order.                      *)

\* Days do not share times.
First(e) == e * (Span + 3)
Packets(e) == IF e \in Unfinished THEN {} ELSE {First(e) + i : i \in (0..Span) \ {Gap}}

\* findReplayPacketAtOrAfter
PacketsFrom(e, at) == {p \in Packets(e) : p >= at}

\* findNextPacketIdInRange
HasNext(e, p) == \E q \in Packets(e) : q > p

\* buildReplayState; an error is reported as the end by a stream that plays.
ReplayState(e, at) == IF PacketsFrom(e, at) = {} THEN [cursor |-> None, end |-> TRUE]
                      ELSE LET p == Min(PacketsFrom(e, at)) IN
                           [cursor |-> p, end |-> ~HasNext(e, p)]

\* time_start and time_end of the summary route: null with an error.
TimeStart(s) == IF s = None \/ s \in Unfinished THEN None ELSE Min(Packets(s))
TimeEnd(s) == IF s = None \/ s \in Unfinished THEN None ELSE Max(Packets(s))

\* lap_times and flagged_events: a mark before the first packet is left out.
\* The marks here have no end, so one after the last packet stays.
Markers(s) == IF TimeStart(s) = None THEN {} ELSE {TimeStart(s) + m : m \in {m \in Marks : m >= 0}}

-----------------------------------------------------------------------------
(* The stream effect.                                                         *)

Deps == <<selected, playing, anchor, isEnd, TimeEnd(summary)>>

\* The route's first query is made when the stream is opened.
Open(e, from, pl) == [event |-> e, from |-> from, playing |-> pl, elapsed |-> 0, sends |-> {from}]

StreamEffect == conn' = IF UNCHANGED Deps THEN conn
                        ELSE IF selected' = None \/ anchor' = None \/ isEnd' THEN None
                        ELSE Open(selected', anchor', playing')

Init == /\ listed = FALSE /\ day = None /\ events = {} /\ eventReqs = {}
        /\ selected = None /\ summary = None /\ summaryReqs = {}
        /\ playing = FALSE /\ isEnd = FALSE
        /\ cursor = None /\ cursorRef = None /\ anchor = None
        /\ conn = None /\ moves = 0 /\ drops = 0

User == moves < Moves /\ moves' = moves + 1

-----------------------------------------------------------------------------
(* Days and events.                                                           *)

\* The effect of a new selectedDay, whose cleanup cancels the last request.
DayEffect == /\ selected' = None /\ summary' = None /\ isEnd' = FALSE /\ playing' = FALSE
             /\ cursor' = None /\ cursorRef' = None /\ anchor' = None
             /\ events' = {}
             /\ eventReqs' = {[r EXCEPT !.cancelled = TRUE] : r \in eventReqs}
                               \cup (IF day' = None THEN {} ELSE {[day |-> day', cancelled |-> FALSE]})
             /\ StreamEffect

ListDays == /\ ~listed /\ listed' = TRUE /\ day' = Max(Days) /\ DayEffect
            /\ UNCHANGED <<summaryReqs, moves, drops>>

SelectDay(d) == /\ listed /\ User /\ (LateSummaries \/ summaryReqs = {})
                /\ day' = IF d = day THEN None ELSE d
                /\ DayEffect /\ UNCHANGED <<listed, summaryReqs, drops>>

\* Mutant: the answer is shown whatever was picked since.
EventsArriveAlways(r) == /\ eventReqs' = eventReqs \ {r} /\ events' = {r.day}
                         /\ UNCHANGED <<listed, day, choice, play, conn, moves, drops>>
EventsArrive(r) == /\ eventReqs' = eventReqs \ {r}
                   /\ events' = IF r.cancelled THEN events ELSE {r.day}
                   /\ UNCHANGED <<listed, day, choice, play, conn, moves, drops>>

\* The list toggles the event; the effect asks for the summary.
SelectEvent(e) ==
  /\ User /\ (LateSummaries \/ summaryReqs = {})
  /\ IF e = selected
     THEN /\ selected' = None /\ summary' = None /\ isEnd' = FALSE
          /\ cursor' = None /\ cursorRef' = None /\ anchor' = None
          /\ UNCHANGED <<summaryReqs, playing>>
     ELSE selected' = e /\ summaryReqs' = summaryReqs \cup {e} /\ UNCHANGED <<summary, play>>
  /\ UNCHANGED <<picks, drops>> /\ StreamEffect

SummaryArrives(e) ==
  /\ summaryReqs' = summaryReqs \ {e} /\ summary' = e
  /\ isEnd' = FALSE /\ playing' = FALSE
  /\ cursor' = TimeStart(e) /\ cursorRef' = cursor' /\ anchor' = cursor'
  /\ UNCHANGED <<picks, selected, moves, drops>> /\ StreamEffect

-----------------------------------------------------------------------------
(* The controls.                                                              *)

handleTogglePlay ==
  /\ User /\ selected # None /\ TimeStart(summary) # None /\ ~isEnd
  /\ playing' = ~playing
  /\ anchor' = IF cursorRef # None THEN cursorRef
               ELSE IF cursor # None THEN cursor ELSE TimeStart(summary)
  /\ UNCHANGED <<picks, choice, isEnd, cursor, cursorRef, drops>> /\ StreamEffect

seekTo(t) == /\ cursor' = t /\ cursorRef' = t /\ isEnd' = FALSE /\ anchor' = t

handleRestart == /\ User /\ selected # None /\ TimeStart(summary) # None /\ isEnd
                 /\ playing' = TRUE /\ seekTo(TimeStart(summary))
                 /\ UNCHANGED <<picks, choice, drops>> /\ StreamEffect

\* The slider, and the markers above it.
Seek == /\ User /\ selected # None /\ TimeStart(summary) # None
        /\ \E t \in (TimeStart(summary)..TimeEnd(summary)) \cup Markers(summary) : seekTo(t)
        /\ UNCHANGED <<picks, choice, playing, drops>> /\ StreamEffect

-----------------------------------------------------------------------------
(* The stream. A state is shown when the server has it.                      *)

\* Mutant: each query is for the time the stream was opened at.
FrozenTick ==
  /\ conn # None /\ conn.playing /\ conn.sends = {}
  /\ conn' = [conn EXCEPT !.sends = {conn.from}]
  /\ UNCHANGED <<picks, choice, play, moves, drops>>
\* The interval of a stream that plays: another sendOnce.
StreamTick ==
  /\ conn # None /\ conn.playing
  /\ conn.elapsed > 0 \/ conn.sends = {}
  /\ Cardinality(conn.sends) < Overlap
  /\ conn.from + conn.elapsed <= First(conn.event) + Span + 1
  /\ conn' = [conn EXCEPT !.elapsed = @ + 1, !.sends = @ \cup {conn.from + conn.elapsed + 1}]
  /\ UNCHANGED <<picks, choice, play, moves, drops>>

\* onState for the last state; also what a stream that plays makes of an error.
OnEnd(at) ==
  LET s == ReplayState(conn.event, at) IN
  /\ conn # None /\ s.end /\ (s.cursor # None \/ conn.playing)
  /\ isEnd' = TRUE /\ playing' = FALSE
  /\ cursor' = IF TimeEnd(summary) # None THEN TimeEnd(summary) ELSE s.cursor
  /\ UNCHANGED <<picks, choice, cursorRef, anchor, moves, drops>> /\ StreamEffect

\* onState for any other state; a paused page takes one only.
OnState(at) ==
  LET s == ReplayState(conn.event, at) IN
  /\ conn # None /\ ~s.end
  /\ isEnd' = FALSE /\ cursor' = s.cursor /\ cursorRef' = s.cursor
  /\ conn' = IF conn.playing THEN [conn EXCEPT !.sends = @ \ {at}] ELSE None
  /\ UNCHANGED <<picks, choice, playing, anchor, moves, drops>>

\* onError or the 1500 ms timer while paused: no packet, or no answer.
SnapshotFails == /\ conn # None /\ ~conn.playing
                 /\ \/ \E at \in conn.sends : ReplayState(conn.event, at).cursor = None
                    \/ drops < Drops
                 /\ drops' = Min({Drops, drops + 1})
                 /\ conn' = None /\ UNCHANGED <<picks, choice, play, moves>>

\* A connection lost while playing is the browser's to open again, at the same address.
Reconnects == /\ conn # None /\ conn.playing /\ drops < Drops /\ drops' = drops + 1
              /\ conn' = Open(conn.event, conn.from, TRUE)
              /\ UNCHANGED <<picks, choice, play, moves>>

Stream == StreamTick \/ SnapshotFails
          \/ (conn # None /\ \E at \in conn.sends : OnEnd(at) \/ OnState(at))
Answers == (\E r \in eventReqs : EventsArrive(r)) \/ (\E e \in summaryReqs : SummaryArrives(e))

Next == \/ ListDays \/ (\E d \in Days : SelectDay(d)) \/ (\E e \in events : SelectEvent(e))
        \/ Answers \/ handleTogglePlay \/ handleRestart \/ Seek
        \/ Stream \/ Reconnects

\* The server ticks and answers.
Fairness == WF_vars(ListDays) /\ WF_vars(Answers) /\ WF_vars(Stream)

Spec == Init /\ [][Next]_vars /\ Fairness

-----------------------------------------------------------------------------
\* The events listed are those of the drive day picked, however late they came.
EventsOfDay == events \subseteq {day}

\* The timeline is that of the event replayed.
ShownIsSelected == summary # None => summary = selected

\* Nothing but the user's own moves takes the cursor back: not the pause, not
\* the stream's end, not the state that answers a seek. (A seek past the last
\* packet comes back to the end.)
NeverBack ==
    (cursor # None /\ cursor' # None /\ summary' = summary /\ selected' = selected)
       => (cursor' >= cursor \/ cursor' = TimeEnd(summary) \/ moves' # moves)

\* A stream that is reopened, or whose answers overtake each other, takes the cursor
\* back no further than where the user last set it off.
NotBeforeStart ==
    cursor # None => anchor # None /\ (cursor >= anchor \/ cursor = TimeEnd(summary))

\* The stream open is the one the page would open now.
StreamIsWanted == conn # None => /\ conn.event = selected /\ conn.from = anchor
                                 /\ conn.playing = playing /\ ~isEnd

\* The end shown is the end of the recording, and nothing plays there.
EndIsEnd == (isEnd /\ summary = selected) => ~playing /\ cursor = TimeEnd(summary)

\* What plays comes to its end, or is given up.
PlaysOut == (playing /\ selected # None) ~> (~playing \/ selected = None)
=============================================================================
