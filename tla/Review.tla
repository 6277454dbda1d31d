-------------------------------- MODULE Review --------------------------------
(*****************************************************************************)
(* The viewer tool after the drive: run reviews, the track mapper and the    *)
(* replay of a drive day, scene by scene.  A behaviour plays one component,  *)
(* in the conditions of its scene; the configuration says which scenes are   *)
(* played.                                                                   *)
(*****************************************************************************)
EXTENDS Integers, Sequences, FiniteSets, FiniteSetTheorems, TLC, TLAPS

CONSTANTS
    Scenes,
    None,
    LapCount, LapLength, LapNear, LapRates, LoopRates, FrameGaps, LoopGaps, PendingFrames,
    RunIds, HastyOpens, CalmOpens, RunJobs,
    ReplayDays, RawDays, DaySpan, LossySpan, PacketGap, ReplayMarks, ReplayMoves, LossyMoves,
    StreamOverlap, StreamDrops

VARIABLES
    scene,
    playerT, sel, playerPlaying, rate, endMode, loopA, loopB, anim, follow, focus,
    now, next, dirty, lag, gap, spent,
    noteDb, run, noteStored, live, base, noteT, imp, imports, ids, kept, gone,
    listStored, runs, current, player, openReq, opens, keys, timers, dels, imps, jobs,
    removed,
    store, lastActive, trackListed, page, pending, trackDb, saving, status, works,
    confirmed, cleared, trackEvents,
    replayListed, day, replayEvents, eventReqs, selected, summary, summaryReqs,
    replayPlaying, isEnd, cursor, cursorRef, anchor, conn, moves, drops

\* The player of a run: laps and camera; the A-B loop and the end of a lap.
Player ==
    INSTANCE ReviewPlayer WITH
        NLaps <- LapCount, LapLen <- LapLength, Near <- LapNear, Rates <- LapRates,
        Gaps <- FrameGaps, Uses <- {"end", "camera"}, MaxQueue <- PendingFrames, T <- playerT,
        playing <- playerPlaying
PlayerLoop ==
    INSTANCE ReviewPlayer WITH
        NLaps <- LapCount, LapLen <- LapLength, Near <- LapNear, Rates <- LoopRates,
        Gaps <- LoopGaps, Uses <- {"loop", "end"}, MaxQueue <- PendingFrames, T <- playerT,
        playing <- playerPlaying

\* Notes, cones and flags of a run, edited and imported again.
Notes ==
    INSTANCE ReviewNotes WITH
        Tabs <- {"t1"}, NLaps <- 2, LapLen <- 1, Hits <- {1}, FlagTimes <- {2},
        Origins <- {0}, MaxManual <- 2, MaxUntimed <- 1, MaxImports <- 2,
        db <- noteDb, stored <- noteStored, T <- noteT

\* The list of runs: opened in a hurry; imported and deleted.
RunsOpen ==
    INSTANCE ReviewRuns WITH
        Runs <- RunIds, Hasty <- TRUE, Timers <- TRUE, MaxOpens <- HastyOpens,
        MaxJobs <- RunJobs, stored <- listStored
RunsDelete ==
    INSTANCE ReviewRuns WITH
        Runs <- RunIds, Hasty <- FALSE, Timers <- FALSE, MaxOpens <- CalmOpens,
        MaxJobs <- RunJobs, stored <- listStored

\* The track mapper and its stored tracks.
Mapper ==
    INSTANCE TrackMapper WITH
        Names <- {"Untitled", "a", "b"}, Positions <- {1, 2, 3}, MinGap <- 2,
        Clashes <- FALSE, Moving <- TRUE, MaxPoints <- 3, MaxGates <- 2,
        MaxWorks <- 3, MaxEvents <- 5, listed <- trackListed, db <- trackDb,
        events <- trackEvents

\* The replay of a drive day; with connections lost and late summaries.
ReplayDay ==
    INSTANCE Replay WITH
        Days <- ReplayDays, Unfinished <- RawDays, Span <- DaySpan, Gap <- PacketGap,
        Marks <- ReplayMarks, Moves <- ReplayMoves, Overlap <- 1, Drops <- 0,
        LateSummaries <- FALSE,
        listed <- replayListed, events <- replayEvents, playing <- replayPlaying
ReplayLossy ==
    INSTANCE Replay WITH
        Days <- ReplayDays, Unfinished <- {}, Span <- LossySpan, Gap <- PacketGap,
        Marks <- ReplayMarks, Moves <- LossyMoves, Overlap <- StreamOverlap,
        Drops <- StreamDrops, LateSummaries <- TRUE,
        listed <- replayListed, events <- replayEvents, playing <- replayPlaying

ASSUME ReviewBounds ==
    /\ Player!SessionAssumption
    /\ PlayerLoop!SessionAssumption
    /\ Notes!NotesAssumption
    /\ RunsOpen!RunsParams
    /\ RunsDelete!RunsParams
    /\ Mapper!TrackMapperParams
    /\ ReplayDay!DaysAssumption
    /\ ReplayDay!SpanAssumption
    /\ ReplayDay!BoundsAssumption
    /\ ReplayDay!LateAssumption
    /\ ReplayLossy!DaysAssumption
    /\ ReplayLossy!SpanAssumption
    /\ ReplayLossy!BoundsAssumption
    /\ ReplayLossy!LateAssumption

playerVars == <<playerT, sel, playerPlaying, rate, endMode, loopA, loopB, anim,
    follow, focus, now, next, dirty, lag, gap, spent>>
noteVars == <<noteDb, run, noteStored, live, base, noteT, imp, imports, ids, kept,
    gone>>
listVars == <<listStored, runs, current, player, openReq, opens, keys, timers, dels,
    imps, jobs, removed>>
trackVars == <<store, lastActive, trackListed, page, pending, trackDb, saving,
    status, works, confirmed, cleared, trackEvents>>
replayVars == <<replayListed, day, replayEvents, eventReqs, selected, summary,
    summaryReqs, replayPlaying, isEnd, cursor, cursorRef, anchor, conn, moves, drops>>

vars == <<scene, playerVars, noteVars, listVars, trackVars, replayVars>>

\* The scene is chosen once; the components of the other scenes rest in an initial state.
Init ==
    /\ scene \in Scenes
    /\ IF scene = "loop" THEN PlayerLoop!Init ELSE Player!Init
    /\ Notes!Init
    /\ RunsOpen!Init
    /\ Mapper!Init
    /\ ReplayDay!Init
    /\ scene \notin {"player", "loop"} => playerT = Player!Start(1) /\ rate = 1
    /\ scene # "track" => lastActive = None /\ trackListed = {}

InReviewPlayer ==
    /\ \/ scene = "player" /\ Player!Next
       \/ scene = "loop" /\ PlayerLoop!Next
    /\ UNCHANGED <<scene, noteVars, listVars, trackVars, replayVars>>

InReviewNotes ==
    /\ scene = "notes" /\ Notes!Next
    /\ UNCHANGED <<scene, playerVars, listVars, trackVars, replayVars>>

InReviewRuns ==
    /\ \/ scene = "runs" /\ RunsOpen!Next
       \/ scene = "delete" /\ RunsDelete!Next
    /\ UNCHANGED <<scene, playerVars, noteVars, trackVars, replayVars>>

InTrackMapper ==
    /\ scene = "track" /\ Mapper!Next
    /\ UNCHANGED <<scene, playerVars, noteVars, listVars, replayVars>>

InReplay ==
    /\ \/ scene = "replay" /\ ReplayDay!Next
       \/ scene = "lossy" /\ ReplayLossy!Next
    /\ UNCHANGED <<scene, playerVars, noteVars, listVars, trackVars>>

Next ==
    \/ InReviewPlayer
    \/ InReviewNotes
    \/ InReviewRuns
    \/ InTrackMapper
    \/ InReplay

Spec ==
    /\ Init /\ [][Next]_vars
    /\ WF_playerVars(scene = "player" /\ Player!FrameBegins)
    /\ WF_playerVars(scene = "player" /\ Player!Callbacks)
    /\ WF_replayVars(scene = "lossy" /\ ReplayLossy!ListDays)
    /\ WF_replayVars(scene = "lossy" /\ ReplayLossy!Answers)
    /\ WF_replayVars(scene = "lossy" /\ ReplayLossy!Stream)

\* Playback is never faster than the clock at the chosen speed, although pausing and
\* playing within one frame leaves several chains of ticks.
InTime == scene = "player" => Player!InTime

\* While the page says it plays, a tick is on its way.
KeepsTicking == scene = "player" => Player!KeepsTicking

\* The page catches up with the clock: the lap shown is again and again the clock's.
SelCatchesUp == (scene = "player") => Player!SelCatchesUp

\* Following the car excludes a flight and a zoomed corner, whatever was switched last.
CameraOne == scene = "player" => Player!CameraOne

\* A tick that starts inside the A-B loop, and is no longer than it, ends inside it.
LoopHolds == [][scene = "loop" => PlayerLoop!LoopHolds]_playerVars

\* Set to stop at the end of a lap, the clock does not leave the lap by itself.
StaysOnLap == [][scene = "loop" => PlayerLoop!StaysOnLap]_playerVars

\* The stored hits are those the user entered and did not remove, through reloads and
\* imports.
HitsKept == scene = "notes" => Notes!HitsKept

\* A hit the user removed is not shown again when its flag is imported again.
RemovedStays == scene = "notes" => Notes!RemovedStays

\* Importing a day again adds no flag twice.
FlagsOnce == scene = "notes" => Notes!FlagsOnce

\* The table's buttons change the count of their lap by one, and of no other lap.
CountsByOne == [][scene = "notes" => Notes!CountsByOne]_noteVars

\* The run shown is the one asked for last, although others are still being read.
OpenLatest == scene = "runs" => RunsOpen!OpenLatest

\* When nothing is under way the list on the page is what is stored.
ListTrue == scene = "runs" => RunsOpen!ListTrue

\* Once its deletion is over nothing of a run is left.
NoLeftovers == scene = "delete" => RunsDelete!NoLeftovers

\* What is on the track page is stored, under its name, before the next event.
WorkSaved == scene = "track" => Mapper!WorkSaved

\* The list of tracks is the storage's.
ListMatchesStorage == scene = "track" => Mapper!ListMatchesStorage

\* The coloured segments make one line from the first point to the last, wherever the
\* gates were placed.
SegmentsJoin == scene = "track" => Mapper!SegmentsJoin

\* A stored track is lost only if the user deleted it or confirmed its replacement.
NothingLost == [][scene = "track" => Mapper!NothingLost]_trackVars

\* The events listed are those of the day picked, however late they came.
EventsOfDay ==
    /\ scene = "replay" => ReplayDay!EventsOfDay
    /\ scene = "lossy" => ReplayLossy!EventsOfDay

\* The timeline shown is that of the event replayed, if each summary is there before
\* the user's next choice.
ShownIsSelected == scene = "replay" => ReplayDay!ShownIsSelected

\* The stream that is open is the one the page would open now, also after it was lost
\* and whichever summary came last.
StreamIsWanted ==
    /\ scene = "replay" => ReplayDay!StreamIsWanted
    /\ scene = "lossy" => ReplayLossy!StreamIsWanted

\* A stream that is reopened, or answers out of order, takes the cursor back no further
\* than where the user set it off.
NotBeforeStart == scene = "lossy" => ReplayLossy!NotBeforeStart

\* Nothing but the user's moves takes the cursor back, on a stream that is not lost and
\* answers in order.
NeverBack == [][scene = "replay" => ReplayDay!NeverBack]_replayVars

\* The end shown is the end of the recording, and nothing plays there.
EndIsEnd == scene = "lossy" => ReplayLossy!EndIsEnd

\* What plays comes to its end or is given up, although connections are lost.
PlaysOut == (scene = "lossy") => ReplayLossy!PlaysOut

(* ----- What the review tool promises, component by component ----- *)

\* The player's clock: not too fast, not stopped while it says it plays, not out of its
\* loop or lap, with one camera.
PlayerSound ==
    /\ [](InTime /\ KeepsTicking /\ CameraOne)
    /\ LoopHolds
    /\ StaysOnLap

\* The notes: what the user entered or removed stays so over reloads and imports.
NotesKept ==
    /\ [](HitsKept /\ RemovedStays /\ FlagsOnce)
    /\ CountsByOne

\* The runs: the page shows the run asked for and the list stored, and a deleted run
\* leaves nothing.
RunsTrue ==
    /\ OpenLatest
    /\ ListTrue
    /\ NoLeftovers

\* The track mapper: what is drawn is stored, and no stored track is lost unasked.
TracksKept ==
    /\ [](WorkSaved /\ ListMatchesStorage /\ SegmentsJoin)
    /\ NothingLost

\* The replay, whatever is late, reopened or lost: events and stream are those of the
\* user's last choice, the cursor is not before where it was set off, an end shown is the
\* end. On a stream that is neither lost nor overtaken, with prompt summaries, the
\* timeline is that of the event too, and only the user takes the cursor back.
ReplaySound ==
    /\ [](EventsOfDay /\ ShownIsSelected /\ StreamIsWanted /\ NotBeforeStart /\ EndIsEnd)
    /\ NeverBack

\* The page catches up with the player's clock, and a replay comes to its end.
ReviewGoesOn ==
    /\ SelCatchesUp
    /\ PlaysOut

-----------------------------------------------------------------------------
(* Proofs: the list of runs, for any runs and any number of reads, deletions *)
(* and imports under way.                                                    *)

\* A read is of the newest request or of an older one; only the newest is of the run
\* asked for, and nothing else is shown.
ReadsInv ==
    /\ openReq \in Nat
    /\ player # None => player = current
    /\ \A o \in opens : o.req \in Nat /\ o.req <= openReq /\ (o.req = openReq => o.id = current)

\* Deletions and imports are records of a run and a phase.
Jobs == \A p \in dels \cup imps : p = [id |-> p.id, phase |-> p.phase]

\* A deletion that waits for a read is at its start: no read sets one back that has
\* touched the storage.
WaitsInv ==
    /\ \A d, e \in dels : d.id = e.id => d = e
    /\ \A o, p \in opens : o.by = p.by /\ o.by # None => o = p
    /\ \A o \in opens : o.by # None => \E d \in dels : d.id = o.by /\ d.phase = "opening"

\* Who has touched the storage still has to list it.
Touched(p) == p.phase \in {"keys", "list"}
ListInv == (\A p \in dels \cup imps : ~Touched(p)) => runs = listStored

OpenInv == ReadsInv /\ Jobs /\ WaitsInv /\ ListInv

\* In no hurry, one thing is under way: a deletion with the read it waits for, an
\* import, or a read.
OneAtATime ==
    /\ \A d, e \in dels : d = e
    /\ \A m, n \in imps : m = n
    /\ \A o, p \in opens : o = p
    /\ imps # {} => dels = {} /\ opens = {}
    /\ \A o \in opens, d \in dels : d.phase = "opening" /\ o.id # d.id

\* A run that is removed is not shown, read or timed, and has keys only while its
\* deletion is about to remove them.
GoneInv ==
    /\ removed \subseteq RunIds /\ \A p \in dels \cup imps : p.id \in RunIds
    /\ \A d \in dels : player # d.id
    /\ \A r \in removed :
          /\ r \notin listStored /\ player # r /\ r \notin timers
          /\ \A o \in opens : o.found => o.id # r
          /\ r \in keys => \E d \in dels : d.id = r /\ d.phase = "keys"

DeleteInv == ReadsInv /\ Jobs /\ OneAtATime /\ GoneInv

\* What a step does to the reads: it starts one, takes the answer of one, or neither.
Starts(id, by) ==
    /\ openReq' = openReq + 1
    /\ player' = None /\ current' = id
    /\ opens' = IF id = None THEN opens
                ELSE opens \cup {[req |-> openReq + 1, id |-> id,
                                  found |-> id \in listStored, by |-> by]}

Takes(o) ==
    /\ o \in opens /\ opens' = opens \ {o}
    /\ player' = IF o.req = openReq /\ o.found THEN o.id ELSE player
    /\ UNCHANGED <<openReq, current>>

LEMMA ReadsStep ==
    ASSUME ReadsInv,
           \/ \E id, by : Starts(id, by)
           \/ \E o \in opens : Takes(o)
           \/ UNCHANGED <<openReq, player, current, opens>>
    PROVE  ReadsInv'
<1>1. ASSUME NEW id, NEW by, Starts(id, by)
      PROVE  ReadsInv'
    <2>1. CASE id = None
        BY <1>1, <2>1 DEF ReadsInv, Starts
    <2>2. CASE id # None
        <3> DEFINE new == [req |-> openReq + 1, id |-> id, found |-> id \in listStored,
                           by |-> by]
        <3>1. new.req = openReq + 1 /\ new.id = id
            OBVIOUS
        <3>2. opens' = opens \cup {new}
            BY <1>1, <2>2 DEF Starts
        <3> HIDE DEF new
        <3> QED
            BY <1>1, <3>1, <3>2 DEF ReadsInv, Starts
    <2> QED
        BY <2>1, <2>2
<1>2. ASSUME NEW o \in opens, Takes(o)
      PROVE  ReadsInv'
    BY <1>2 DEF ReadsInv, Takes
<1>3. CASE UNCHANGED <<openReq, player, current, opens>>
    BY <1>3 DEF ReadsInv
<1> QED
    BY <1>1, <1>2, <1>3

LEMMA StartIs ==
    ASSUME NEW id, NEW by, RunsOpen!StartOpen(id, by) \/ RunsDelete!StartOpen(id, by)
    PROVE  Starts(id, by)
BY DEF Starts, RunsOpen!StartOpen, RunsDelete!StartOpen

\* Of the hurried user.
LEMMA OpenReads ==
    ASSUME [RunsOpen!Next]_listVars
    PROVE  \/ \E id, by : Starts(id, by)
           \/ \E o \in opens : Takes(o)
           \/ UNCHANGED <<openReq, player, current, opens>>
<1>1. CASE RunsOpen!FirstLoad
    BY <1>1, StartIs DEF RunsOpen!FirstLoad
<1>2. CASE RunsOpen!Move \/ RunsOpen!Note
    BY <1>2 DEF RunsOpen!Move, RunsOpen!Note
<1>3. ASSUME NEW id \in RunIds,
             RunsOpen!Select(id) \/ RunsOpen!PosTimer(id) \/ RunsOpen!ImportStart(id)
      PROVE  \/ \E i, by : Starts(i, by)
             \/ UNCHANGED <<openReq, player, current, opens>>
    BY <1>3, StartIs DEF RunsOpen!Select, RunsOpen!PosTimer, RunsOpen!ImportStart
<1>4. ASSUME NEW id \in RunIds, RunsOpen!Remove(id)
      PROVE  \/ \E i, by : Starts(i, by)
             \/ UNCHANGED <<openReq, player, current, opens>>
    BY <1>4, StartIs DEF RunsOpen!Remove
<1>5. ASSUME NEW o \in opens, RunsOpen!OpenAnswer(o)
      PROVE  Takes(o)
    BY <1>5 DEF RunsOpen!OpenAnswer, Takes
<1>6. ASSUME NEW d \in dels,
             RunsOpen!RemoveData(d) \/ RunsOpen!RemoveKeys(d) \/ RunsOpen!RemoveLists(d)
      PROVE  UNCHANGED <<openReq, player, current, opens>>
    BY <1>6 DEF RunsOpen!RemoveData, RunsOpen!RemoveKeys, RunsOpen!RemoveLists
<1>7. ASSUME NEW m \in imps,
             RunsOpen!ImportFails(m) \/ RunsOpen!ImportPut(m) \/ RunsOpen!ImportOpens(m)
      PROVE  \/ \E i, by : Starts(i, by)
             \/ UNCHANGED <<openReq, player, current, opens>>
    BY <1>7, StartIs DEF RunsOpen!ImportFails, RunsOpen!ImportPut, RunsOpen!ImportOpens
<1>8. CASE UNCHANGED listVars
    BY <1>8 DEF listVars
<1> QED
    BY <1>1, <1>2, <1>3, <1>4, <1>5, <1>6, <1>7, <1>8 DEF RunsOpen!Next

\* A new deletion, with the read it waits for if it deletes the run shown.
NewDeletion(id, phase, waits) ==
    /\ \A d \in dels : d.id # id
    /\ dels' = dels \cup {[id |-> id, phase |-> phase]}
    /\ imps' = imps
    /\ UNCHANGED <<listStored, runs>>
    /\ IF waits THEN phase = "opening" /\ \E o : o.by = id /\ opens' = opens \cup {o}
       ELSE phase \in {"opening", "del"} /\ opens' = opens

LEMMA NewDeletionStep ==
    ASSUME Jobs, WaitsInv, ListInv, NEW id, NEW phase, NEW waits \in BOOLEAN,
           NewDeletion(id, phase, waits)
    PROVE  (Jobs /\ WaitsInv /\ ListInv)'
<1> DEFINE new == [id |-> id, phase |-> phase]
<1>1. /\ new.id = id /\ new.phase = phase /\ new = [id |-> new.id, phase |-> new.phase]
      /\ dels' = dels \cup {new} /\ imps' = imps /\ \A d \in dels : d.id # id
      /\ phase \in {"opening", "del"} /\ UNCHANGED <<listStored, runs>>
    BY DEF NewDeletion
<1> HIDE DEF new
<1>2. Jobs'
    BY <1>1 DEF Jobs
<1>3. ListInv'
    BY <1>1 DEF ListInv, Touched
<1>4. WaitsInv'
    <2>1. CASE waits
        <3>1. PICK o : o.by = id /\ opens' = opens \cup {o}
            BY <2>1 DEF NewDeletion
        <3>2. phase = "opening"
            BY <2>1 DEF NewDeletion
        <3>3. \A p \in opens : p.by # None => p.by # id
            BY <1>1 DEF WaitsInv
        <3> QED
            BY <1>1, <3>1, <3>2, <3>3 DEF WaitsInv
    <2>2. CASE ~waits
        <3>1. opens' = opens
            BY <2>2 DEF NewDeletion
        <3> QED
            BY <1>1, <3>1 DEF WaitsInv
    <2> QED
        BY <2>1, <2>2
<1> QED
    BY <1>2, <1>3, <1>4

\* A read that nobody's deletion waits for.
LEMMA PlainStart ==
    ASSUME WaitsInv, NEW id, Starts(id, None), dels' = dels
    PROVE  WaitsInv'
<1>1. CASE id = None
    BY <1>1 DEF WaitsInv, Starts
<1>2. CASE id # None
    <2> DEFINE new == [req |-> openReq + 1, id |-> id, found |-> id \in listStored,
                       by |-> None]
    <2>1. new.by = None
        OBVIOUS
    <2>2. opens' = opens \cup {new}
        BY <1>2 DEF Starts
    <2> HIDE DEF new
    <2> QED
        BY <2>1, <2>2 DEF WaitsInv
<1> QED
    BY <1>1, <1>2

\* Every step of the hurried user keeps what the list promises.
LEMMA OpenStep ==
    ASSUME OpenInv, [RunsOpen!Next]_listVars
    PROVE  OpenInv'
<1> USE DEF OpenInv
<1>0. ReadsInv'
    BY OpenReads, ReadsStep
<1>1. ASSUME NEW id \in RunIds, RunsOpen!Select(id)
      PROVE  OpenInv'
    <2>1. UNCHANGED <<listStored, runs, dels, imps>> /\ Starts(id, None)
        BY <1>1, StartIs DEF RunsOpen!Select
    <2> QED
        BY <1>0, <2>1, PlainStart DEF Jobs, ListInv
<1>2. ASSUME UNCHANGED <<listStored, runs, opens, dels, imps>>
      PROVE  OpenInv'
    BY <1>0, <1>2 DEF Jobs, WaitsInv, ListInv
<1>3. ASSUME NEW id \in RunIds, RunsOpen!Remove(id)
      PROVE  OpenInv'
    <2>1. CASE id = current
        <3>1. PICK other : /\ RunsOpen!StartOpen(other, id)
                           /\ dels' = dels \cup {[id |-> id, phase |-> IF other = None THEN "del" ELSE "opening"]}
            BY <1>3, <2>1 DEF RunsOpen!Remove
        <3>2. /\ \A d \in dels : d.id # id
              /\ UNCHANGED <<listStored, runs, imps>>
            BY <1>3 DEF RunsOpen!Remove
        <3>3. Starts(other, id)
            BY <3>1, StartIs
        <3>4. CASE other = None
            <4>1. NewDeletion(id, "del", FALSE)
                BY <3>1, <3>2, <3>3, <3>4 DEF NewDeletion, Starts
            <4> QED
                BY <1>0, <4>1, NewDeletionStep
        <3>5. CASE other # None
            <4> DEFINE new == [req |-> openReq + 1, id |-> other,
                               found |-> other \in listStored, by |-> id]
            <4>1. new.by = id /\ opens' = opens \cup {new}
                BY <3>3, <3>5 DEF Starts
            <4> HIDE DEF new
            <4>2. NewDeletion(id, "opening", TRUE)
                BY <3>1, <3>2, <3>5, <4>1 DEF NewDeletion
            <4> QED
                BY <1>0, <4>2, NewDeletionStep
        <3> QED
            BY <3>4, <3>5
    <2>2. CASE id # current
        <3>1. NewDeletion(id, "del", FALSE)
            BY <1>3, <2>2 DEF RunsOpen!Remove, NewDeletion
        <3> QED
            BY <1>0, <3>1, NewDeletionStep
    <2> QED
        BY <2>1, <2>2
<1>4. ASSUME NEW o \in opens, RunsOpen!OpenAnswer(o)
      PROVE  OpenInv'
    <2>1. /\ opens' = opens \ {o} /\ imps' = imps
          /\ UNCHANGED <<listStored, runs>>
        BY <1>4 DEF RunsOpen!OpenAnswer
    <2>2. CASE o.by = None
        <3>1. dels' = dels
            BY <1>4, <2>2 DEF RunsOpen!OpenAnswer
        <3> QED
            BY <1>0, <2>1, <3>1 DEF Jobs, WaitsInv, ListInv
    <2>3. CASE o.by # None
        <3>1. PICK w \in dels : w.id = o.by /\ w.phase = "opening"
            BY <2>3 DEF WaitsInv
        <3> DEFINE new == [w EXCEPT !.phase = "del"]
        <3>2. new = [id |-> w.id, phase |-> "del"]
            BY DEF Jobs
        <3>3. new.id = w.id /\ new.phase = "del" /\ new = [id |-> new.id, phase |-> new.phase]
            BY <3>2
        <3>4. dels' = {IF d.id = o.by THEN [d EXCEPT !.phase = "del"] ELSE d : d \in dels}
            BY <1>4, <2>3 DEF RunsOpen!OpenAnswer
        <3>5. \A d \in dels : d.id = o.by <=> d = w
            BY <3>1 DEF WaitsInv
        <3>6. dels' = (dels \ {w}) \cup {new}
            BY <3>4, <3>5
        <3> HIDE DEF new
        <3>7. Jobs' /\ ListInv'
            BY <2>1, <3>1, <3>3, <3>6 DEF Jobs, ListInv, Touched
        <3>8. WaitsInv'
            BY <2>1, <2>3, <3>1, <3>3, <3>6 DEF WaitsInv
        <3> QED
            BY <1>0, <3>7, <3>8
    <2> QED
        BY <2>2, <2>3
<1>5. ASSUME NEW d \in dels, RunsOpen!RemoveData(d) \/ RunsOpen!RemoveKeys(d)
      PROVE  OpenInv'
    <2> DEFINE to == IF d.phase = "del" THEN "keys" ELSE "list"
               new == [d EXCEPT !.phase = to]
    <2>1. /\ d.phase \in {"del", "keys"} /\ dels' = (dels \ {d}) \cup {new}
          /\ UNCHANGED <<runs, opens, imps>>
        BY <1>5 DEF RunsOpen!RemoveData, RunsOpen!RemoveKeys
    <2>2. d = [id |-> d.id, phase |-> d.phase] /\ Touched([id |-> d.id, phase |-> to])
        BY DEF Jobs, Touched
    <2>3. new = [id |-> d.id, phase |-> to]
        BY <2>2
    <2>4. new.id = d.id /\ new = [id |-> new.id, phase |-> new.phase] /\ Touched(new)
        BY <2>2, <2>3
    <2> HIDE DEF new
    <2>5. Jobs' /\ ListInv'
        BY <2>1, <2>4 DEF Jobs, ListInv
    <2>6. WaitsInv'
        BY <2>1, <2>4 DEF WaitsInv
    <2> QED
        BY <1>0, <2>5, <2>6
<1>6. ASSUME NEW d \in dels, RunsOpen!RemoveLists(d)
      PROVE  OpenInv'
    <2>1. /\ d.phase = "list" /\ dels' = dels \ {d} /\ runs' = listStored
          /\ UNCHANGED <<listStored, opens, imps>>
        BY <1>6 DEF RunsOpen!RemoveLists
    <2>2. WaitsInv'
        BY <2>1 DEF WaitsInv
    <2> QED
        BY <1>0, <2>1, <2>2 DEF Jobs, ListInv
<1>7. ASSUME NEW id \in RunIds, RunsOpen!ImportStart(id)
      PROVE  OpenInv'
    <2> DEFINE new == [id |-> id, phase |-> "fetch"]
    <2>1. /\ imps' = imps \cup {new} /\ UNCHANGED <<listStored, runs, opens, dels>>
          /\ new.phase = "fetch" /\ new = [id |-> new.id, phase |-> new.phase]
        BY <1>7 DEF RunsOpen!ImportStart
    <2> HIDE DEF new
    <2> QED
        BY <1>0, <2>1 DEF Jobs, WaitsInv, ListInv, Touched
<1>8. ASSUME NEW m \in imps, RunsOpen!ImportFails(m)
      PROVE  OpenInv'
    <2>1. /\ m.phase = "fetch" /\ imps' = imps \ {m}
          /\ UNCHANGED <<listStored, runs, opens, dels>>
        BY <1>8 DEF RunsOpen!ImportFails
    <2> QED
        BY <1>0, <2>1 DEF Jobs, WaitsInv, ListInv, Touched
<1>9. ASSUME NEW m \in imps, RunsOpen!ImportPut(m)
      PROVE  OpenInv'
    <2> DEFINE new == [m EXCEPT !.phase = "list"]
    <2>1. imps' = (imps \ {m}) \cup {new} /\ UNCHANGED <<runs, opens, dels>>
        BY <1>9 DEF RunsOpen!ImportPut
    <2>2. new = [id |-> m.id, phase |-> "list"]
        BY DEF Jobs
    <2>3. Touched(new) /\ new = [id |-> new.id, phase |-> new.phase]
        BY <2>2 DEF Touched
    <2> HIDE DEF new
    <2> QED
        BY <1>0, <2>1, <2>3 DEF Jobs, WaitsInv, ListInv
<1>10. ASSUME NEW m \in imps, RunsOpen!ImportOpens(m)
      PROVE  OpenInv'
    <2>1. /\ runs' = listStored /\ imps' = imps \ {m} /\ UNCHANGED <<listStored, dels>>
          /\ Starts(m.id, None)
        BY <1>10, StartIs DEF RunsOpen!ImportOpens
    <2> QED
        BY <1>0, <2>1, PlainStart DEF Jobs, ListInv
<1>11. CASE RunsOpen!Move \/ RunsOpen!Note \/ UNCHANGED listVars
    BY <1>2, <1>11 DEF RunsOpen!Move, RunsOpen!Note, listVars
<1>12. CASE \E id \in RunIds : RunsOpen!PosTimer(id)
    BY <1>2, <1>12 DEF RunsOpen!PosTimer
<1>13. CASE RunsOpen!FirstLoad
    <2>1. UNCHANGED <<listStored, runs, dels, imps>> /\ \E i : Starts(i, None)
        BY <1>13, StartIs DEF RunsOpen!FirstLoad
    <2> QED
        BY <1>0, <2>1, PlainStart DEF Jobs, ListInv
<1> QED
    BY <1>1, <1>3, <1>4, <1>5, <1>6, <1>7, <1>8, <1>9, <1>10, <1>11, <1>12, <1>13
    DEF RunsOpen!Next

\* Of the user in no hurry.
LEMMA DeleteReads ==
    ASSUME [RunsDelete!Next]_listVars
    PROVE  \/ \E id, by : Starts(id, by)
           \/ \E o \in opens : Takes(o)
           \/ UNCHANGED <<openReq, player, current, opens>>
<1>1. CASE RunsDelete!FirstLoad
    BY <1>1, StartIs DEF RunsDelete!FirstLoad
<1>2. CASE RunsDelete!Move \/ RunsDelete!Note
    BY <1>2 DEF RunsDelete!Move, RunsDelete!Note
<1>3. ASSUME NEW id \in RunIds,
             RunsDelete!Select(id) \/ RunsDelete!PosTimer(id) \/ RunsDelete!ImportStart(id)
      PROVE  \/ \E i, by : Starts(i, by)
             \/ UNCHANGED <<openReq, player, current, opens>>
    BY <1>3, StartIs DEF RunsDelete!Select, RunsDelete!PosTimer, RunsDelete!ImportStart
<1>4. ASSUME NEW id \in RunIds, RunsDelete!Remove(id)
      PROVE  \/ \E i, by : Starts(i, by)
             \/ UNCHANGED <<openReq, player, current, opens>>
    BY <1>4, StartIs DEF RunsDelete!Remove
<1>5. ASSUME NEW o \in opens, RunsDelete!OpenAnswer(o)
      PROVE  Takes(o)
    BY <1>5 DEF RunsDelete!OpenAnswer, Takes
<1>6. ASSUME NEW d \in dels,
             RunsDelete!RemoveData(d) \/ RunsDelete!RemoveKeys(d) \/ RunsDelete!RemoveLists(d)
      PROVE  UNCHANGED <<openReq, player, current, opens>>
    BY <1>6 DEF RunsDelete!RemoveData, RunsDelete!RemoveKeys, RunsDelete!RemoveLists
<1>7. ASSUME NEW m \in imps,
             RunsDelete!ImportFails(m) \/ RunsDelete!ImportPut(m) \/ RunsDelete!ImportOpens(m)
      PROVE  \/ \E i, by : Starts(i, by)
             \/ UNCHANGED <<openReq, player, current, opens>>
    BY <1>7, StartIs DEF RunsDelete!ImportFails, RunsDelete!ImportPut, RunsDelete!ImportOpens
<1>8. CASE UNCHANGED listVars
    BY <1>8 DEF listVars
<1> QED
    BY <1>1, <1>2, <1>3, <1>4, <1>5, <1>6, <1>7, <1>8 DEF RunsDelete!Next

\* While something is under way nothing is started, but by what is under way.
LEMMA CalmIs == RunsDelete!Calm => dels = {} /\ imps = {} /\ opens = {}
BY DEF RunsDelete!Calm

\* Reads, deletions and imports as a user in no hurry has them under way.
LEMMA DeleteStep ==
    ASSUME DeleteInv, [RunsDelete!Next]_listVars
    PROVE  DeleteInv'
<1> USE DEF DeleteInv
<1>0. ReadsInv'
    BY DeleteReads, ReadsStep
<1>1. ASSUME NEW id, Starts(id, None), dels = {}, opens = {}, imps' = {},
             UNCHANGED <<listStored, removed, timers, dels>>,
             keys' = IF player = None THEN keys ELSE keys \cup {player}
      PROVE  DeleteInv'
    <2>1. \A o \in opens' : (o.found => o.id \in listStored) /\ (\A p \in opens' : o = p)
        <3>1. CASE id = None
            BY <1>1, <3>1 DEF Starts
        <3>2. CASE id # None
            <4> DEFINE new == [req |-> openReq + 1, id |-> id, found |-> id \in listStored,
                               by |-> None]
            <4>1. opens' = {new} /\ new.id = id /\ new.found = (id \in listStored)
                BY <1>1, <3>2 DEF Starts
            <4> HIDE DEF new
            <4> QED
                BY <4>1
        <3> QED
            BY <3>1, <3>2
    <2>2. \A r \in removed : r \notin keys'
        BY <1>1 DEF GoneInv
    <2>3. player' = None /\ None \notin RunIds
        BY <1>1, ReviewBounds DEF Starts, RunsDelete!RunsParams
    <2>4. OneAtATime' /\ Jobs'
        BY <1>1, <2>1 DEF OneAtATime, Jobs
    <2> QED
        BY <1>0, <1>1, <2>1, <2>2, <2>3, <2>4 DEF GoneInv
<1>2. CASE RunsDelete!FirstLoad
    <2>1. PICK id : RunsDelete!StartOpen(id, None)
        BY <1>2 DEF RunsDelete!FirstLoad
    <2>2. /\ dels = {} /\ imps = {} /\ opens = {} /\ UNCHANGED <<listStored, removed, timers, dels, imps>>
          /\ keys' = IF player = None THEN keys ELSE keys \cup {player}
        BY <1>2, <2>1, CalmIs DEF RunsDelete!FirstLoad, RunsDelete!StartOpen
    <2> QED
        BY <1>1, <2>1, <2>2, StartIs
<1>3. ASSUME NEW id \in RunIds, RunsDelete!Select(id)
      PROVE  DeleteInv'
    <2>1. /\ dels = {} /\ imps = {} /\ opens = {} /\ UNCHANGED <<listStored, removed, timers, dels, imps>>
          /\ keys' = IF player = None THEN keys ELSE keys \cup {player}
          /\ RunsDelete!StartOpen(id, None)
        BY <1>3, CalmIs DEF RunsDelete!Select, RunsDelete!StartOpen
    <2> QED
        BY <1>1, <2>1, StartIs
<1>4. ASSUME NEW m \in imps, RunsDelete!ImportOpens(m)
      PROVE  DeleteInv'
    <2>1. /\ dels = {} /\ opens = {} /\ imps' = {}
          /\ UNCHANGED <<listStored, removed, timers, dels>>
          /\ keys' = IF player = None THEN keys ELSE keys \cup {player}
          /\ RunsDelete!StartOpen(m.id, None)
        BY <1>4 DEF RunsDelete!ImportOpens, RunsDelete!StartOpen, OneAtATime
    <2> QED
        BY <1>1, <2>1, StartIs
<1>5. CASE RunsDelete!Move \/ RunsDelete!Note
    BY <1>0, <1>5 DEF RunsDelete!Move, RunsDelete!Note, OneAtATime, Jobs, GoneInv
<1>6. ASSUME NEW id \in RunIds, RunsDelete!PosTimer(id)
      PROVE  DeleteInv'
    BY <1>0, <1>6 DEF RunsDelete!PosTimer, OneAtATime, Jobs, GoneInv
<1>7. ASSUME NEW id \in RunIds, RunsDelete!ImportStart(id)
      PROVE  DeleteInv'
    <2> DEFINE new == [id |-> id, phase |-> "fetch"]
    <2>1. /\ dels = {} /\ opens = {} /\ imps' = {new}
          /\ UNCHANGED <<listStored, player, opens, keys, timers, dels, removed>>
          /\ new.id = id /\ new = [id |-> new.id, phase |-> new.phase]
        BY <1>7, CalmIs DEF RunsDelete!ImportStart
    <2> HIDE DEF new
    <2> QED
        BY <1>0, <2>1 DEF OneAtATime, Jobs, GoneInv
<1>8. ASSUME NEW m \in imps, RunsDelete!ImportFails(m)
      PROVE  DeleteInv'
    BY <1>0, <1>8 DEF RunsDelete!ImportFails, OneAtATime, Jobs, GoneInv
<1>9. ASSUME NEW m \in imps, RunsDelete!ImportPut(m)
      PROVE  DeleteInv'
    <2> DEFINE new == [m EXCEPT !.phase = "list"]
    <2>1. new = [id |-> m.id, phase |-> "list"]
        BY DEF Jobs
    <2>2. new.id = m.id /\ new = [id |-> new.id, phase |-> new.phase]
        BY <2>1
    <2>3. /\ dels = {} /\ opens = {} /\ imps' = {new}
          /\ listStored' = listStored \cup {m.id} /\ removed' = removed \ {m.id}
          /\ keys' \subseteq keys \cup {m.id}
          /\ UNCHANGED <<player, opens, timers, dels>>
        BY <1>9 DEF RunsDelete!ImportPut, OneAtATime
    <2> HIDE DEF new
    <2> QED
        BY <1>0, <2>2, <2>3 DEF OneAtATime, Jobs, GoneInv
<1>10. ASSUME NEW o \in opens, RunsDelete!OpenAnswer(o)
       PROVE  DeleteInv'
    <2>1. /\ opens' = {} /\ imps' = imps /\ UNCHANGED <<listStored, keys, timers, removed>>
          /\ player' = IF o.req = openReq /\ o.found THEN o.id ELSE player
        BY <1>10 DEF RunsDelete!OpenAnswer, OneAtATime
    <2>2. CASE dels = {}
        <3>1. dels' = {}
            BY <1>10, <2>2 DEF RunsDelete!OpenAnswer
        <3> QED
            BY <1>0, <2>1, <2>2, <3>1 DEF OneAtATime, Jobs, GoneInv
    <2>3. ASSUME NEW d \in dels
          PROVE  DeleteInv'
        <3>1. dels = {d} /\ d.phase = "opening" /\ o.id # d.id /\ imps = {}
            BY DEF OneAtATime
        <3> DEFINE new == [d EXCEPT !.phase = "del"]
        <3>2. new = [id |-> d.id, phase |-> "del"]
            BY DEF Jobs
        <3>3. new.id = d.id /\ new = [id |-> new.id, phase |-> new.phase]
            BY <3>2
        <3>4. dels' = {d} \/ dels' = {new}
            BY <1>10, <3>1 DEF RunsDelete!OpenAnswer
        <3> HIDE DEF new
        <3> QED
            BY <1>0, <2>1, <3>1, <3>3, <3>4 DEF OneAtATime, Jobs, GoneInv
    <2> QED
        BY <2>2, <2>3
<1>11. ASSUME NEW d \in dels,
              RunsDelete!RemoveData(d) \/ RunsDelete!RemoveKeys(d) \/ RunsDelete!RemoveLists(d)
       PROVE  DeleteInv'
    <2>1. /\ dels = {d} /\ d.phase \in {"del", "keys", "list"} /\ imps = {} /\ opens = {}
          /\ UNCHANGED <<player, opens, timers, imps>>
        BY <1>11 DEF RunsDelete!RemoveData, RunsDelete!RemoveKeys, RunsDelete!RemoveLists,
            OneAtATime
    <2>2. CASE RunsDelete!RemoveData(d)
        <3> DEFINE new == [d EXCEPT !.phase = "keys"]
        <3>1. new = [id |-> d.id, phase |-> "keys"]
            BY DEF Jobs
        <3>2. new.id = d.id /\ new.phase = "keys" /\ new = [id |-> new.id, phase |-> new.phase]
            BY <3>1
        <3>3. /\ dels' = {new} /\ d.id \notin timers /\ d.phase = "del"
              /\ listStored' = listStored \ {d.id} /\ removed' = removed \cup {d.id}
              /\ keys' = keys
            BY <2>1, <2>2 DEF RunsDelete!RemoveData
        <3> HIDE DEF new
        <3> QED
            BY <1>0, <2>1, <3>2, <3>3 DEF OneAtATime, Jobs, GoneInv
    <2>3. CASE RunsDelete!RemoveKeys(d)
        <3> DEFINE new == [d EXCEPT !.phase = "list"]
        <3>1. new = [id |-> d.id, phase |-> "list"]
            BY DEF Jobs
        <3>2. new.id = d.id /\ new = [id |-> new.id, phase |-> new.phase]
            BY <3>1
        <3>3. dels' = {new} /\ keys' = keys \ {d.id} /\ UNCHANGED <<listStored, removed>>
            BY <2>1, <2>3 DEF RunsDelete!RemoveKeys
        <3> HIDE DEF new
        <3> QED
            BY <1>0, <2>1, <3>2, <3>3 DEF OneAtATime, Jobs, GoneInv
    <2>4. CASE RunsDelete!RemoveLists(d)
        <3>1. dels' = {} /\ d.phase = "list" /\ UNCHANGED <<listStored, keys, removed>>
            BY <2>1, <2>4 DEF RunsDelete!RemoveLists
        <3> QED
            BY <1>0, <2>1, <3>1 DEF OneAtATime, Jobs, GoneInv
    <2> QED
        BY <1>11, <2>2, <2>3, <2>4
<1>12. CASE UNCHANGED listVars
    BY <1>0, <1>12 DEF listVars, OneAtATime, Jobs, GoneInv
<1>13. ASSUME NEW id \in RunIds, RunsDelete!Remove(id)
       PROVE  DeleteInv'
    <2>1. /\ dels = {} /\ imps = {} /\ opens = {}
          /\ UNCHANGED <<listStored, timers, imps, removed>>
        BY <1>13, CalmIs DEF RunsDelete!Remove
    <2>2. None \notin RunIds
        BY ReviewBounds DEF RunsDelete!RunsParams
    <2>3. CASE id = current
        <3>1. PICK other \in IF runs = {id} THEN {None} ELSE runs \ {id} :
                 /\ RunsDelete!StartOpen(other, id)
                 /\ dels' = dels \cup {[id |-> id, phase |-> IF other = None THEN "del" ELSE "opening"]}
            BY <1>13, <2>3 DEF RunsDelete!Remove
        <3> DEFINE job == [id |-> id, phase |-> IF other = None THEN "del" ELSE "opening"]
                   new == [req |-> openReq + 1, id |-> other,
                           found |-> other \in listStored, by |-> id]
        <3>2. /\ dels' = {job} /\ job.id = id /\ job = [id |-> job.id, phase |-> job.phase]
              /\ other # None => job.phase = "opening"
            BY <2>1, <3>1
        <3>3. player' = None /\ opens' = (IF other = None THEN {} ELSE {new})
            BY <2>1, <3>1, StartIs DEF Starts
        <3>4. new.id = other /\ new.found = (other \in listStored) /\ other # id
            BY <2>2, <3>1
        <3>5. keys' = IF player = None THEN keys ELSE keys \cup {player}
            BY <3>1 DEF RunsDelete!StartOpen
        <3> HIDE DEF job, new
        <3>6. OneAtATime' /\ Jobs'
            BY <2>1, <3>2, <3>3, <3>4 DEF OneAtATime, Jobs
        <3>7. \A r \in removed : r \notin keys'
            BY <2>1, <3>5 DEF GoneInv
        <3> QED
            BY <1>0, <2>1, <2>2, <3>2, <3>3, <3>4, <3>6, <3>7 DEF GoneInv
    <2>4. CASE id # current
        <3> DEFINE job == [id |-> id, phase |-> "del"]
        <3>1. /\ dels' = {job} /\ job.id = id /\ job = [id |-> job.id, phase |-> job.phase]
              /\ UNCHANGED <<player, opens, keys>>
            BY <1>13, <2>1, <2>4 DEF RunsDelete!Remove
        <3> HIDE DEF job
        <3>2. player # id
            BY <2>2, <2>4 DEF ReadsInv
        <3> QED
            BY <1>0, <2>1, <3>1, <3>2 DEF OneAtATime, Jobs, GoneInv
    <2> QED
        BY <2>3, <2>4
<1> QED
    BY <1>2, <1>3, <1>4, <1>5, <1>6, <1>7, <1>8, <1>9, <1>10, <1>11, <1>12, <1>13
    DEF RunsDelete!Next

\* The saved runs, whatever the runs and however many reads, deletions and imports are
\* under way: the run shown is the one asked for last, the list is what is stored, and
\* a deletion that nothing hurried leaves nothing behind.
THEOREM RunsAreTrue == Spec => []RunsTrue
<1> DEFINE Inv == /\ scene = "runs" => OpenInv
                  /\ scene = "delete" => DeleteInv
<1>1. Init => Inv
    BY DEF Init, RunsOpen!Init, OpenInv, DeleteInv, ReadsInv, Jobs, WaitsInv, ListInv,
        OneAtATime, GoneInv
<1>2. Inv /\ [Next]_vars => Inv'
    <2> SUFFICES ASSUME Inv, [Next]_vars
                 PROVE  Inv'
        OBVIOUS
    <2>1. scene' = scene
        BY DEF Next, vars, InReviewPlayer, InReviewNotes, InReviewRuns, InTrackMapper,
            InReplay
    <2>2. /\ scene = "runs" => [RunsOpen!Next]_listVars
          /\ scene = "delete" => [RunsDelete!Next]_listVars
        BY DEF Next, vars, InReviewPlayer, InReviewNotes, InReviewRuns, InTrackMapper,
            InReplay
    <2> QED
        BY <2>1, <2>2, OpenStep, DeleteStep
<1>3. Inv => RunsTrue
    <2>1. OpenInv => RunsOpen!OpenLatest /\ RunsOpen!ListTrue
        BY DEF OpenInv, ReadsInv, ListInv, RunsOpen!OpenLatest, RunsOpen!ListTrue
    <2>2. DeleteInv => RunsDelete!NoLeftovers
        BY DEF DeleteInv, GoneInv, RunsDelete!NoLeftovers
    <2> QED
        BY <2>1, <2>2 DEF RunsTrue, OpenLatest, ListTrue, NoLeftovers
<1> QED
    BY <1>1, <1>2, <1>3, PTL DEF Spec
-----------------------------------------------------------------------------
(* Proofs: the player, for any laps, rates, gaps between frames and number   *)
(* of callbacks waiting.                                                     *)

Kinds == {"tick", "frame"}
Ticking(q) == \E i \in DOMAIN q : q[i] = "tick"

LEMMA AppendTicks ==
    ASSUME NEW q \in Seq(Kinds), NEW c \in Kinds
    PROVE  Append(q, c) \in Seq(Kinds) /\ (Ticking(Append(q, c)) <=> Ticking(q) \/ c = "tick")
<1>1. Append(q, c) \in Seq(Kinds) /\ Len(Append(q, c)) = Len(q) + 1
    OBVIOUS
<1>2. \A i \in 1..Len(q) : Append(q, c)[i] = q[i]
    OBVIOUS
<1>3. Append(q, c)[Len(q) + 1] = c
    OBVIOUS
<1>4. DOMAIN q = 1..Len(q) /\ DOMAIN Append(q, c) = 1..(Len(q) + 1) /\ Len(q) \in Nat
    BY <1>1
<1>5. \A i \in 1..(Len(q) + 1) : i \in 1..Len(q) \/ i = Len(q) + 1
    BY <1>4
<1>6. \A i \in 1..Len(q) : i \in 1..(Len(q) + 1)
    BY <1>4
<1>7. Len(q) + 1 \in 1..(Len(q) + 1)
    BY <1>4
<1> QED
    BY <1>1, <1>2, <1>3, <1>4, <1>5, <1>6, <1>7, Zenon DEF Ticking

LEMMA TailTicks ==
    ASSUME NEW q \in Seq(Kinds), q # <<>>
    PROVE  Tail(q) \in Seq(Kinds) /\ (Ticking(q) <=> Head(q) = "tick" \/ Ticking(Tail(q)))
<1>1. Tail(q) \in Seq(Kinds) /\ Len(Tail(q)) = Len(q) - 1 /\ Len(q) \in Nat \ {0} /\ Head(q) = q[1]
    OBVIOUS
<1>2. \A i \in 1..Len(Tail(q)) : Tail(q)[i] = q[i + 1]
    OBVIOUS
<1>3. DOMAIN q = 1..Len(q) /\ DOMAIN Tail(q) = 1..(Len(q) - 1)
    BY <1>1
<1>4. ASSUME NEW i \in 1..Len(q), q[i] = "tick"
      PROVE  Head(q) = "tick" \/ Ticking(Tail(q))
    <2>1. CASE i = 1
        BY <1>1, <1>4, <2>1
    <2>2. CASE i # 1
        <3>1. i - 1 \in 1..(Len(q) - 1) /\ (i - 1) + 1 = i
            BY <1>1, <2>2
        <3> QED
            BY <1>1, <1>2, <1>3, <1>4, <3>1 DEF Ticking
    <2> QED
        BY <2>1, <2>2
<1>5. ASSUME NEW i \in 1..(Len(q) - 1), Tail(q)[i] = "tick"
      PROVE  Ticking(q)
    <2>1. i + 1 \in 1..Len(q)
        BY <1>1
    <2> QED
        BY <1>1, <1>2, <1>3, <1>5, <2>1 DEF Ticking
<1>6. 1 \in 1..Len(q)
    BY <1>1
<1> QED
    BY <1>1, <1>3, <1>4, <1>5, <1>6 DEF Ticking

\* The clock has played no more of a frame than there was of it, what is left of the frame
\* included; while it plays, a tick is asked for; the camera does one thing.
ClockInv ==
    /\ rate \in LapRates
    /\ {lag, gap, spent} \subseteq Nat /\ spent + lag <= gap
    /\ {now, next} \subseteq Seq(Kinds)
    /\ playerPlaying => Ticking(now) \/ Ticking(next)
    /\ follow => anim = None /\ focus = None

\* What a click or a key leaves alone of the clock: it asks for a frame at most.
Clicks ==
    /\ next' = Player!Scheduled(next)
    /\ UNCHANGED <<playerPlaying, now, lag, gap, spent>>

LEMMA ScheduledIs ==
    ASSUME NEW q \in Seq(Kinds)
    PROVE  /\ Player!Scheduled(q) \in Seq(Kinds)
           /\ Ticking(Player!Scheduled(q)) <=> Ticking(q)
BY AppendTicks DEF Player!Scheduled, Kinds

LEMMA ClicksStep ==
    ASSUME ClockInv, Clicks, rate' \in LapRates,
           follow' => anim' = None /\ focus' = None
    PROVE  ClockInv'
BY ScheduledIs DEF ClockInv, Clicks

LEMMA UserStep ==
    ASSUME ClockInv, Player!User, ~ \E on \in BOOLEAN : Player!play(on)
    PROVE  ClockInv'
<1> USE DEF Player!playback, Player!loops, Player!camera, Player!schedule
<1>1. rate \in LapRates /\ (follow => anim = None /\ focus = None)
    BY DEF ClockInv
<1>2. ASSUME NEW t, Player!Seek(t)
      PROVE  ClockInv'
    BY <1>1, <1>2, ClicksStep DEF Player!Seek, Player!setT, Clicks
<1>3. CASE Player!scrub \/ Player!Keys \/ \E d \in {-1, 1} : Player!stepLap(d)
    BY <1>2, <1>3 DEF Player!scrub, Player!Keys, Player!SeekOnLap, Player!stepLap
<1>4. CASE Player!SetEnd
    BY <1>1, <1>4, ClicksStep DEF Player!SetEnd, Clicks
<1>5. CASE Player!SetRate
    BY <1>1, <1>5, ClicksStep DEF Player!SetRate, Clicks
<1>6. CASE Player!setLoopA \/ Player!setLoopB \/ Player!clearLoop \/ Player!loopSegment
    <2>1. Player!LoopChange
        BY <1>6 DEF Player!setLoopA, Player!setLoopB, Player!clearLoop, Player!loopSegment
    <2> QED
        BY <1>1, <2>1, ClicksStep DEF Player!LoopChange, Clicks
<1>7. CASE Player!takeCamera \/ Player!zoomBy \/ Player!flyFit \/ Player!setFollow(~ follow)
           \/ Player!zoomArc
    <2>1. Player!CameraChange /\ (follow' => anim' = None /\ focus' = None)
        BY <1>7, Zenon DEF Player!takeCamera, Player!zoomBy, Player!flyFit, Player!setFollow,
            Player!zoomArc
    <2> QED
        BY <1>1, <2>1, ClicksStep DEF Player!CameraChange, Clicks
<1> QED
    BY <1>3, <1>4, <1>5, <1>6, <1>7 DEF Player!User, Player!TransportBar, Player!MapGestures

LEMMA PlayStep ==
    ASSUME ClockInv, NEW on \in BOOLEAN, Player!play(on)
    PROVE  ClockInv'
<1> DEFINE q == IF on THEN Append(next, "tick") ELSE next
<1>1. q \in Seq(Kinds) /\ (on => Ticking(q))
    BY AppendTicks DEF ClockInv, Kinds
<1>2. next' = Player!Scheduled(q) /\ playerPlaying' = on
    BY DEF Player!play
<1> HIDE DEF q
<1>3. next' \in Seq(Kinds) /\ (playerPlaying' => Ticking(next'))
    BY <1>1, <1>2, ScheduledIs
<1>4. /\ UNCHANGED <<rate, now, gap, spent, follow, anim, focus>>
      /\ lag' \in Nat /\ lag' <= lag
    BY DEF Player!play, Player!loops, Player!camera, ClockInv
<1> QED
    BY <1>3, <1>4 DEF ClockInv

\* A tick plays what is left of the frame, at the rate chosen.
LEMMA ElapsedIs ==
    ASSUME NEW a \in Nat, NEW r \in Nat \ {0}
    PROVE  a * r \in Nat /\ (a * r) \div r = a
BY SMT

LEMMA TickStep ==
    ASSUME ClockInv, Player!tick
    PROVE  ClockInv'
<1>1. /\ now # <<>> /\ Head(now) = "tick" /\ now' = Tail(now)
      /\ UNCHANGED <<rate, gap, follow, anim, focus>>
    BY DEF Player!tick, Player!loops, Player!camera
<1>2. now' \in Seq(Kinds)
    BY <1>1, TailTicks DEF ClockInv
<1>3. CASE ~ playerPlaying
    <2>1. UNCHANGED <<next, playerPlaying, lag, spent>>
        BY <1>3 DEF Player!tick
    <2> QED
        BY <1>1, <1>2, <1>3, <2>1 DEF ClockInv
<1>4. CASE playerPlaying
    <2>1. /\ Player!AtLapEnd(Player!Wrapped(playerT + Player!Elapsed))
          /\ lag' = 0 /\ spent' = spent + Player!Elapsed \div rate
        BY <1>4 DEF Player!tick
    <2>2. spent' = spent + lag
        <3>1. rate \in Nat \ {0} /\ lag \in Nat
            BY ReviewBounds DEF ClockInv, Player!SessionAssumption
        <3> QED
            BY <2>1, <3>1, ElapsedIs DEF Player!Elapsed
    <2>3. \/ next' = Player!Scheduled(next) /\ ~ playerPlaying'
          \/ next' = Append(Player!Scheduled(next), "tick")
        BY <2>1 DEF Player!AtLapEnd, Player!Halt, Player!Run, Player!setT, Player!schedule
    <2>4. next' \in Seq(Kinds) /\ (playerPlaying' => Ticking(next'))
        BY <2>3, ScheduledIs, AppendTicks DEF ClockInv, Kinds
    <2>5. lag' \in Nat /\ spent' \in Nat /\ spent' + lag' <= gap
        BY <2>1, <2>2 DEF ClockInv
    <2> QED
        BY <1>1, <1>2, <2>4, <2>5 DEF ClockInv
<1> QED
    BY <1>3, <1>4

LEMMA ClockStep ==
    ASSUME ClockInv, [Player!Next]_playerVars
    PROVE  ClockInv'
<1>1. CASE Player!FrameBegins
    <2>1. /\ now = <<>> /\ now' = next /\ next' = <<>> /\ spent' = 0
          /\ UNCHANGED <<rate, playerPlaying, follow, anim, focus>>
        BY <1>1 DEF Player!FrameBegins, Player!playback, Player!camera
    <2>2. PICK g \in FrameGaps : gap' = g /\ lag' = IF playerPlaying THEN g ELSE 0
        BY <1>1 DEF Player!FrameBegins
    <2>3. g \in Nat
        BY ReviewBounds DEF Player!SessionAssumption
    <2>4. ~ Ticking(now) /\ <<>> \in Seq(Kinds)
        BY <2>1 DEF Ticking
    <2>5. {lag', gap', spent'} \subseteq Nat /\ spent' + lag' <= gap'
        BY <2>1, <2>2, <2>3
    <2> QED
        BY <2>1, <2>4, <2>5 DEF ClockInv
<1>2. CASE Player!runFrame
    <2>1. /\ now # <<>> /\ Head(now) = "frame" /\ now' = Tail(now)
          /\ next' \in {next, Append(next, "frame")}
          /\ anim' \in {anim, None}
          /\ UNCHANGED <<rate, playerPlaying, lag, gap, spent, follow, focus>>
        BY <1>2 DEF Player!runFrame, Player!stepCam, Player!playback
    <2>2. now' \in Seq(Kinds) /\ (Ticking(now) <=> Ticking(now'))
        BY <2>1, TailTicks DEF ClockInv
    <2>3. next' \in Seq(Kinds) /\ (Ticking(next) <=> Ticking(next'))
        BY <2>1, AppendTicks DEF ClockInv, Kinds
    <2> QED
        BY <2>1, <2>2, <2>3 DEF ClockInv
<1>3. CASE Player!tick
    BY <1>3, TickStep
<1>4. CASE Player!User
    BY <1>4, UserStep, PlayStep
<1>5. CASE UNCHANGED playerVars
    BY <1>5 DEF playerVars, ClockInv
<1> QED
    BY <1>1, <1>2, <1>3, <1>4, <1>5 DEF Player!Next, Player!Callbacks

-----------------------------------------------------------------------------
(* The clock against the laps and the A-B loop. *)

TD == PlayerLoop!TD

LEMMA ClampIs ==
    ASSUME NEW t \in Int
    PROVE  PlayerLoop!Clamp(t) = IF t < 0 THEN 0 ELSE IF t > TD THEN TD ELSE t
<1>1. TD \in Nat
    BY ReviewBounds DEF PlayerLoop!SessionAssumption, TD, PlayerLoop!TD
<1> DEFINE lo == PlayerLoop!Min({TD, t})
           hi == PlayerLoop!Max({0, lo})
<1>2. lo = IF t > TD THEN TD ELSE t
    <2>1. \E x \in {TD, t} : \A y \in {TD, t} : x <= y
        BY <1>1
    <2>2. lo \in {TD, t} /\ \A y \in {TD, t} : lo <= y
        BY <2>1 DEF PlayerLoop!Min
    <2> QED
        BY <1>1, <2>2
<1>3. hi = IF lo < 0 THEN 0 ELSE lo
    <2>1. lo \in Int
        BY <1>1, <1>2
    <2> HIDE DEF lo
    <2>2. \E x \in {0, lo} : \A y \in {0, lo} : x >= y
        BY <2>1
    <2>3. hi \in {0, lo} /\ \A y \in {0, lo} : hi >= y
        BY <2>2 DEF PlayerLoop!Max
    <2> QED
        BY <2>1, <2>3
<1>4. PlayerLoop!Clamp(t) = hi
    BY DEF PlayerLoop!Clamp, TD
<1> QED
    BY <1>1, <1>2, <1>3, <1>4

LEMMA LapBounds ==
    ASSUME NEW l \in PlayerLoop!Laps
    PROVE  /\ PlayerLoop!Start(l) \in Nat /\ PlayerLoop!EndOf(l) \in Nat /\ TD \in Nat
           /\ PlayerLoop!Start(l) < PlayerLoop!EndOf(l)
           /\ PlayerLoop!EndOf(l) <= TD
           /\ l = LapCount <=> PlayerLoop!EndOf(l) = TD
<1>1. LapCount \in Nat \ {0} /\ LapLength \in Nat \ {0} /\ l \in 1..LapCount
    BY ReviewBounds DEF PlayerLoop!SessionAssumption, PlayerLoop!Laps
<1>2. /\ (l - 1) * LapLength \in Nat /\ l * LapLength \in Nat /\ LapCount * LapLength \in Nat
      /\ l * LapLength = (l - 1) * LapLength + LapLength
      /\ l * LapLength <= LapCount * LapLength
      /\ (l * LapLength = LapCount * LapLength => l = LapCount)
    BY <1>1, SMT
<1> QED
    BY <1>1, <1>2 DEF PlayerLoop!Start, PlayerLoop!EndOf, TD, PlayerLoop!TD

\* The lap at a time is the one that has begun and not ended.
LEMMA LapIs ==
    ASSUME NEW t \in 0..TD
    PROVE  /\ PlayerLoop!lapIndexAt(t) \in PlayerLoop!Laps
           /\ t < TD => \A l \in PlayerLoop!Laps :
                PlayerLoop!lapIndexAt(t) = l <=> PlayerLoop!Start(l) <= t /\ t < PlayerLoop!EndOf(l)
           /\ t = TD => PlayerLoop!lapIndexAt(t) = LapCount
<1>1. LapCount \in Nat \ {0} /\ LapLength \in Nat \ {0} /\ TD = LapCount * LapLength
    BY ReviewBounds DEF PlayerLoop!SessionAssumption, TD, PlayerLoop!TD
<1>2. CASE t = TD
    BY <1>1, <1>2 DEF PlayerLoop!lapIndexAt, PlayerLoop!Laps, TD
<1>3. CASE t < TD
    <2>1. PlayerLoop!lapIndexAt(t) = t \div LapLength + 1
        BY <1>1, <1>3 DEF PlayerLoop!lapIndexAt, TD, PlayerLoop!TD
    <2>2. t \in Nat /\ t < LapCount * LapLength
        BY <1>1, <1>3
    <2>3. t \div LapLength + 1 \in 1..LapCount
        BY <1>1, <2>2, SMTT(30)
    <2>4. ASSUME NEW l \in 1..LapCount
          PROVE  t \div LapLength + 1 = l <=> (l - 1) * LapLength <= t /\ t < l * LapLength
        BY <1>1, <2>2, SMTT(30)
    <2> QED
        BY <1>1, <1>3, <2>1, <2>3, <2>4 DEF PlayerLoop!Laps, PlayerLoop!Start, PlayerLoop!EndOf
<1> QED
    BY <1>1, <1>2, <1>3

\* Clock, lap shown and loop are within the session.
LoopInv ==
    /\ playerT \in 0..TD /\ sel \in PlayerLoop!Laps
    /\ rate \in LoopRates /\ lag \in Nat
    /\ {loopA, loopB} \subseteq (0..TD) \cup {None}

LEMMA ElapsedLoop == LoopInv => PlayerLoop!Elapsed \in Nat
<1> SUFFICES ASSUME LoopInv
             PROVE  lag * rate \in Nat
    BY DEF PlayerLoop!Elapsed
<1>1. lag \in Nat /\ rate \in Nat
    BY ReviewBounds DEF LoopInv, PlayerLoop!SessionAssumption
<1> QED
    BY <1>1, SMT

LEMMA WrappedIs ==
    ASSUME LoopInv
    PROVE  PlayerLoop!Wrapped(playerT + PlayerLoop!Elapsed) \in Int
<1>1. playerT \in Int /\ PlayerLoop!Elapsed \in Nat
    BY ElapsedLoop, ReviewBounds DEF LoopInv
<1>2. PlayerLoop!HasLoop => loopA \in Int /\ loopB \in Int
    BY DEF PlayerLoop!HasLoop, LoopInv
<1> QED
    BY <1>1, <1>2 DEF PlayerLoop!Wrapped

\* Where a tick puts the clock.
LEMMA AtLapEndIs ==
    ASSUME LoopInv, NEW nt \in Int, PlayerLoop!AtLapEnd(nt)
    PROVE  LET end == PlayerLoop!EndOf(sel)
               m == IF nt >= end /\ endMode = "loop" THEN PlayerLoop!Start(sel) + (nt - end) ELSE nt
           IN  playerT' = IF nt >= end /\ endMode = "stop" THEN end - 1
                          ELSE IF m >= TD THEN TD ELSE IF m < 0 THEN 0 ELSE m
<1> DEFINE end == PlayerLoop!EndOf(sel)
           m == IF nt >= end /\ endMode = "loop" THEN PlayerLoop!Start(sel) + (nt - end) ELSE nt
<1>1. /\ end \in Nat /\ TD \in Nat /\ PlayerLoop!Start(sel) \in Nat /\ end <= TD
      /\ PlayerLoop!Start(sel) < end
    BY LapBounds DEF LoopInv
<1>2. playerT' = PlayerLoop!Clamp(IF nt >= end /\ endMode = "stop" THEN end - 1
                                  ELSE IF m >= TD THEN TD ELSE m)
    BY DEF PlayerLoop!AtLapEnd, PlayerLoop!Halt, PlayerLoop!Run, PlayerLoop!setT, TD
<1>3. m \in Int
    BY <1>1
<1> HIDE DEF end, m
<1>4. CASE nt >= end /\ endMode = "stop"
    BY <1>1, <1>2, <1>4, ClampIs DEF end, m
<1>5. CASE ~ (nt >= end /\ endMode = "stop") /\ m >= TD
    BY <1>1, <1>2, <1>5, ClampIs DEF end, m
<1>6. CASE ~ (nt >= end /\ endMode = "stop") /\ ~ m >= TD
    BY <1>1, <1>2, <1>3, <1>6, ClampIs DEF end, m
<1> QED
    BY <1>4, <1>5, <1>6

LEMMA LoopStep ==
    ASSUME LoopInv, [PlayerLoop!Next]_playerVars
    PROVE  LoopInv'
<1> USE DEF PlayerLoop!playback, PlayerLoop!loops
<1>0. TD \in Nat /\ playerT \in Nat /\ sel \in PlayerLoop!Laps
    BY LapBounds DEF LoopInv
<1>1. ASSUME NEW t \in Int, PlayerLoop!Seek(t)
      PROVE  LoopInv'
    <2>1. playerT' \in 0..TD
        BY <1>0, <1>1, ClampIs DEF PlayerLoop!Seek, PlayerLoop!setT
    <2> QED
        BY <1>1, <2>1 DEF PlayerLoop!Seek, LoopInv
<1>2. \A t : t \in PlayerLoop!Start(sel)..PlayerLoop!EndOf(sel) => t \in 0..TD
    BY <1>0, LapBounds
<1>3. CASE PlayerLoop!scrub \/ PlayerLoop!Keys
    BY <1>0, <1>1, <1>2, <1>3 DEF PlayerLoop!scrub, PlayerLoop!Keys, PlayerLoop!SeekOnLap, TD
<1>4. ASSUME NEW d \in {-1, 1}, PlayerLoop!stepLap(d)
      PROVE  LoopInv'
    <2> DEFINE n == IF d < 0 /\ playerT - PlayerLoop!Start(sel) > LapNear THEN sel ELSE sel + d
    <2>1. /\ n \in Int
          /\ PlayerLoop!Seek(PlayerLoop!Start(PlayerLoop!Max({1, PlayerLoop!Min({LapCount, n})})))
        BY <1>0, <1>4, ReviewBounds DEF PlayerLoop!stepLap, PlayerLoop!Laps
    <2> HIDE DEF n
    <2> DEFINE lo == PlayerLoop!Min({LapCount, n})
               hi == PlayerLoop!Max({1, lo})
    <2>2. LapCount \in Nat \ {0}
        BY ReviewBounds DEF PlayerLoop!SessionAssumption
    <2>3. lo \in Int /\ lo <= LapCount
        <3>1. \E x \in {LapCount, n} : \A y \in {LapCount, n} : x <= y
            BY <2>1, <2>2
        <3>2. lo \in {LapCount, n} /\ \A y \in {LapCount, n} : lo <= y
            BY <3>1 DEF PlayerLoop!Min
        <3> QED
            BY <2>1, <2>2, <3>2
    <2>4. hi \in 1..LapCount
        <3> HIDE DEF lo
        <3>1. \E x \in {1, lo} : \A y \in {1, lo} : x >= y
            BY <2>3
        <3>2. hi \in {1, lo} /\ \A y \in {1, lo} : hi >= y
            BY <3>1 DEF PlayerLoop!Max
        <3> QED
            BY <2>2, <2>3, <3>2
    <2> HIDE DEF hi
    <2>5. PlayerLoop!Start(hi) \in Int
        BY <2>4, LapBounds DEF PlayerLoop!Laps
    <2> QED
        BY <1>1, <2>1, <2>5 DEF hi
<1>5. ASSUME NEW on \in BOOLEAN, PlayerLoop!play(on)
      PROVE  LoopInv'
    <2>1. UNCHANGED <<sel, rate, loopA, loopB>> /\ lag' \in Nat
        BY <1>5 DEF PlayerLoop!play, LoopInv
    <2>2. PlayerLoop!Resumed \in 0..TD
        <3>1. /\ PlayerLoop!EndOf(sel) \in Nat /\ PlayerLoop!EndOf(sel) <= TD
              /\ LapNear \in Nat
            BY <1>0, LapBounds, ReviewBounds DEF PlayerLoop!SessionAssumption
        <3> QED
            BY <1>0, <3>1 DEF PlayerLoop!Resumed, TD, LoopInv
    <2>3. playerT' \in {playerT, PlayerLoop!Resumed}
        BY <1>5 DEF PlayerLoop!play
    <2> QED
        BY <2>1, <2>2, <2>3 DEF LoopInv
<1>6. CASE PlayerLoop!SetEnd \/ PlayerLoop!SetRate
    BY <1>6 DEF PlayerLoop!SetEnd, PlayerLoop!SetRate, LoopInv
<1>7. CASE PlayerLoop!setLoopA \/ PlayerLoop!setLoopB \/ PlayerLoop!clearLoop
    BY <1>7 DEF PlayerLoop!setLoopA, PlayerLoop!setLoopB, PlayerLoop!clearLoop,
        PlayerLoop!LoopChange, LoopInv
<1>8. CASE PlayerLoop!loopSegment
    BY <1>2, <1>8 DEF PlayerLoop!loopSegment, PlayerLoop!LoopChange, LoopInv
<1>9. CASE PlayerLoop!MapGestures \/ PlayerLoop!zoomArc
    BY <1>9 DEF PlayerLoop!MapGestures, PlayerLoop!zoomArc, PlayerLoop!takeCamera,
        PlayerLoop!zoomBy, PlayerLoop!flyFit, PlayerLoop!setFollow, PlayerLoop!CameraChange
<1>10. CASE PlayerLoop!FrameBegins
    BY <1>10, ReviewBounds DEF PlayerLoop!FrameBegins, PlayerLoop!SessionAssumption, LoopInv
<1>11. CASE PlayerLoop!runFrame
    <2>1. UNCHANGED <<playerT, rate, lag, loopA, loopB>> /\ sel' = PlayerLoop!lapIndexAt(playerT)
        BY <1>11 DEF PlayerLoop!runFrame
    <2> QED
        BY <2>1, LapIs DEF LoopInv
<1>12. CASE PlayerLoop!tick
    <2>1. UNCHANGED <<sel, rate, loopA, loopB>>
        BY <1>12 DEF PlayerLoop!tick
    <2>2. CASE ~ playerPlaying
        BY <1>12, <2>1, <2>2 DEF PlayerLoop!tick, LoopInv
    <2>3. CASE playerPlaying
        <3> DEFINE nt == PlayerLoop!Wrapped(playerT + PlayerLoop!Elapsed)
        <3>1. nt \in Int /\ PlayerLoop!AtLapEnd(nt) /\ lag' = 0
            BY <1>12, <2>3, WrappedIs DEF PlayerLoop!tick
        <3> HIDE DEF nt
        <3>2. /\ PlayerLoop!EndOf(sel) \in Nat /\ PlayerLoop!EndOf(sel) <= TD
              /\ PlayerLoop!Start(sel) \in Nat /\ PlayerLoop!Start(sel) < PlayerLoop!EndOf(sel)
            BY <1>0, LapBounds
        <3>3. playerT' \in 0..TD
            BY <1>0, <3>1, <3>2, AtLapEndIs
        <3> QED
            BY <2>1, <3>1, <3>3 DEF LoopInv
    <2> QED
        BY <2>2, <2>3
<1>13. CASE UNCHANGED playerVars
    BY <1>13 DEF playerVars, LoopInv
<1> QED
    BY <1>3, <1>4, <1>5, <1>6, <1>7, <1>8, <1>9, <1>10, <1>11, <1>12, <1>13
    DEF PlayerLoop!Next, PlayerLoop!Callbacks, PlayerLoop!User, PlayerLoop!TransportBar

LEMMA LoopKept == LoopInv => PlayerLoop!LoopHolds
<1> SUFFICES ASSUME LoopInv, PlayerLoop!tick, playerPlaying, endMode = "go",
                    PlayerLoop!HasLoop, playerT \in loopA..loopB,
                    PlayerLoop!Elapsed <= loopB - loopA
             PROVE  playerT' \in loopA..loopB
    BY DEF PlayerLoop!LoopHolds
<1> DEFINE nt == PlayerLoop!Wrapped(playerT + PlayerLoop!Elapsed)
<1>1. nt \in Int /\ PlayerLoop!AtLapEnd(nt)
    BY WrappedIs DEF PlayerLoop!tick
<1>2. loopA \in 0..TD /\ loopB \in 0..TD /\ loopB > loopA /\ TD \in Nat /\ playerT \in Nat
    BY LapBounds DEF PlayerLoop!HasLoop, LoopInv
<1>3. nt \in loopA..loopB
    BY <1>2, ElapsedLoop DEF PlayerLoop!Wrapped
<1> HIDE DEF nt
<1>4. playerT' = IF nt >= TD THEN TD ELSE IF nt < 0 THEN 0 ELSE nt
    BY <1>1, AtLapEndIs
<1> QED
    BY <1>2, <1>3, <1>4

LEMMA LapKept == LoopInv => PlayerLoop!StaysOnLap
<1> SUFFICES ASSUME LoopInv, PlayerLoop!tick, playerPlaying, endMode = "stop",
                    ~ PlayerLoop!HasLoop, sel = PlayerLoop!lapIndexAt(playerT)
             PROVE  PlayerLoop!lapIndexAt(playerT') = sel
    BY DEF PlayerLoop!StaysOnLap
<1> DEFINE nt == playerT + PlayerLoop!Elapsed
           end == PlayerLoop!EndOf(sel)
<1>1. PlayerLoop!AtLapEnd(nt)
    BY DEF PlayerLoop!tick, PlayerLoop!Wrapped
<1>2. /\ sel \in PlayerLoop!Laps /\ end \in Nat /\ TD \in Nat /\ PlayerLoop!Start(sel) \in Nat
      /\ PlayerLoop!Start(sel) < end /\ end <= TD
      /\ sel = LapCount <=> end = TD
    BY LapBounds DEF LoopInv
<1>3. playerT \in 0..TD /\ nt \in Int /\ nt >= playerT
    BY <1>2, ElapsedLoop DEF LoopInv
<1>4. playerT < TD => PlayerLoop!Start(sel) <= playerT
    BY <1>2, <1>3, LapIs
<1> HIDE DEF nt, end
<1>5. playerT' = IF nt >= end THEN end - 1
                 ELSE IF nt >= TD THEN TD ELSE IF nt < 0 THEN 0 ELSE nt
    BY <1>1, <1>3, AtLapEndIs DEF end
<1>6. CASE playerT < TD
    <2>1. playerT' \in 0..TD /\ playerT' < TD /\ PlayerLoop!Start(sel) <= playerT' /\ playerT' < end
        BY <1>2, <1>3, <1>4, <1>5, <1>6
    <2> QED
        BY <1>2, <2>1, LapIs DEF end
<1>7. CASE playerT = TD
    <2>1. sel = LapCount /\ end = TD
        BY <1>2, <1>3, <1>7, LapIs
    <2>2. playerT' = end - 1
        BY <1>2, <1>3, <1>5, <1>7, <2>1
    <2>3. playerT' \in 0..TD /\ playerT' < TD /\ PlayerLoop!Start(sel) <= playerT' /\ playerT' < end
        BY <1>2, <2>1, <2>2
    <2> QED
        BY <1>2, <2>3, LapIs DEF end
<1> QED
    BY <1>2, <1>3, <1>6, <1>7

\* The player, whatever the laps, rates and times between frames: it plays no faster than
\* the clock, a tick is asked for while it plays, the camera does one thing, a tick does
\* not leave the loop it fits in, and the end of a lap stops a clock set to stop there.
THEOREM PlayerIsSound == Spec => PlayerSound
<1> DEFINE Inv == /\ scene = "player" => ClockInv
                  /\ scene = "loop" => LoopInv
<1>1. Init => Inv
    <2> SUFFICES ASSUME Init
                 PROVE  Inv
        OBVIOUS
    <2>1. scene = "player" => ClockInv
        <3>1. <<"frame">> \in Seq(Kinds) /\ <<>> \in Seq(Kinds)
            BY DEF Kinds
        <3>2. scene = "player" => Player!Init
            BY DEF Init
        <3> QED
            BY <3>1, <3>2 DEF Player!Init, ClockInv
    <2>2. scene = "loop" => LoopInv
        <3> SUFFICES ASSUME scene = "loop"
                     PROVE  LoopInv
            OBVIOUS
        <3>1. PICK l \in PlayerLoop!Laps : playerT = PlayerLoop!Start(l)
            BY DEF Init, PlayerLoop!Init
        <3>2. playerT \in 0..TD
            BY <3>1, LapBounds
        <3>3. 1 \in PlayerLoop!Laps
            BY ReviewBounds DEF PlayerLoop!SessionAssumption, PlayerLoop!Laps
        <3> QED
            BY <3>2, <3>3 DEF Init, PlayerLoop!Init, LoopInv
    <2> QED
        BY <2>1, <2>2
<1>2. Inv /\ [Next]_vars => Inv'
    <2> SUFFICES ASSUME Inv, [Next]_vars
                 PROVE  Inv'
        OBVIOUS
    <2>1. scene' = scene
        BY DEF Next, vars, InReviewPlayer, InReviewNotes, InReviewRuns, InTrackMapper,
            InReplay
    <2>2. /\ scene = "player" => [Player!Next]_playerVars
          /\ scene = "loop" => [PlayerLoop!Next]_playerVars
        BY DEF Next, vars, InReviewPlayer, InReviewNotes, InReviewRuns, InTrackMapper,
            InReplay
    <2> QED
        BY <2>1, <2>2, ClockStep, LoopStep
<1>3. Inv => InTime /\ KeepsTicking /\ CameraOne
    <2> SUFFICES ASSUME ClockInv
                 PROVE  Player!InTime /\ Player!KeepsTicking /\ Player!CameraOne
        BY DEF InTime, KeepsTicking, CameraOne
    <2>1. Player!InTime /\ Player!CameraOne
        BY DEF ClockInv, Player!InTime, Player!CameraOne
    <2>2. ASSUME NEW i \in DOMAIN now, now[i] = "tick"
          PROVE  \E j \in 1..Len(now \o next) : (now \o next)[j] = "tick"
        <3>1. i \in 1..Len(now \o next) /\ (now \o next)[i] = now[i]
            BY DEF ClockInv
        <3> QED
            BY <2>2, <3>1
    <2>3. ASSUME NEW i \in DOMAIN next, next[i] = "tick"
          PROVE  \E j \in 1..Len(now \o next) : (now \o next)[j] = "tick"
        <3>1. Len(now) + i \in 1..Len(now \o next) /\ (now \o next)[Len(now) + i] = next[i]
            BY DEF ClockInv
        <3> QED
            BY <2>3, <3>1
    <2> QED
        BY <2>1, <2>2, <2>3 DEF ClockInv, Ticking, Player!KeepsTicking
<1>4. Inv /\ [Next]_vars => [scene = "loop" => PlayerLoop!LoopHolds]_playerVars
    BY LoopKept
<1>5. Inv /\ [Next]_vars => [scene = "loop" => PlayerLoop!StaysOnLap]_playerVars
    BY LapKept
<1> QED
    BY <1>1, <1>2, <1>3, <1>4, <1>5, PTL DEF Spec, PlayerSound, LoopHolds, StaysOnLap
-----------------------------------------------------------------------------
(* Proofs: the replay of a day, for any days, packets, marks and moves.      *)

\* The ends of a recording with a gap in it.
LEMMA EndsOf ==
    ASSUME NEW F \in Nat, NEW n \in Nat, NEW g \in 1..(n - 1),
           NEW P, P = {F + i : i \in (0..n) \ {g}}
    PROVE  /\ (CHOOSE x \in P : \A y \in P : x <= y) = F
           /\ (CHOOSE x \in P : \A y \in P : x >= y) = F + n
<1>1. F \in P /\ F + n \in P
    <2>1. F + 0 \in P /\ F + n \in P
        <3>1. 0 \in (0..n) \ {g} /\ n \in (0..n) \ {g}
            OBVIOUS
        <3> QED
            BY <3>1
    <2> QED
        BY <2>1
<1>2. \A y \in P : y \in Nat /\ F <= y /\ y <= F + n
    OBVIOUS
<1> QED
    BY <1>1, <1>2

LEMMA Times ==
    ASSUME NEW s \in ReplayDays
    PROVE  /\ ReplayDay!First(s) \in Nat
           /\ s \notin RawDays => ReplayDay!TimeStart(s) = ReplayDay!First(s)
                                  /\ ReplayDay!TimeEnd(s) = ReplayDay!First(s) + DaySpan
           /\ ReplayLossy!TimeStart(s) \in Nat /\ ReplayLossy!TimeEnd(s) \in Nat
<1>1. /\ ReplayDays \subseteq Nat /\ None \notin Nat /\ DaySpan \in Nat /\ LossySpan \in Nat
      /\ PacketGap \in 1..(DaySpan - 1) /\ PacketGap \in 1..(LossySpan - 1)
    BY ReviewBounds DEF ReplayDay!DaysAssumption, ReplayDay!SpanAssumption,
        ReplayLossy!SpanAssumption
<1>2. /\ s \in Nat /\ s # None
    BY <1>1
<1>3. /\ s * (DaySpan + 3) \in Nat /\ s * (LossySpan + 3) \in Nat
    BY <1>1, <1>2
<1>4. ASSUME s \notin RawDays
      PROVE  ReplayDay!TimeStart(s) = ReplayDay!First(s)
             /\ ReplayDay!TimeEnd(s) = ReplayDay!First(s) + DaySpan
    <2> DEFINE F == s * (DaySpan + 3)
               P == {F + i : i \in (0..DaySpan) \ {PacketGap}}
    <2>1. ReplayDay!Packets(s) = P /\ ReplayDay!First(s) = F
        BY <1>4 DEF ReplayDay!Packets, ReplayDay!First
    <2>2. /\ (CHOOSE x \in P : \A y \in P : x <= y) = F
          /\ (CHOOSE x \in P : \A y \in P : x >= y) = F + DaySpan
        <3> HIDE DEF F
        <3> QED
            BY <1>1, <1>3, EndsOf DEF F
    <2>3. ReplayDay!TimeStart(s) = ReplayDay!Min(P) /\ ReplayDay!TimeEnd(s) = ReplayDay!Max(P)
        BY <1>2, <1>4, <2>1 DEF ReplayDay!TimeStart, ReplayDay!TimeEnd
    <2> QED
        BY <2>1, <2>2, <2>3 DEF ReplayDay!Min, ReplayDay!Max
<1>5. ReplayLossy!TimeStart(s) \in Nat /\ ReplayLossy!TimeEnd(s) \in Nat
    <2> DEFINE F == s * (LossySpan + 3)
               P == {F + i : i \in (0..LossySpan) \ {PacketGap}}
    <2>1. ReplayLossy!Packets(s) = P
        BY DEF ReplayLossy!Packets, ReplayLossy!First
    <2>2. /\ (CHOOSE x \in P : \A y \in P : x <= y) = F
          /\ (CHOOSE x \in P : \A y \in P : x >= y) = F + LossySpan
        <3> HIDE DEF F
        <3> QED
            BY <1>1, <1>3, EndsOf DEF F
    <2>3. /\ ReplayLossy!TimeStart(s) = ReplayLossy!Min(P)
          /\ ReplayLossy!TimeEnd(s) = ReplayLossy!Max(P)
        BY <1>2, <2>1 DEF ReplayLossy!TimeStart, ReplayLossy!TimeEnd
    <2>4. F \in Nat /\ F + LossySpan \in Nat
        BY <1>1, <1>3
    <2>5. ReplayLossy!Min(P) = F /\ ReplayLossy!Max(P) = F + LossySpan
        BY <2>2 DEF ReplayLossy!Min, ReplayLossy!Max
    <2> HIDE DEF F, P
    <2> QED
        BY <2>3, <2>4, <2>5
<1> QED
    BY <1>3, <1>4, <1>5 DEF ReplayDay!First

LEMMA LatestDay == ReplayDay!Max(ReplayDays) \in ReplayDays /\ ReplayLossy!Max(ReplayDays) \in ReplayDays
<1>1. \E d \in ReplayDays : \A e \in ReplayDays : d >= e
    <2>1. PICK d \in ReplayDays : \A e \in ReplayDays : e <= d
        BY ReviewBounds DEF ReplayDay!DaysAssumption
    <2>2. ReplayDays \subseteq Nat
        BY ReviewBounds DEF ReplayDay!DaysAssumption
    <2> QED
        BY <2>1, <2>2
<1> QED
    BY <1>1 DEF ReplayDay!Max, ReplayLossy!Max

\* Requests not cancelled are for the day picked, and so are the events listed.
AskedInv ==
    /\ day \in ReplayDays \cup {None}
    /\ eventReqs \subseteq [day : ReplayDays, cancelled : BOOLEAN]
    /\ \A r \in eventReqs : ~r.cancelled => r.day = day
    /\ replayEvents \subseteq ReplayDays /\ replayEvents \subseteq {day}
    /\ ~replayListed => eventReqs = {} /\ replayEvents = {}

\* When no summary outlasts a choice, those on their way are of the event selected,
\* which has none yet.
ChosenInv ==
    /\ selected \in {None, day}
    /\ summary # None => summary = selected
    /\ \A e \in summaryReqs : e = selected /\ e # None /\ summary = None
    /\ ~replayListed => summaryReqs = {}

\* There is a cursor only on a timeline, and the page has one idea of where it is.
CursorInv ==
    /\ {cursor, cursorRef, anchor} \subseteq Nat \cup {None}
    /\ ReplayDay!TimeStart(summary) = None => {cursor, cursorRef, anchor} = {None}
    /\ ~isEnd => cursor = cursorRef
    /\ moves \in Nat /\ drops \in Nat

\* The stream of one query at a time: no packet it may still send is before the cursor.
ConnInv == conn # None =>
    /\ selected # None /\ anchor # None /\ ~isEnd
    /\ \E n \in Nat : \E q :
          /\ conn = [event |-> selected, from |-> anchor, playing |-> replayPlaying,
                     elapsed |-> n, sends |-> q]
          /\ q \subseteq {anchor + n}
          /\ cursor # None => \A p \in ReplayDay!PacketsFrom(selected, anchor + n) : cursor <= p

DayInv == AskedInv /\ ChosenInv /\ CursorInv /\ ConnInv

\* A stream that may be lost, with several queries: none is for a time before the anchor.
StreamInv == conn # None =>
    /\ selected # None /\ anchor # None /\ ~isEnd
    /\ \E n \in Nat : \E q :
          /\ conn = [event |-> selected, from |-> anchor, playing |-> replayPlaying,
                     elapsed |-> n, sends |-> q]
          /\ q \subseteq {at \in Nat : at >= anchor}

\* With summaries that come late: the end shown is that of the timeline shown, whoever
\* is selected.
HeldInv ==
    /\ summaryReqs \subseteq ReplayDays /\ {summary, selected} \subseteq ReplayDays \cup {None}
    /\ {cursor, cursorRef, anchor} \subseteq Nat \cup {None}
    /\ anchor # None => summary # None
    /\ replayPlaying \in BOOLEAN /\ (~isEnd => cursor = cursorRef)
    /\ isEnd => ~replayPlaying /\ cursor = ReplayLossy!TimeEnd(summary)
    /\ ReplayLossy!NotBeforeStart

LossyInv == AskedInv /\ HeldInv /\ StreamInv

NewDay ==
    /\ day' \in ReplayDays \cup {None} /\ replayListed'
    /\ replayEvents' = {}
    /\ eventReqs' = {[r EXCEPT !.cancelled = TRUE] : r \in eventReqs}
                      \cup (IF day' = None THEN {} ELSE {[day |-> day', cancelled |-> FALSE]})

Answered(r) ==
    /\ eventReqs' = eventReqs \ {r}
    /\ replayEvents' = IF r.cancelled THEN replayEvents ELSE {r.day}
    /\ UNCHANGED <<replayListed, day>>

LEMMA AskedStep ==
    ASSUME AskedInv,
           \/ NewDay
           \/ \E r \in eventReqs : Answered(r)
           \/ UNCHANGED <<replayListed, day, replayEvents, eventReqs>>
    PROVE  AskedInv'
<1>1. CASE NewDay
    <2> DEFINE old == {[r EXCEPT !.cancelled = TRUE] : r \in eventReqs}
               new == [day |-> day', cancelled |-> FALSE]
    <2>1. ASSUME NEW r \in old
          PROVE  r \in [day : ReplayDays, cancelled : BOOLEAN] /\ r.cancelled
        <3>1. PICK q \in eventReqs : r = [q EXCEPT !.cancelled = TRUE]
            BY <2>1
        <3>2. q \in [day : ReplayDays, cancelled : BOOLEAN]
            BY DEF AskedInv
        <3>3. PICK d \in ReplayDays, c \in BOOLEAN : q = [day |-> d, cancelled |-> c]
            BY <3>2
        <3>4. \A v : [[day |-> d, cancelled |-> c] EXCEPT !.cancelled = v]
                       = [day |-> d, cancelled |-> v]
            OBVIOUS
        <3>5. r = [day |-> d, cancelled |-> TRUE]
            BY <3>1, <3>3, <3>4, Zenon
        <3> QED
            BY <3>3, <3>5
    <2>2. day' # None => new \in [day : ReplayDays, cancelled : BOOLEAN] /\ new.day = day'
        BY <1>1 DEF NewDay
    <2>3. eventReqs' = old \cup (IF day' = None THEN {} ELSE {new})
        BY <1>1 DEF NewDay
    <2> HIDE DEF old, new
    <2>4. /\ eventReqs' \subseteq [day : ReplayDays, cancelled : BOOLEAN]
          /\ \A r \in eventReqs' : ~r.cancelled => r.day = day'
        BY <2>1, <2>2, <2>3
    <2> QED
        BY <1>1, <2>4 DEF NewDay, AskedInv
<1>2. ASSUME NEW r \in eventReqs, Answered(r)
      PROVE  AskedInv'
    <2>1. r.day \in ReplayDays /\ (~r.cancelled => r.day = day)
        BY DEF AskedInv
    <2>2. replayEvents' = replayEvents \/ (replayEvents' = {day} /\ day \in ReplayDays)
        <3>1. r.cancelled => replayEvents' = replayEvents
            BY <1>2 DEF Answered
        <3>2. ~r.cancelled => replayEvents' = {r.day}
            BY <1>2 DEF Answered
        <3> QED
            BY <2>1, <3>1, <3>2
    <2>3. eventReqs' \subseteq eventReqs /\ day' = day /\ (replayListed' <=> replayListed)
        BY <1>2 DEF Answered
    <2>4. replayListed
        BY DEF AskedInv
    <2> QED
        BY <2>2, <2>3, <2>4 DEF AskedInv
<1>3. CASE UNCHANGED <<replayListed, day, replayEvents, eventReqs>>
    BY <1>3 DEF AskedInv
<1> QED
    BY <1>1, <1>2, <1>3

\* What the two scenes' days do to the requests.
LEMMA DayAsks ==
    ASSUME AskedInv, [ReplayDay!Next]_replayVars
    PROVE  AskedInv'
<1>1. CASE ReplayDay!ListDays
    BY <1>1, LatestDay, AskedStep DEF ReplayDay!ListDays, ReplayDay!DayEffect, NewDay
<1>2. ASSUME NEW d \in ReplayDays, ReplayDay!SelectDay(d)
      PROVE  AskedInv'
    BY <1>2, AskedStep DEF ReplayDay!SelectDay, ReplayDay!DayEffect, NewDay
<1>3. ASSUME NEW r \in eventReqs, ReplayDay!EventsArrive(r)
      PROVE  AskedInv'
    BY <1>3, AskedStep DEF ReplayDay!EventsArrive, Answered
<1>4. ASSUME \/ ReplayDay!Stream \/ ReplayDay!Reconnects \/ ReplayDay!handleTogglePlay
             \/ ReplayDay!handleRestart \/ ReplayDay!Seek \/ UNCHANGED replayVars
             \/ \E e \in replayEvents : ReplayDay!SelectEvent(e)
             \/ \E e \in summaryReqs : ReplayDay!SummaryArrives(e)
      PROVE  AskedInv'
    <2>1. UNCHANGED <<replayListed, day, replayEvents, eventReqs>>
        BY <1>4 DEF ReplayDay!Stream, ReplayDay!StreamTick, ReplayDay!SnapshotFails,
            ReplayDay!OnEnd, ReplayDay!OnState, ReplayDay!Reconnects,
            ReplayDay!handleTogglePlay, ReplayDay!handleRestart, ReplayDay!Seek,
            ReplayDay!SelectEvent, ReplayDay!SummaryArrives, ReplayDay!picks, replayVars
    <2> QED
        BY <2>1, AskedStep
<1> QED
    BY <1>1, <1>2, <1>3, <1>4 DEF ReplayDay!Next, ReplayDay!Answers

LEMMA LossyAsks ==
    ASSUME AskedInv, [ReplayLossy!Next]_replayVars
    PROVE  AskedInv'
<1>1. CASE ReplayLossy!ListDays
    BY <1>1, LatestDay, AskedStep DEF ReplayLossy!ListDays, ReplayLossy!DayEffect, NewDay
<1>2. ASSUME NEW d \in ReplayDays, ReplayLossy!SelectDay(d)
      PROVE  AskedInv'
    BY <1>2, AskedStep DEF ReplayLossy!SelectDay, ReplayLossy!DayEffect, NewDay
<1>3. ASSUME NEW r \in eventReqs, ReplayLossy!EventsArrive(r)
      PROVE  AskedInv'
    BY <1>3, AskedStep DEF ReplayLossy!EventsArrive, Answered
<1>4. ASSUME \/ ReplayLossy!Stream \/ ReplayLossy!Reconnects \/ ReplayLossy!handleTogglePlay
             \/ ReplayLossy!handleRestart \/ ReplayLossy!Seek \/ UNCHANGED replayVars
             \/ \E e \in replayEvents : ReplayLossy!SelectEvent(e)
             \/ \E e \in summaryReqs : ReplayLossy!SummaryArrives(e)
      PROVE  AskedInv'
    <2>1. UNCHANGED <<replayListed, day, replayEvents, eventReqs>>
        BY <1>4 DEF ReplayLossy!Stream, ReplayLossy!StreamTick, ReplayLossy!SnapshotFails,
            ReplayLossy!OnEnd, ReplayLossy!OnState, ReplayLossy!Reconnects,
            ReplayLossy!handleTogglePlay, ReplayLossy!handleRestart, ReplayLossy!Seek,
            ReplayLossy!SelectEvent, ReplayLossy!SummaryArrives, ReplayLossy!picks, replayVars
    <2> QED
        BY <2>1, AskedStep
<1> QED
    BY <1>1, <1>2, <1>3, <1>4 DEF ReplayLossy!Next, ReplayLossy!Answers

\* Packets and timeline of a day, or of none.
LEMMA DayPackets ==
    ASSUME NEW s \in ReplayDays \cup {None}
    PROVE  \/ ReplayDay!TimeStart(s) = None
           \/ /\ s \in ReplayDays \ RawDays /\ ReplayDay!First(s) \in Nat
              /\ ReplayDay!Packets(s) = {ReplayDay!First(s) + i : i \in (0..DaySpan) \ {PacketGap}}
              /\ ReplayDay!Packets(s) \subseteq Nat
              /\ ReplayDay!TimeStart(s) \in Nat /\ ReplayDay!TimeEnd(s) \in Nat
<1>1. CASE s = None \/ s \in RawDays
    BY <1>1 DEF ReplayDay!TimeStart
<1>2. CASE s \in ReplayDays \ RawDays
    <2> DEFINE F == ReplayDay!First(s)
    <2>1. /\ F \in Nat /\ DaySpan \in Nat
          /\ ReplayDay!TimeStart(s) = F /\ ReplayDay!TimeEnd(s) = F + DaySpan
        BY <1>2, Times, ReviewBounds DEF ReplayDay!SpanAssumption
    <2>2. ReplayDay!Packets(s) = {F + i : i \in (0..DaySpan) \ {PacketGap}}
        BY <1>2 DEF ReplayDay!Packets
    <2> HIDE DEF F
    <2>3. ReplayDay!Packets(s) \subseteq Nat /\ F + DaySpan \in Nat
        BY <2>1, <2>2
    <2> QED
        BY <1>2, <2>1, <2>2, <2>3 DEF F
<1> QED
    BY <1>1, <1>2

\* Some packets of a day are left at a time: the day's first is at F, there are n more
\* and the one at g is missing.
Left(Q, F, n, g, at) ==
    /\ F \in Nat /\ n \in Nat /\ g \in 1..(n - 1) /\ at \in Nat /\ Q # {}
    /\ \A y \in Q : y >= at /\ \E i \in (0..n) \ {g} : y = F + i
    /\ \A i \in (0..n) \ {g} : F + i >= at => F + i \in Q

LEMMA FirstLeft ==
    ASSUME NEW Q, NEW F, NEW n, NEW g, NEW at, Left(Q, F, n, g, at)
    PROVE  Q \subseteq Nat /\ \E x \in Q : \A y \in Q : x <= y
<1> USE DEF Left
<1>1. \A y \in Q : y \in Nat /\ F <= y /\ y <= F + n /\ at <= y
    OBVIOUS
<1>2. \A i \in (0..n) \ {g} : F + i >= at => F + i \in Q
    OBVIOUS
<1>3. at <= F + n
    BY <1>1
<1>4. CASE at <= F
    <2>1. F + 0 \in Q /\ F + 0 = F
        BY <1>2, <1>4
    <2> QED
        BY <1>1, <2>1
<1>5. CASE at > F /\ at # F + g
    <2>1. (at - F) \in (0..n) \ {g} /\ F + (at - F) = at
        BY <1>3, <1>5
    <2>2. at \in Q
        BY <1>2, <2>1
    <2> QED
        BY <1>1, <2>2
<1>6. CASE at = F + g
    <2>1. (g + 1) \in (0..n) \ {g} /\ F + (g + 1) >= at /\ F + (g + 1) = at + 1
        BY <1>6
    <2>2. at + 1 \in Q
        BY <1>2, <2>1
    <2>3. at \notin Q
        BY <1>6
    <2>4. \A y \in Q : y \in Nat /\ at <= y /\ y # at
        BY <1>1, <2>3
    <2>5. \A y \in Q : at + 1 <= y
        BY <2>4
    <2> QED
        BY <1>1, <2>2, <2>5
<1> QED
    BY <1>1, <1>4, <1>5, <1>6

LEMMA FirstFrom ==
    ASSUME NEW s \in ReplayDays \cup {None}, ReplayDay!TimeStart(s) # None, NEW at \in Nat,
           ReplayDay!PacketsFrom(s, at) # {}
    PROVE  LET m == ReplayDay!Min(ReplayDay!PacketsFrom(s, at))
           IN  /\ m \in ReplayDay!PacketsFrom(s, at)
               /\ \A y \in ReplayDay!PacketsFrom(s, at) : m <= y
<1> DEFINE Q == ReplayDay!PacketsFrom(s, at)
           P == ReplayDay!Packets(s)
           F == ReplayDay!First(s)
<1>0. /\ F \in Nat /\ DaySpan \in Nat /\ PacketGap \in 1..(DaySpan - 1)
      /\ P = {F + i : i \in (0..DaySpan) \ {PacketGap}}
      /\ Q = {p \in P : p >= at} /\ Q # {}
    BY DayPackets, ReviewBounds DEF ReplayDay!SpanAssumption, ReplayDay!PacketsFrom
<1> HIDE DEF Q, P, F
<1>1. Left(Q, F, DaySpan, PacketGap, at)
    BY <1>0 DEF Left
<1>2. \E x \in Q : \A y \in Q : x <= y
    BY <1>1, FirstLeft
<1> QED
    BY <1>2 DEF ReplayDay!Min, Q

LEMMA FirstLossy ==
    ASSUME NEW s \in ReplayDays, NEW at \in Nat, ReplayLossy!PacketsFrom(s, at) # {}
    PROVE  LET m == ReplayLossy!Min(ReplayLossy!PacketsFrom(s, at))
           IN  m \in Nat /\ m >= at
<1> DEFINE Q == ReplayLossy!PacketsFrom(s, at)
           P == ReplayLossy!Packets(s)
           F == ReplayLossy!First(s)
<1>0. /\ F \in Nat /\ LossySpan \in Nat /\ PacketGap \in 1..(LossySpan - 1)
      /\ P = {F + i : i \in (0..LossySpan) \ {PacketGap}}
      /\ Q = {p \in P : p >= at} /\ Q # {}
    <2>1. s \in Nat /\ LossySpan \in Nat /\ PacketGap \in 1..(LossySpan - 1)
        BY ReviewBounds DEF ReplayLossy!DaysAssumption, ReplayLossy!SpanAssumption
    <2>2. ReplayLossy!First(s) = s * (LossySpan + 3) /\ s * (LossySpan + 3) \in Nat
        BY <2>1 DEF ReplayLossy!First
    <2> QED
        BY <2>1, <2>2 DEF ReplayLossy!Packets, ReplayLossy!PacketsFrom
<1> HIDE DEF Q, P, F
<1>1. Left(Q, F, LossySpan, PacketGap, at)
    BY <1>0 DEF Left
<1>2. Q \subseteq Nat /\ \E x \in Q : \A y \in Q : x <= y
    BY <1>1, FirstLeft
<1>3. ReplayLossy!Min(Q) \in Q
    BY <1>2 DEF ReplayLossy!Min
<1> QED
    BY <1>0, <1>2, <1>3 DEF Q

\* The effect of a stream that may be lost: what is open stays, is closed, or is opened
\* at the anchor.
LEMMA LossyStream ==
    ASSUME StreamInv, ReplayLossy!StreamEffect, anchor' \in Nat \cup {None}
    PROVE  StreamInv'
<1>1. CASE UNCHANGED ReplayLossy!Deps
    BY <1>1 DEF ReplayLossy!StreamEffect, ReplayLossy!Deps, StreamInv
<1>2. CASE ~UNCHANGED ReplayLossy!Deps /\ (selected' = None \/ anchor' = None \/ isEnd')
    <2>1. conn' = None
        BY <1>2 DEF ReplayLossy!StreamEffect
    <2> QED
        BY <2>1 DEF StreamInv
<1>3. CASE ~UNCHANGED ReplayLossy!Deps /\ selected' # None /\ anchor' # None /\ ~isEnd'
    <2>1. conn' = [event |-> selected', from |-> anchor', playing |-> replayPlaying',
                   elapsed |-> 0, sends |-> {anchor'}]
        BY <1>3 DEF ReplayLossy!StreamEffect, ReplayLossy!Open
    <2>2. {anchor'} \subseteq {at \in Nat : at >= anchor'}
        BY <1>3
    <2> QED
        BY <1>3, <2>1, <2>2 DEF StreamInv
<1> QED
    BY <1>1, <1>2, <1>3

\* What the stream's own steps leave open, and where.
LEMMA LossyConn ==
    ASSUME HeldInv, StreamInv, conn # None,
           UNCHANGED <<selected, anchor, replayPlaying>>, ~isEnd',
           \/ conn' = None
           \/ conn' = ReplayLossy!Open(conn.event, conn.from, TRUE) /\ conn.playing
           \/ \E q : q \subseteq conn.sends /\ conn' = [conn EXCEPT !.sends = q]
           \/ conn' = [conn EXCEPT !.elapsed = @ + 1,
                                   !.sends = @ \cup {conn.from + conn.elapsed + 1}]
    PROVE  StreamInv'
<1>1. selected # None /\ anchor # None /\ anchor \in Nat
    BY DEF HeldInv, StreamInv
<1>2. PICK n \in Nat : \E q :
        /\ conn = [event |-> selected, from |-> anchor, playing |-> replayPlaying,
                   elapsed |-> n, sends |-> q]
        /\ q \subseteq {at \in Nat : at >= anchor}
    BY DEF StreamInv
<1>3. PICK q :
        /\ conn = [event |-> selected, from |-> anchor, playing |-> replayPlaying,
                   elapsed |-> n, sends |-> q]
        /\ q \subseteq {at \in Nat : at >= anchor}
    BY <1>2
<1>4. CASE conn' = None
    BY <1>4 DEF StreamInv
<1>5. CASE conn' = ReplayLossy!Open(conn.event, conn.from, TRUE) /\ conn.playing
    <2>1. conn' = [event |-> selected, from |-> anchor, playing |-> TRUE, elapsed |-> 0,
                   sends |-> {anchor}]
        BY <1>3, <1>5 DEF ReplayLossy!Open
    <2>2. conn.playing = replayPlaying
        BY <1>3
    <2>3. {anchor} \subseteq {at \in Nat : at >= anchor}
        BY <1>1
    <2>4. replayPlaying = TRUE
        <3>1. replayPlaying \in BOOLEAN
            BY DEF HeldInv
        <3> QED
            BY <1>5, <2>2, <3>1
    <2>5. conn' = [event |-> selected', from |-> anchor', playing |-> replayPlaying',
                   elapsed |-> 0, sends |-> {anchor'}]
        BY <2>1, <2>4, Zenon
    <2>6. {anchor'} \subseteq {at \in Nat : at >= anchor'} /\ selected' # None /\ anchor' # None
        BY <1>1, <2>3
    <2> QED
        BY <2>5, <2>6 DEF StreamInv
<1>6. ASSUME NEW r, r \subseteq conn.sends, conn' = [conn EXCEPT !.sends = r]
      PROVE  StreamInv'
    <2>1. conn' = [event |-> selected, from |-> anchor, playing |-> replayPlaying,
                   elapsed |-> n, sends |-> r]
        BY <1>3, <1>6
    <2>2. r \subseteq {at \in Nat : at >= anchor}
        BY <1>3, <1>6
    <2> QED
        BY <1>1, <2>1, <2>2 DEF StreamInv
<1>7. CASE conn' = [conn EXCEPT !.elapsed = @ + 1,
                                !.sends = @ \cup {conn.from + conn.elapsed + 1}]
    <2>1. conn' = [event |-> selected, from |-> anchor, playing |-> replayPlaying,
                   elapsed |-> n + 1, sends |-> q \cup {anchor + n + 1}]
        BY <1>3, <1>7
    <2>2. /\ q \cup {anchor + n + 1} \subseteq {at \in Nat : at >= anchor}
          /\ n + 1 \in Nat
        BY <1>1, <1>3
    <2> QED
        BY <1>1, <2>1, <2>2 DEF StreamInv
<1> QED
    BY <1>4, <1>5, <1>6, <1>7

\* The user's choices, and the answers to them.
LEMMA LossyChosen ==
    ASSUME LossyInv, ReplayLossy!StreamEffect,
           \/ ReplayLossy!ListDays
           \/ \E d \in ReplayDays : ReplayLossy!SelectDay(d)
           \/ \E e \in replayEvents : ReplayLossy!SelectEvent(e)
           \/ \E e \in summaryReqs : ReplayLossy!SummaryArrives(e)
    PROVE  (HeldInv /\ StreamInv)'
<1>1. /\ HeldInv /\ StreamInv /\ replayEvents \subseteq ReplayDays
      /\ None \notin ReplayDays /\ None \notin Nat
    BY ReviewBounds DEF LossyInv, AskedInv, ReplayLossy!DaysAssumption
<1> SUFFICES HeldInv'
    <2>1. HeldInv' => anchor' \in Nat \cup {None}
        BY DEF HeldInv
    <2> QED
        BY <1>1, <2>1, LossyStream
<1>2. CASE ReplayLossy!ListDays \/ \E d \in ReplayDays : ReplayLossy!SelectDay(d)
    <2>1. ReplayLossy!DayEffect /\ UNCHANGED summaryReqs
        BY <1>2 DEF ReplayLossy!ListDays, ReplayLossy!SelectDay
    <2> QED
        BY <1>1, <2>1 DEF ReplayLossy!DayEffect, HeldInv, ReplayLossy!NotBeforeStart
<1>3. ASSUME NEW e \in replayEvents, ReplayLossy!SelectEvent(e)
      PROVE  HeldInv'
    <2>1. CASE e = selected
        BY <1>1, <1>3, <2>1 DEF ReplayLossy!SelectEvent, HeldInv, ReplayLossy!NotBeforeStart
    <2>2. CASE e # selected
        <3>1. /\ selected' = e /\ summaryReqs' = summaryReqs \cup {e} /\ e \in ReplayDays
              /\ UNCHANGED <<summary, replayPlaying, isEnd, cursor, cursorRef, anchor>>
            BY <1>1, <1>3, <2>2 DEF ReplayLossy!SelectEvent, ReplayLossy!play
        <3> QED
            BY <1>1, <3>1 DEF HeldInv, ReplayLossy!NotBeforeStart
    <2> QED
        BY <2>1, <2>2
<1>4. ASSUME NEW e \in summaryReqs, ReplayLossy!SummaryArrives(e)
      PROVE  HeldInv'
    <2>1. e \in ReplayDays
        BY <1>1 DEF HeldInv
    <2>2. ReplayLossy!TimeStart(e) \in Nat
        BY <2>1, Times
    <2>3. /\ summaryReqs' = summaryReqs \ {e} /\ summary' = e /\ UNCHANGED selected
          /\ isEnd' = FALSE /\ replayPlaying' = FALSE
          /\ cursor' = ReplayLossy!TimeStart(e) /\ cursorRef' = cursor' /\ anchor' = cursor'
        BY <1>4 DEF ReplayLossy!SummaryArrives
    <2>4. cursor' \in Nat /\ cursor' >= anchor' /\ anchor' # None /\ summary' # None
        BY <1>1, <2>1, <2>2, <2>3
    <2> QED
        BY <1>1, <2>1, <2>3, <2>4 DEF HeldInv, ReplayLossy!NotBeforeStart
<1> QED
    BY <1>2, <1>3, <1>4

\* The controls take the cursor and the anchor to one place.
LEMMA LossyControlled ==
    ASSUME LossyInv,
           ReplayLossy!handleTogglePlay \/ ReplayLossy!handleRestart \/ ReplayLossy!Seek
    PROVE  (HeldInv /\ StreamInv)'
<1>1. /\ HeldInv /\ StreamInv /\ None \notin ReplayDays /\ None \notin Nat
    BY ReviewBounds DEF LossyInv, ReplayLossy!DaysAssumption
<1>2. /\ ReplayLossy!StreamEffect /\ UNCHANGED <<selected, summary, summaryReqs>>
      /\ ReplayLossy!TimeStart(summary) # None
    BY DEF ReplayLossy!handleTogglePlay, ReplayLossy!handleRestart, ReplayLossy!Seek,
        ReplayLossy!choice
<1>3. /\ summary \in ReplayDays /\ ReplayLossy!TimeStart(summary) \in Nat
      /\ ReplayLossy!TimeEnd(summary) \in Nat
    <2>1. summary # None
        BY <1>2 DEF ReplayLossy!TimeStart
    <2> QED
        BY <1>1, <2>1, Times DEF HeldInv
<1>4. HeldInv'
    <2>1. replayPlaying' \in BOOLEAN
        BY <1>1 DEF ReplayLossy!handleTogglePlay, ReplayLossy!handleRestart, ReplayLossy!Seek,
            HeldInv
    <2>2. CASE ReplayLossy!handleTogglePlay
        <3>1. /\ ~isEnd /\ cursor = cursorRef /\ UNCHANGED <<isEnd, cursor, cursorRef>>
              /\ anchor' = IF cursorRef # None THEN cursorRef
                           ELSE IF cursor # None THEN cursor ELSE ReplayLossy!TimeStart(summary)
            BY <1>1, <2>2 DEF ReplayLossy!handleTogglePlay, HeldInv
        <3> QED
            BY <1>1, <1>2, <1>3, <2>1, <3>1 DEF HeldInv, ReplayLossy!NotBeforeStart
    <2>3. ASSUME NEW t \in Nat, ReplayLossy!seekTo(t)
          PROVE  HeldInv'
        BY <1>1, <1>2, <1>3, <2>1, <2>3 DEF ReplayLossy!seekTo, HeldInv,
            ReplayLossy!NotBeforeStart
    <2>4. CASE ReplayLossy!handleRestart
        BY <1>3, <2>3, <2>4 DEF ReplayLossy!handleRestart
    <2>5. CASE ReplayLossy!Seek
        <3>1. PICK t \in (ReplayLossy!TimeStart(summary)..ReplayLossy!TimeEnd(summary))
                            \cup ReplayLossy!Markers(summary) : ReplayLossy!seekTo(t)
            BY <2>5 DEF ReplayLossy!Seek
        <3>2. ReplayMarks \subseteq Int
            BY ReviewBounds DEF ReplayLossy!SpanAssumption
        <3>3. ReplayLossy!Markers(summary) =
                {ReplayLossy!TimeStart(summary) + m : m \in {m \in ReplayMarks : m >= 0}}
            BY <1>2 DEF ReplayLossy!Markers
        <3>4. \A m \in ReplayMarks : m >= 0 => ReplayLossy!TimeStart(summary) + m \in Nat
            BY <1>3, <3>2
        <3>5. ReplayLossy!Markers(summary) \subseteq Nat
            BY <3>3, <3>4
        <3>6. t \in Nat
            BY <1>3, <3>1, <3>5
        <3> QED
            BY <2>3, <3>1, <3>6
    <2> QED
        BY <2>2, <2>4, <2>5
<1> QED
    BY <1>1, <1>2, <1>4, LossyStream DEF HeldInv

\* The stream: its clock, its loss and its answers.
LEMMA LossyStreams ==
    ASSUME LossyInv, conn # None,
           \/ ReplayLossy!StreamTick \/ ReplayLossy!SnapshotFails \/ ReplayLossy!Reconnects
           \/ \E at \in conn.sends : ReplayLossy!OnEnd(at) \/ ReplayLossy!OnState(at)
    PROVE  (HeldInv /\ StreamInv)'
<1>1. /\ HeldInv /\ StreamInv /\ None \notin Nat /\ None \notin ReplayDays
      /\ selected \in ReplayDays /\ anchor \in Nat /\ ~isEnd
      /\ summary \in ReplayDays
    BY ReviewBounds DEF LossyInv, HeldInv, StreamInv, ReplayLossy!DaysAssumption
<1>2. CASE \/ ReplayLossy!StreamTick \/ ReplayLossy!SnapshotFails \/ ReplayLossy!Reconnects
    <2>1. UNCHANGED <<selected, summary, summaryReqs, replayPlaying, isEnd, cursor, cursorRef,
                      anchor>>
        BY <1>2 DEF ReplayLossy!StreamTick, ReplayLossy!SnapshotFails,
            ReplayLossy!Reconnects, ReplayLossy!choice, ReplayLossy!play
    <2>2. HeldInv'
        BY <1>1, <2>1 DEF HeldInv, ReplayLossy!NotBeforeStart
    <2>3. StreamInv'
        BY <1>1, <1>2, <2>1, LossyConn DEF ReplayLossy!StreamTick,
            ReplayLossy!SnapshotFails, ReplayLossy!Reconnects
    <2> QED
        BY <2>2, <2>3
<1>3. ASSUME NEW at \in conn.sends, ReplayLossy!OnEnd(at)
      PROVE  (HeldInv /\ StreamInv)'
    <2>1. /\ isEnd' = TRUE /\ replayPlaying' = FALSE
          /\ UNCHANGED <<selected, summary, summaryReqs, cursorRef, anchor>>
          /\ ReplayLossy!StreamEffect
        BY <1>3 DEF ReplayLossy!OnEnd, ReplayLossy!choice
    <2>2. ReplayLossy!TimeEnd(summary) \in Nat
        BY <1>1, Times
    <2>3. cursor' = ReplayLossy!TimeEnd(summary)
        BY <1>1, <1>3, <2>2 DEF ReplayLossy!OnEnd
    <2>4. HeldInv'
        BY <1>1, <2>1, <2>2, <2>3 DEF HeldInv, ReplayLossy!NotBeforeStart
    <2> QED
        BY <1>1, <2>1, <2>4, LossyStream
<1>4. ASSUME NEW at \in conn.sends, ReplayLossy!OnState(at)
      PROVE  (HeldInv /\ StreamInv)'
    <2>1. /\ isEnd' = FALSE /\ cursorRef' = cursor'
          /\ UNCHANGED <<selected, summary, summaryReqs, replayPlaying, anchor>>
          /\ conn' = IF conn.playing THEN [conn EXCEPT !.sends = @ \ {at}] ELSE None
        BY <1>4 DEF ReplayLossy!OnState, ReplayLossy!choice
    <2>2. conn.event = selected /\ at \in Nat /\ at >= anchor
        BY <1>1 DEF StreamInv
    <2>3. /\ ReplayLossy!PacketsFrom(selected, at) # {}
          /\ cursor' = ReplayLossy!Min(ReplayLossy!PacketsFrom(selected, at))
        BY <1>4, <2>2 DEF ReplayLossy!OnState, ReplayLossy!ReplayState
    <2>4. cursor' \in Nat /\ cursor' >= at
        BY <1>1, <2>2, <2>3, FirstLossy
    <2>5. HeldInv'
        BY <1>1, <2>1, <2>2, <2>4 DEF HeldInv, ReplayLossy!NotBeforeStart
    <2>6. StreamInv'
        BY <1>1, <2>1, LossyConn
    <2> QED
        BY <2>5, <2>6
<1> QED
    BY <1>2, <1>3, <1>4

LEMMA LossyStep ==
    ASSUME LossyInv, [ReplayLossy!Next]_replayVars
    PROVE  LossyInv'
<1>1. AskedInv'
    BY LossyAsks DEF LossyInv
<1>2. ASSUME \/ ReplayLossy!ListDays
             \/ \E d \in ReplayDays : ReplayLossy!SelectDay(d)
             \/ \E e \in replayEvents : ReplayLossy!SelectEvent(e)
             \/ \E e \in summaryReqs : ReplayLossy!SummaryArrives(e)
      PROVE  (HeldInv /\ StreamInv)'
    <2>1. ReplayLossy!StreamEffect
        BY <1>2 DEF ReplayLossy!ListDays, ReplayLossy!SelectDay, ReplayLossy!DayEffect,
            ReplayLossy!SelectEvent, ReplayLossy!SummaryArrives
    <2> QED
        BY <1>2, <2>1, LossyChosen
<1>3. ASSUME ReplayLossy!handleTogglePlay \/ ReplayLossy!handleRestart \/ ReplayLossy!Seek
      PROVE  (HeldInv /\ StreamInv)'
    BY <1>3, LossyControlled
<1>4. ASSUME ReplayLossy!Stream \/ ReplayLossy!Reconnects
      PROVE  (HeldInv /\ StreamInv)'
    <2>1. conn # None
        BY <1>4 DEF ReplayLossy!Stream, ReplayLossy!StreamTick, ReplayLossy!SnapshotFails,
            ReplayLossy!Reconnects
    <2> QED
        BY <1>4, <2>1, LossyStreams DEF ReplayLossy!Stream
<1>5. ASSUME \/ \E r \in eventReqs : ReplayLossy!EventsArrive(r)
             \/ UNCHANGED replayVars
      PROVE  (HeldInv /\ StreamInv)'
    <2>1. UNCHANGED <<selected, summary, summaryReqs, replayPlaying, isEnd, cursor, cursorRef,
                      anchor, conn>>
        BY <1>5 DEF ReplayLossy!EventsArrive, ReplayLossy!choice, ReplayLossy!play, replayVars
    <2> QED
        BY <2>1 DEF LossyInv, HeldInv, StreamInv, ReplayLossy!NotBeforeStart
<1>6. (HeldInv /\ StreamInv)'
    BY <1>2, <1>3, <1>4, <1>5 DEF ReplayLossy!Next, ReplayLossy!Answers
<1> QED
    BY <1>1, <1>6 DEF LossyInv

\* The effect of the stream: what is open stays, is closed, or is opened at the anchor.
LEMMA DayStream ==
    ASSUME DayInv, ReplayDay!StreamEffect, CursorInv', selected' \in ReplayDays \cup {None},
           cursor' = None \/ cursor' = anchor' \/ isEnd'
    PROVE  ConnInv'
<1>1. selected \in ReplayDays \cup {None} /\ None \notin Nat
    BY ReviewBounds DEF DayInv, AskedInv, ChosenInv, ReplayDay!DaysAssumption
<1>2. CASE UNCHANGED ReplayDay!Deps
    <2>1. UNCHANGED <<conn, selected, replayPlaying, anchor, isEnd>>
        BY <1>2 DEF ReplayDay!StreamEffect, ReplayDay!Deps
    <2>2. CASE conn = None
        BY <2>1, <2>2 DEF ConnInv
    <2>3. CASE conn # None
        <3>1. /\ selected # None /\ anchor # None /\ ~isEnd /\ anchor \in Nat
              /\ summary = selected /\ ReplayDay!TimeStart(selected) # None
            BY <2>3 DEF DayInv, ConnInv, CursorInv, ChosenInv, ReplayDay!TimeStart
        <3>2. ReplayDay!Packets(selected) \subseteq Nat
            BY <1>1, <3>1, DayPackets
        <3>3. PICK n \in Nat : \E q :
                /\ conn = [event |-> selected, from |-> anchor, playing |-> replayPlaying,
                           elapsed |-> n, sends |-> q]
                /\ q \subseteq {anchor + n}
            BY <2>3 DEF DayInv, ConnInv
        <3>4. cursor' # None =>
                  \A p \in ReplayDay!PacketsFrom(selected, anchor + n) : cursor' <= p
            BY <2>1, <3>1, <3>2 DEF ReplayDay!PacketsFrom
        <3> QED
            BY <2>1, <3>1, <3>3, <3>4 DEF ConnInv
    <2> QED
        BY <2>2, <2>3
<1>3. CASE ~UNCHANGED ReplayDay!Deps /\ (selected' = None \/ anchor' = None \/ isEnd')
    <2>1. conn' = None
        BY <1>3 DEF ReplayDay!StreamEffect
    <2> QED
        BY <2>1 DEF ConnInv
<1>4. CASE ~UNCHANGED ReplayDay!Deps /\ selected' # None /\ anchor' # None /\ ~isEnd'
    <2>1. conn' = [event |-> selected', from |-> anchor', playing |-> replayPlaying',
                   elapsed |-> 0, sends |-> {anchor'}]
        BY <1>4 DEF ReplayDay!StreamEffect, ReplayDay!Open
    <2>2. anchor' \in Nat /\ anchor' + 0 = anchor'
        BY <1>4 DEF CursorInv
    <2>3. cursor' # None =>
            \A p \in ReplayDay!PacketsFrom(selected', anchor' + 0) : cursor' <= p
        BY <1>4, <2>2 DEF ReplayDay!PacketsFrom
    <2> QED
        BY <1>4, <2>1, <2>2, <2>3 DEF ConnInv
<1> QED
    BY <1>2, <1>3, <1>4

\* A day is picked: nothing is left of the event of the day before.
LEMMA DayPicked ==
    ASSUME DayInv, AskedInv',
           ReplayDay!ListDays \/ \E d \in ReplayDays : ReplayDay!SelectDay(d)
    PROVE  (ChosenInv /\ CursorInv /\ ConnInv)' /\ cursor' = None
<1>1. /\ ReplayDay!DayEffect /\ UNCHANGED <<summaryReqs, drops>>
      /\ replayListed' /\ moves' \in {moves, moves + 1}
    BY DEF ReplayDay!ListDays, ReplayDay!SelectDay, ReplayDay!User
<1>2. summaryReqs = {}
    BY DEF ReplayDay!ListDays, ReplayDay!SelectDay, DayInv, ChosenInv
<1>3. ChosenInv'
    BY <1>1, <1>2 DEF ChosenInv, ReplayDay!DayEffect
<1>4. CursorInv'
    BY <1>1 DEF DayInv, CursorInv, ReplayDay!DayEffect
<1>5. ConnInv'
    BY <1>1, <1>4, DayStream DEF ReplayDay!DayEffect
<1> QED
    BY <1>1, <1>3, <1>4, <1>5 DEF ReplayDay!DayEffect

LEMMA EventPicked ==
    ASSUME DayInv, AskedInv', NEW e \in replayEvents, ReplayDay!SelectEvent(e)
    PROVE  (ChosenInv /\ CursorInv /\ ConnInv)' /\ moves' # moves
<1>1. /\ e = day /\ e \in ReplayDays /\ e # None /\ summaryReqs = {}
      /\ replayListed /\ UNCHANGED <<replayListed, day, drops>> /\ ReplayDay!StreamEffect
      /\ moves \in Nat /\ moves' = moves + 1
    BY ReviewBounds DEF DayInv, AskedInv, CursorInv, ReplayDay!SelectEvent, ReplayDay!User,
        ReplayDay!picks, ReplayDay!DaysAssumption
<1>2. CASE e = selected
    <2>1. /\ selected' = None /\ summary' = None /\ ~isEnd' /\ cursor' = None
          /\ cursorRef' = None /\ anchor' = None /\ UNCHANGED summaryReqs
        BY <1>2 DEF ReplayDay!SelectEvent
    <2>2. ChosenInv'
        BY <1>1, <2>1 DEF ChosenInv
    <2>3. CursorInv'
        BY <1>1, <2>1 DEF DayInv, CursorInv
    <2>4. ConnInv'
        BY <1>1, <2>1, <2>3, DayStream
    <2> QED
        BY <1>1, <2>2, <2>3, <2>4
<1>3. CASE e # selected
    <2>1. /\ selected' = e /\ summaryReqs' = {e}
          /\ UNCHANGED <<summary, isEnd, cursor, cursorRef, anchor>>
        BY <1>1, <1>3 DEF ReplayDay!SelectEvent, ReplayDay!play
    <2>2. selected = None /\ summary = None
        BY <1>1, <1>3 DEF DayInv, ChosenInv
    <2>3. cursor = None
        BY <2>2 DEF DayInv, CursorInv, ReplayDay!TimeStart
    <2>4. ChosenInv'
        BY <1>1, <2>1, <2>2 DEF ChosenInv
    <2>5. CursorInv'
        BY <1>1, <2>1 DEF DayInv, CursorInv
    <2>6. ConnInv'
        BY <1>1, <2>1, <2>3, <2>5, DayStream
    <2> QED
        BY <1>1, <2>4, <2>5, <2>6
<1> QED
    BY <1>2, <1>3

LEMMA SummaryShown ==
    ASSUME DayInv, AskedInv', NEW e \in summaryReqs, ReplayDay!SummaryArrives(e)
    PROVE  (ChosenInv /\ CursorInv /\ ConnInv)' /\ summary' # summary
<1>1. /\ e = selected /\ e # None /\ summary = None /\ e \in ReplayDays
      /\ \A f \in summaryReqs : f = e
    BY DEF DayInv, ChosenInv, AskedInv
<1>2. /\ summaryReqs' = summaryReqs \ {e} /\ summary' = e /\ ~isEnd'
      /\ cursor' = ReplayDay!TimeStart(e) /\ cursorRef' = cursor' /\ anchor' = cursor'
      /\ UNCHANGED <<replayListed, day, selected, moves, drops>> /\ ReplayDay!StreamEffect
    BY DEF ReplayDay!SummaryArrives, ReplayDay!picks
<1>3. ChosenInv'
    BY <1>1, <1>2 DEF DayInv, ChosenInv
<1>4. ReplayDay!TimeStart(e) \in Nat \cup {None}
    BY <1>1, DayPackets
<1>5. CursorInv'
    BY <1>2, <1>4 DEF DayInv, CursorInv
<1>6. ConnInv'
    BY <1>1, <1>2, <1>5, DayStream
<1> QED
    BY <1>1, <1>2, <1>3, <1>5, <1>6

\* The controls take the cursor and the anchor to one place.
LEMMA Controlled ==
    ASSUME DayInv, AskedInv',
           ReplayDay!handleTogglePlay \/ ReplayDay!handleRestart \/ ReplayDay!Seek
    PROVE  (ChosenInv /\ CursorInv /\ ConnInv)' /\ moves' # moves
<1>1. /\ ReplayDay!StreamEffect /\ ReplayDay!TimeStart(summary) # None
      /\ UNCHANGED <<replayListed, day, selected, summary, summaryReqs, drops>>
      /\ moves \in Nat /\ moves' = moves + 1
    BY DEF ReplayDay!handleTogglePlay, ReplayDay!handleRestart, ReplayDay!Seek,
        ReplayDay!User, ReplayDay!picks, ReplayDay!choice, DayInv, CursorInv
<1>2. ChosenInv'
    BY <1>1 DEF DayInv, ChosenInv
<1>3. /\ summary \in ReplayDays /\ selected \in ReplayDays
      /\ ReplayDay!TimeStart(summary) \in Nat /\ ReplayDay!TimeEnd(summary) \in Nat
    <2>1. summary # None /\ summary \in ReplayDays \cup {None}
        BY <1>1 DEF DayInv, ChosenInv, AskedInv, ReplayDay!TimeStart
    <2> QED
        BY <1>1, <2>1, DayPackets DEF DayInv, ChosenInv
<1>4. CASE ReplayDay!handleTogglePlay
    <2>1. /\ ~isEnd /\ cursor = cursorRef /\ UNCHANGED <<isEnd, cursor, cursorRef>>
          /\ anchor' = IF cursorRef # None THEN cursorRef
                       ELSE IF cursor # None THEN cursor ELSE ReplayDay!TimeStart(summary)
        BY <1>4 DEF ReplayDay!handleTogglePlay, DayInv, CursorInv
    <2>2. CursorInv'
        BY <1>1, <1>3, <2>1 DEF DayInv, CursorInv
    <2>3. ConnInv'
        BY <1>1, <1>3, <2>1, <2>2, DayStream
    <2> QED
        BY <1>1, <1>2, <2>2, <2>3
<1>5. ASSUME NEW t \in Nat, ReplayDay!seekTo(t)
      PROVE  (CursorInv /\ ConnInv)'
    <2>1. CursorInv'
        BY <1>1, <1>5 DEF DayInv, CursorInv, ReplayDay!seekTo
    <2> QED
        BY <1>1, <1>3, <1>5, <2>1, DayStream DEF ReplayDay!seekTo
<1>6. CASE ReplayDay!handleRestart
    BY <1>1, <1>2, <1>3, <1>5, <1>6 DEF ReplayDay!handleRestart
<1>7. CASE ReplayDay!Seek
    <2>1. PICK t \in (ReplayDay!TimeStart(summary)..ReplayDay!TimeEnd(summary))
                        \cup ReplayDay!Markers(summary) : ReplayDay!seekTo(t)
        BY <1>7 DEF ReplayDay!Seek
    <2>2. ReplayDay!Markers(summary) \subseteq Nat
        <3>1. ReplayMarks \subseteq Int
            BY ReviewBounds DEF ReplayDay!SpanAssumption
        <3>2. ReplayDay!Markers(summary) =
                {ReplayDay!TimeStart(summary) + m : m \in {m \in ReplayMarks : m >= 0}}
            BY <1>1 DEF ReplayDay!Markers
        <3>3. \A m \in ReplayMarks : m >= 0 => ReplayDay!TimeStart(summary) + m \in Nat
            BY <1>3, <3>1
        <3> QED
            BY <3>2, <3>3
    <2>3. t \in Nat
        BY <1>3, <2>1, <2>2
    <2> QED
        BY <1>1, <1>2, <1>5, <2>1, <2>3
<1> QED
    BY <1>4, <1>6, <1>7

\* One query at a time, at the place the clock of the stream has come to.
LEMMA StreamMoves ==
    ASSUME DayInv, ReplayDay!StreamTick \/ ReplayDay!SnapshotFails \/ ReplayDay!Reconnects
    PROVE  (ChosenInv /\ CursorInv /\ ConnInv)' /\ cursor' = cursor
<1>1. /\ UNCHANGED <<replayListed, day, selected, summary, summaryReqs, replayPlaying, isEnd,
                     cursor, cursorRef, anchor, moves>>
      /\ conn # None
    BY DEF ReplayDay!StreamTick, ReplayDay!SnapshotFails, ReplayDay!Reconnects,
        ReplayDay!picks, ReplayDay!choice, ReplayDay!play
<1>2. ChosenInv'
    BY <1>1 DEF DayInv, ChosenInv
<1>3. ~ReplayDay!Reconnects
    <2>1. ReplayDay!Reconnects => drops < 0
        BY Zenon DEF ReplayDay!Reconnects
    <2> QED
        BY <2>1 DEF DayInv, CursorInv
<1>4. drops' \in Nat
    <2>1. CASE ReplayDay!StreamTick
        BY <2>1 DEF ReplayDay!StreamTick, DayInv, CursorInv
    <2>2. CASE ReplayDay!SnapshotFails
        <3> DEFINE S == {0, drops + 1}
        <3>1. drops' = CHOOSE x \in S : \A y \in S : x <= y
            BY <2>2 DEF ReplayDay!SnapshotFails, ReplayDay!Min
        <3>2. 0 \in S /\ \A y \in S : y \in Nat /\ 0 <= y
            BY DEF DayInv, CursorInv
        <3> HIDE DEF S
        <3> QED
            BY <3>1, <3>2
    <2> QED
        BY <1>3, <2>1, <2>2
<1>5. CursorInv'
    BY <1>1, <1>4 DEF DayInv, CursorInv
<1>6. CASE ReplayDay!SnapshotFails
    <2>1. conn' = None
        BY <1>6 DEF ReplayDay!SnapshotFails
    <2> QED
        BY <1>1, <1>2, <1>5, <2>1 DEF ConnInv
<1>7. CASE ReplayDay!StreamTick
    <2>1. /\ selected # None /\ anchor # None /\ ~isEnd /\ anchor \in Nat
          /\ summary = selected /\ ReplayDay!TimeStart(selected) # None
          /\ selected \in ReplayDays \cup {None}
        BY <1>1 DEF DayInv, ConnInv, CursorInv, ChosenInv, AskedInv, ReplayDay!TimeStart
    <2>2. PICK n \in Nat : \E q :
            /\ conn = [event |-> selected, from |-> anchor, playing |-> replayPlaying,
                       elapsed |-> n, sends |-> q]
            /\ q \subseteq {anchor + n}
            /\ cursor # None =>
                  \A p \in ReplayDay!PacketsFrom(selected, anchor + n) : cursor <= p
        BY <1>1 DEF DayInv, ConnInv
    <2>3. PICK q :
            /\ conn = [event |-> selected, from |-> anchor, playing |-> replayPlaying,
                       elapsed |-> n, sends |-> q]
            /\ q \subseteq {anchor + n}
        BY <2>2
    <2>4. q = {}
        <3> DEFINE S == conn.sends
        <3>1. ReplayDay!Cardinality(S) < 1
            BY <1>7, Zenon DEF ReplayDay!StreamTick
        <3>5. ReplayDay!Cardinality(S) = Cardinality(S)
            BY DEF ReplayDay!Cardinality, Cardinality
        <3>2. Cardinality({anchor + n}) = 1
            BY FS_Singleton
        <3>3. conn.sends = q
            BY <2>3
        <3>4. q # {anchor + n}
            BY <3>1, <3>2, <3>3, <3>5
        <3> QED
            BY <2>3, <3>4
    <2>5. conn' = [event |-> selected, from |-> anchor, playing |-> replayPlaying,
                   elapsed |-> n + 1, sends |-> {anchor + n + 1}]
        BY <1>7, <2>3, <2>4 DEF ReplayDay!StreamTick
    <2>6. n + 1 \in Nat /\ anchor + n + 1 = anchor + (n + 1)
        BY <2>1
    <2>7. ReplayDay!Packets(selected) \subseteq Nat
        BY <2>1, DayPackets
    <2>8. \A p \in ReplayDay!PacketsFrom(selected, anchor + (n + 1)) :
             p \in ReplayDay!PacketsFrom(selected, anchor + n)
        BY <2>1, <2>6, <2>7 DEF ReplayDay!PacketsFrom
    <2>9. cursor # None =>
            \A p \in ReplayDay!PacketsFrom(selected, anchor + (n + 1)) : cursor <= p
        BY <2>2, <2>8
    <2>10. ConnInv'
        BY <1>1, <2>1, <2>5, <2>6, <2>9 DEF ConnInv
    <2> QED
        BY <1>1, <1>2, <1>5, <2>10
<1> QED
    BY <1>3, <1>6, <1>7

LEMMA StreamEnds ==
    ASSUME DayInv, NEW at, ReplayDay!OnEnd(at)
    PROVE  (ChosenInv /\ CursorInv /\ ConnInv)' /\ cursor' = ReplayDay!TimeEnd(summary)
<1>1. /\ UNCHANGED <<replayListed, day, selected, summary, summaryReqs, cursorRef, anchor,
                     moves, drops>>
      /\ conn # None /\ isEnd' /\ ReplayDay!StreamEffect
    BY DEF ReplayDay!OnEnd, ReplayDay!picks, ReplayDay!choice
<1>2. ChosenInv'
    BY <1>1 DEF DayInv, ChosenInv
<1>3. /\ anchor # None /\ summary = selected /\ ReplayDay!TimeStart(summary) # None
      /\ selected \in ReplayDays \cup {None} /\ None \notin Nat
    BY <1>1, ReviewBounds DEF DayInv, ConnInv, CursorInv, ChosenInv, AskedInv,
        ReplayDay!TimeStart, ReplayDay!DaysAssumption
<1>4. ReplayDay!TimeEnd(summary) \in Nat
    BY <1>3, DayPackets
<1>5. cursor' = ReplayDay!TimeEnd(summary)
    BY <1>3, <1>4 DEF ReplayDay!OnEnd
<1>6. CursorInv'
    BY <1>1, <1>3, <1>4, <1>5 DEF DayInv, CursorInv
<1>7. ConnInv'
    BY <1>1, <1>3, <1>6, DayStream
<1> QED
    BY <1>2, <1>5, <1>6, <1>7

LEMMA StreamShows ==
    ASSUME DayInv, conn # None, NEW at \in conn.sends, ReplayDay!OnState(at)
    PROVE  /\ (ChosenInv /\ CursorInv /\ ConnInv)'
           /\ cursor # None => cursor' >= cursor
<1>1. /\ UNCHANGED <<replayListed, day, selected, summary, summaryReqs, replayPlaying, anchor,
                     moves, drops>>
      /\ ~isEnd' /\ cursorRef' = cursor'
    BY DEF ReplayDay!OnState, ReplayDay!picks, ReplayDay!choice
<1>2. ChosenInv'
    BY <1>1 DEF DayInv, ChosenInv
<1>3. /\ selected # None /\ anchor # None /\ ~isEnd /\ anchor \in Nat
      /\ summary = selected /\ ReplayDay!TimeStart(selected) # None
      /\ selected \in ReplayDays \cup {None} /\ None \notin Nat
      /\ cursor \in Nat \cup {None}
    BY ReviewBounds DEF DayInv, ConnInv, CursorInv, ChosenInv, AskedInv,
        ReplayDay!TimeStart, ReplayDay!DaysAssumption
<1>4. PICK n \in Nat : \E q :
        /\ conn = [event |-> selected, from |-> anchor, playing |-> replayPlaying,
                   elapsed |-> n, sends |-> q]
        /\ q \subseteq {anchor + n}
        /\ cursor # None =>
              \A p \in ReplayDay!PacketsFrom(selected, anchor + n) : cursor <= p
    BY DEF DayInv, ConnInv
<1>5. PICK q :
        /\ conn = [event |-> selected, from |-> anchor, playing |-> replayPlaying,
                   elapsed |-> n, sends |-> q]
        /\ q \subseteq {anchor + n}
    BY <1>4
<1>6. at = anchor + n /\ conn.event = selected /\ at \in Nat
    BY <1>3, <1>5
<1> DEFINE Q == ReplayDay!PacketsFrom(selected, at)
<1>7. Q # {} /\ cursor' = ReplayDay!Min(Q)
    BY <1>6 DEF ReplayDay!OnState, ReplayDay!ReplayState
<1>8. cursor' \in Q /\ \A y \in Q : cursor' <= y
    BY <1>3, <1>6, <1>7, FirstFrom
<1>9. Q \subseteq Nat
    BY <1>3, DayPackets DEF ReplayDay!PacketsFrom
<1> HIDE DEF Q
<1>10. CursorInv'
    BY <1>1, <1>3, <1>8, <1>9 DEF DayInv, CursorInv
<1>11. cursor # None => cursor' >= cursor
    <2>1. cursor # None => \A p \in Q : cursor <= p
        BY <1>4, <1>6 DEF Q
    <2> QED
        BY <1>3, <1>8, <1>9, <2>1
<1>12. ConnInv'
    <2>1. CASE conn' = None
        BY <2>1 DEF ConnInv
    <2>2. CASE conn' # None
        <3>1. conn' = [conn EXCEPT !.sends = @ \ {at}]
            BY <2>2 DEF ReplayDay!OnState
        <3>2. conn' = [event |-> selected, from |-> anchor, playing |-> replayPlaying,
                       elapsed |-> n, sends |-> q \ {at}]
            BY <1>5, <3>1
        <3>3. \A p \in ReplayDay!PacketsFrom(selected, anchor + n) : cursor' <= p
            BY <1>6, <1>8 DEF Q
        <3> QED
            BY <1>1, <1>3, <1>5, <3>2, <3>3 DEF ConnInv
    <2> QED
        BY <2>1, <2>2
<1> QED
    BY <1>2, <1>10, <1>11, <1>12

LEMMA DayStep ==
    ASSUME DayInv, [ReplayDay!Next]_replayVars
    PROVE  DayInv' /\ [ReplayDay!NeverBack]_replayVars
<1>1. AskedInv'
    BY DayAsks DEF DayInv
<1>2. cursor \in Nat \cup {None}
    BY DEF DayInv, CursorInv
<1> DEFINE Kept == (ChosenInv /\ CursorInv /\ ConnInv)'
           Back == ReplayDay!NeverBack
<1>3. ASSUME ReplayDay!ListDays \/ \E d \in ReplayDays : ReplayDay!SelectDay(d)
      PROVE  Kept /\ Back
    BY <1>1, <1>3, DayPicked DEF ReplayDay!NeverBack
<1>4. ASSUME NEW e \in replayEvents, ReplayDay!SelectEvent(e)
      PROVE  Kept /\ Back
    BY <1>1, <1>4, EventPicked DEF ReplayDay!NeverBack
<1>5. ASSUME NEW e \in summaryReqs, ReplayDay!SummaryArrives(e)
      PROVE  Kept /\ Back
    BY <1>1, <1>5, SummaryShown DEF ReplayDay!NeverBack
<1>6. ASSUME ReplayDay!handleTogglePlay \/ ReplayDay!handleRestart \/ ReplayDay!Seek
      PROVE  Kept /\ Back
    BY <1>1, <1>6, Controlled DEF ReplayDay!NeverBack
<1>7. ASSUME ReplayDay!StreamTick \/ ReplayDay!SnapshotFails \/ ReplayDay!Reconnects
      PROVE  Kept /\ Back
    BY <1>2, <1>7, StreamMoves DEF ReplayDay!NeverBack
<1>8. ASSUME conn # None, NEW at \in conn.sends, ReplayDay!OnEnd(at)
      PROVE  Kept /\ Back
    BY <1>8, StreamEnds DEF ReplayDay!NeverBack
<1>9. ASSUME conn # None, NEW at \in conn.sends, ReplayDay!OnState(at)
      PROVE  Kept /\ Back
    BY <1>9, StreamShows DEF ReplayDay!NeverBack
<1>10. ASSUME NEW r \in eventReqs, ReplayDay!EventsArrive(r)
       PROVE  Kept /\ Back
    <2>1. UNCHANGED <<replayListed, day, selected, summary, summaryReqs, replayPlaying, isEnd,
                      cursor, cursorRef, anchor, conn, moves, drops>>
        BY <1>10 DEF ReplayDay!EventsArrive, ReplayDay!choice, ReplayDay!play
    <2>2. Kept
        BY <2>1 DEF DayInv, ChosenInv, CursorInv, ConnInv
    <2> QED
        BY <1>2, <2>1, <2>2 DEF ReplayDay!NeverBack
<1>11. CASE UNCHANGED replayVars
    BY <1>11 DEF replayVars, DayInv, AskedInv, ChosenInv, CursorInv, ConnInv
<1>12. CASE ReplayDay!Next
    <2>1. Kept /\ Back
        BY <1>3, <1>4, <1>5, <1>6, <1>7, <1>8, <1>9, <1>10, <1>12 DEF ReplayDay!Next,
            ReplayDay!Answers, ReplayDay!Stream
    <2> QED
        BY <1>1, <2>1 DEF DayInv
<1> QED
    BY <1>11, <1>12

\* The replay, whatever the days, their packets and marks, the user's moves and the
\* connections lost: events and stream are those of the user's last choice, no stream
\* takes the cursor back before where it was set off, and the end shown is the end; with
\* prompt summaries on one stream that is not lost, the timeline is that of the event too
\* and only the user takes the cursor back.
THEOREM ReplayIsSound == Spec => ReplaySound
<1> DEFINE Inv == /\ scene = "replay" => DayInv
                  /\ scene = "lossy" => LossyInv
<1>1. Init => Inv
    <2> SUFFICES ASSUME ReplayDay!Init
                 PROVE  DayInv /\ LossyInv
        BY DEF Init
    <2> USE DEF ReplayDay!Init
    <2>1. AskedInv
        BY DEF AskedInv
    <2>2. ChosenInv /\ CursorInv /\ ConnInv
        BY DEF ChosenInv, CursorInv, ConnInv
    <2>3. HeldInv /\ StreamInv
        BY DEF HeldInv, StreamInv, ReplayLossy!NotBeforeStart
    <2> QED
        BY <2>1, <2>2, <2>3 DEF DayInv, LossyInv
<1>2. ASSUME Inv, [Next]_vars
      PROVE  Inv' /\ [scene = "replay" => ReplayDay!NeverBack]_replayVars
    <2>1. scene' = scene
        BY <1>2 DEF Next, vars, InReviewPlayer, InReviewNotes, InReviewRuns, InTrackMapper,
            InReplay
    <2>2. /\ scene = "replay" => [ReplayDay!Next]_replayVars
          /\ scene = "lossy" => [ReplayLossy!Next]_replayVars
        BY <1>2 DEF Next, vars, InReviewPlayer, InReviewNotes, InReviewRuns, InTrackMapper,
            InReplay
    <2> QED
        BY <1>2, <2>1, <2>2, DayStep, LossyStep
<1>3. Inv => EventsOfDay /\ ShownIsSelected /\ StreamIsWanted /\ NotBeforeStart /\ EndIsEnd
    <2>1. AskedInv => ReplayDay!EventsOfDay /\ ReplayLossy!EventsOfDay
        BY DEF AskedInv, ReplayDay!EventsOfDay, ReplayLossy!EventsOfDay
    <2>2. ChosenInv => ReplayDay!ShownIsSelected
        BY DEF ChosenInv, ReplayDay!ShownIsSelected
    <2>3. ConnInv => ReplayDay!StreamIsWanted
        BY DEF ConnInv, ReplayDay!StreamIsWanted
    <2>4. HeldInv => ReplayLossy!EndIsEnd /\ ReplayLossy!NotBeforeStart
        BY DEF HeldInv, ReplayLossy!EndIsEnd
    <2>5. StreamInv => ReplayLossy!StreamIsWanted
        BY DEF StreamInv, ReplayLossy!StreamIsWanted
    <2> QED
        BY <2>1, <2>2, <2>3, <2>4, <2>5 DEF DayInv, LossyInv, EventsOfDay, ShownIsSelected,
            StreamIsWanted, NotBeforeStart, EndIsEnd
<1>4. Inv /\ [Next]_vars => Inv'
    BY <1>2
<1>5. Inv /\ [Next]_vars => [scene = "replay" => ReplayDay!NeverBack]_replayVars
    BY <1>2
<1> QED
    BY <1>1, <1>3, <1>4, <1>5, PTL DEF Spec, ReplaySound, NeverBack


==============================================================================
