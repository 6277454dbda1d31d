---------------------------- MODULE TrackMapper ----------------------------
(***************************************************************************)
(* The track mapping page: it records the points a car sends, lets the     *)
(* user place a start gate and sector gates on them, and keeps every track *)
(* in the browser's storage.  There is no save button: an effect writes    *)
(* the work under its current name whenever it changed, and removes the    *)
(* entry of the name it had before.                                        *)
(*                                                                         *)
(* A point is its position along one axis.  A gate is the index of the     *)
(* point it was placed at.  React runs the effects of a change before it   *)
(* handles the next event: "pending" are the effects that are due.         *)
(***************************************************************************)
EXTENDS Integers, Sequences, FiniteSets, SequencesExt

CONSTANTS
    Names,      \* names a track can get; "Untitled" is one
    Positions,  \* positions of points
    MinGap,     \* gates are at least so many points apart
    Clashes,    \* the user types names, or starts tracks, over stored ones
    Moving,     \* the car sends points while gates are placed
    MaxPoints, MaxGates, MaxWorks, MaxEvents,   \* bounds
    None

TrackMapperParams ==
    /\ "Untitled" \in Names /\ None \notin Names
    /\ Positions \subseteq Nat
    /\ {MinGap, MaxPoints, MaxGates, MaxWorks, MaxEvents} \subseteq Nat
    /\ {Clashes, Moving} \subseteq BOOLEAN

VARIABLES
    store,      \* localStorage: the track of each name, or None
    lastActive, \* track_mapper_last_active
    listed,     \* availableTracks
    page,       \* the state and the refs of the page
    pending,    \* the effects that are due
    db, saving, status,     \* rows of track_mapping, the save under way, its result
    works, confirmed, cleared,  \* for the properties: works begun, name whose
                                \* overwriting was confirmed, name just cleared
    events

vars == <<store, lastActive, listed, page, pending, db, saving, status,
          works, confirmed, cleared, events>>

Empty(p) == p.points = <<>> /\ p.gates = <<>>

\* The state of the page on mount; work is what identifies the track it
\* holds, whatever its name.
Mounted(work) ==
    [name |-> "Untitled", saved |-> "Untitled", work |-> work, points |-> <<>>,
     gates |-> <<>>, recording |-> TRUE, defining |-> FALSE, setting |-> FALSE,
     hover |-> None, msg |-> None, last |-> None, count |-> 0, shown |-> 0]

\* loadTrackData; the modes and the hover line are left as they were.
loadTrackData(p, n) ==
    LET t == store[n]
    IN  [p EXCEPT !.name = n, !.saved = n, !.work = t.work, !.points = t.points,
                  !.gates = t.gates, !.recording = FALSE,
                  !.count = Len(t.points), !.shown = Len(t.points),
                  !.last = IF t.points = <<>> THEN None ELSE t.points[Len(t.points)]]

\* handleTrackChange with NEW_TRACK_OPTION
NewTrack(p, work) ==
    [p EXCEPT !.name = "Untitled", !.saved = "Untitled", !.work = work, !.points = <<>>,
              !.gates = <<>>, !.recording = TRUE, !.last = None, !.count = 0, !.shown = 0]

\* The mount effect lists the stored tracks and loads the last active one.
Mount(work) ==
    /\ listed' = {n \in Names : store[n] # None}
    /\ page' = IF lastActive \in listed' THEN loadTrackData(Mounted(work), lastActive)
               ELSE Mounted(work)

Init ==
    /\ \E old \in SUBSET (Names \ {"Untitled"}) :
        /\ Cardinality(old) <= 1
        /\ store = [n \in Names |-> IF n \in old THEN [work |-> 0, points |-> <<1>>, gates |-> <<>>]
                                   ELSE None]
    /\ lastActive = None
    /\ listed = {n \in Names : store[n] # None}
    /\ page = Mounted(1)
    /\ pending = {}
    /\ db = {} /\ saving = None /\ status = None
    /\ works = 1 /\ confirmed = None /\ cleared = None /\ events = 0

-----------------------------------------------------------------------------
(* The effects *)

\* The effect of [kafkaMsg, isRecording]: it appends the last message, new
\* or not, unless it repeats the last point.
AppendPoint ==
    LET due == page.recording /\ page.msg # None /\ page.msg # page.last
    IN  /\ "record" \in pending
        /\ due => Len(page.points) < MaxPoints
        /\ pending' = (pending \ {"record"}) \cup (IF due THEN {"save"} ELSE {})
        /\ page' = IF due
                   THEN [page EXCEPT !.points = Append(@, page.msg), !.last = page.msg,
                                     !.count = @ + 1, !.shown = page.count + 1]
                   ELSE page
        /\ cleared' = IF due THEN None ELSE cleared
        /\ UNCHANGED <<store, lastActive, listed, db, saving, status, works, confirmed, events>>

Track(p) == [work |-> p.work, points |-> p.points, gates |-> p.gates]

\* The effect of [points, sectors, trackName]
AutoSave ==
    /\ pending = {"save"}
    /\ pending' = {}
    /\ IF Empty(page)
       THEN UNCHANGED <<store, lastActive, listed, page>>
       ELSE /\ store' = [n \in Names |->
                IF n = page.name THEN Track(page)
                ELSE IF n = page.saved THEN None ELSE store[n]]
            /\ lastActive' = page.name
            /\ listed' = (listed \ {page.saved}) \cup {page.name}
            /\ page' = [page EXCEPT !.saved = page.name]
    /\ UNCHANGED <<db, saving, status, works, confirmed, cleared, events>>

-----------------------------------------------------------------------------
(* The events *)

Event ==
    /\ pending = {} /\ events < MaxEvents
    /\ events' = events + 1

\* The effects due after the page became p.
Due(p) ==
    (IF p.recording # page.recording THEN {"record"} ELSE {})
        \cup (IF <<p.points, p.gates, p.name>> # <<page.points, page.gates, page.name>>
              THEN {"save"} ELSE {})

Become(p) == page' = p /\ pending' = Due(p)

\* A point of the car arrives.
Message(p) ==
    /\ Event
    /\ Moving \/ (~ page.defining /\ ~ page.setting)
    /\ Len(page.points) < MaxPoints
    /\ page' = [page EXCEPT !.msg = p] /\ pending' = {"record"}
    /\ UNCHANGED <<store, lastActive, listed, db, saving, status, works, confirmed, cleared>>

Reload ==
    /\ Event
    /\ works < MaxWorks
    /\ works' = works + 1
    /\ Mount(works')
    /\ pending' = IF lastActive \in listed' THEN {"save"} ELSE {}
    /\ saving' = None /\ status' = None
    /\ confirmed' = None
    /\ UNCHANGED <<store, lastActive, db, cleared>>

\* Without clashes the user starts no track while "Untitled" is stored.
ChooseNew ==
    /\ Event
    /\ works < MaxWorks
    /\ Clashes \/ store["Untitled"] = None
    /\ works' = works + 1
    /\ Become(NewTrack(page, works'))
    /\ confirmed' = None /\ cleared' = None
    /\ UNCHANGED <<store, lastActive, listed, db, saving, status>>

ChooseTrack(n) ==
    /\ Event
    /\ n \in listed /\ store[n] # None
    /\ lastActive' = n
    /\ Become(loadTrackData(page, n))
    /\ confirmed' = None /\ cleared' = None
    /\ UNCHANGED <<store, listed, db, saving, status, works>>

TypeName(n) ==
    /\ Event
    /\ n # page.name
    /\ Clashes \/ n \notin listed
    /\ Become([page EXCEPT !.name = n])
    /\ cleared' = None
    /\ UNCHANGED <<store, lastActive, listed, db, saving, status, works, confirmed>>

handleDeleteTrack ==
    /\ Event
    /\ works < MaxWorks
    /\ Clashes \/ page.name = "Untitled" \/ store["Untitled"] = None
    /\ store' = [store EXCEPT ![page.name] = None]
    /\ listed' = listed \ {page.name}
    /\ works' = works + 1
    /\ Become(NewTrack(page, works'))
    /\ confirmed' = page.name /\ cleared' = None
    /\ UNCHANGED <<lastActive, db, saving, status>>

\* Mutant: the ref keeps the name of the original.
SaveAsRename(n) ==
    /\ Event
    /\ works < MaxWorks /\ n # page.name
    /\ works' = works + 1
    /\ Become([page EXCEPT !.name = n, !.work = works'])
    /\ confirmed' = IF n \in listed THEN n ELSE None
    /\ cleared' = None
    /\ UNCHANGED <<store, lastActive, listed, db, saving, status>>

\* The prompt is answered with n, and confirmed if n is listed.  Nothing
\* happens if n is the name the track has.
handleSaveAs(n) ==
    /\ Event
    /\ works < MaxWorks /\ n # page.name
    /\ works' = works + 1
    /\ Become([page EXCEPT !.name = n, !.saved = n, !.work = works'])
    /\ confirmed' = IF n \in listed THEN n ELSE None
    /\ cleared' = None
    /\ UNCHANGED <<store, lastActive, listed, db, saving, status>>

handleFinishMapping ==
    /\ Event
    /\ page.recording /\ page.points # <<>>
    /\ Become([page EXCEPT !.recording = FALSE])
    /\ UNCHANGED <<store, lastActive, listed, db, saving, status, works, confirmed, cleared>>

handleClearPoints ==
    /\ Event
    /\ page.points # <<>>
    /\ Become([page EXCEPT !.points = <<>>, !.gates = <<>>, !.count = 0, !.shown = 0,
                           !.last = None, !.recording = TRUE])
    /\ cleared' = page.name
    /\ UNCHANGED <<store, lastActive, listed, db, saving, status, works, confirmed>>

-----------------------------------------------------------------------------
(* The gates *)

gateUnchanged == <<store, lastActive, listed, db, saving, works, confirmed, cleared>>

\* The bounds of the drawing, from the points and the gates.
Scale == {page.points[i] : i \in DOMAIN page.points} \cup {page.gates[i].at : i \in DOMAIN page.gates}
Bounds == {x \in Scale : (\A y \in Scale : x <= y) \/ (\A y \in Scale : x >= y)}

Gate(i, start) == [index |-> i, at |-> page.points[i], onTrack |-> TRUE, start |-> start]

handleToggleDefineSectors ==
    /\ Event
    /\ page.points # <<>>
    /\ Become([page EXCEPT
            !.gates = IF ~ page.defining /\ @ = <<>> THEN <<Gate(1, TRUE)>> ELSE @,
            !.defining = ~ @])
    /\ UNCHANGED <<gateUnchanged, status>>

handleToggleSetStartGate ==
    /\ Event
    /\ page.points # <<>>
    /\ Become([page EXCEPT !.setting = ~ @, !.defining = FALSE])
    /\ UNCHANGED <<gateUnchanged, status>>

\* handleMouseMove near point i: the line is kept in screen coordinates.
handleMouseMove(i) ==
    /\ Event
    /\ page.defining \/ page.setting
    /\ Become([page EXCEPT !.hover = [index |-> i, at |-> page.points[i], bounds |-> Bounds]])
    /\ UNCHANGED <<gateUnchanged, status>>

handleMouseLeave ==
    /\ Event
    /\ page.hover # None
    /\ Become([page EXCEPT !.hover = None])
    /\ UNCHANGED <<gateUnchanged, status>>

\* The gate at the hover line.  Its screen coordinates are converted back
\* with the scale of the click: if that is another one than the line was
\* computed with, the gate is beside the track and nearest to any point.
Placed(start) ==
    LET h == page.hover
    IN  IF h.bounds = Bounds /\ h.index <= Len(page.points) /\ page.points[h.index] = h.at
        THEN {Gate(h.index, start)}
        ELSE {[Gate(i, start) EXCEPT !.onTrack = FALSE] : i \in DOMAIN page.points}

handleSvgClickStartGate ==
    /\ Event
    /\ page.points # <<>> /\ page.setting /\ page.hover # None
    /\ \E g \in Placed(TRUE) :
        Become([page EXCEPT !.gates = IF @ = <<>> THEN <<g>> ELSE [@ EXCEPT ![1] = g],
                            !.setting = FALSE])
    /\ status' = None
    /\ UNCHANGED gateUnchanged

isTooClose(i) ==
    \E k \in DOMAIN page.gates :
        page.gates[k].index - i < MinGap /\ i - page.gates[k].index < MinGap

handleSvgClick ==
    /\ Event
    /\ page.points # <<>> /\ page.defining /\ ~ page.setting /\ page.hover # None
    /\ ~ isTooClose(page.hover.index)
    /\ Len(page.gates) < MaxGates
    /\ \E g \in Placed(FALSE) : Become([page EXCEPT !.gates = Append(@, g)])
    /\ UNCHANGED <<gateUnchanged, status>>

handleClearSectors ==
    /\ Event
    /\ page.gates # <<>>
    /\ Become([page EXCEPT !.gates = <<>>])
    /\ UNCHANGED <<gateUnchanged, status>>

\* The segments the track is drawn in, as first and last index: they end
\* at the gates, in the order of the track.
segments(p) ==
    LET indices == SortSeq([k \in DOMAIN p.gates |-> p.gates[k].index], LAMBDA a, b : a < b)
        from(k) == IF k = 1 THEN 1 ELSE indices[k - 1]
        to(k) == IF k > Len(indices) THEN Len(p.points) ELSE indices[k]
    IN  SelectSeq([k \in 1..(Len(indices) + 1) |-> <<from(k), to(k)>>], LAMBDA s : s[1] <= s[2])

-----------------------------------------------------------------------------
(* The database *)

handleSaveToDatabase ==
    /\ Event
    /\ page.gates # <<>> /\ saving = None /\ page.points # <<>>
    /\ saving' = [name |-> page.name, track |-> Track(page)]
    /\ status' = None
    /\ UNCHANGED <<store, lastActive, listed, page, pending, db, works, confirmed, cleared>>

\* The route stores a row, or the call fails.
Answer(ok) ==
    /\ pending = {} /\ saving # None
    /\ db' = IF ok THEN db \cup {saving} ELSE db
    /\ status' = IF ok THEN "ok" ELSE "failed"
    /\ saving' = None
    /\ UNCHANGED <<store, lastActive, listed, page, pending, works, confirmed, cleared, events>>

Stop == pending = {} /\ saving = None /\ events = MaxEvents /\ UNCHANGED vars

Next ==
    \/ AppendPoint \/ AutoSave
    \/ \E p \in Positions : Message(p)
    \/ Reload \/ ChooseNew
    \/ \E n \in Names : ChooseTrack(n) \/ TypeName(n) \/ handleSaveAs(n)
    \/ handleDeleteTrack \/ handleFinishMapping \/ handleClearPoints
    \/ handleToggleDefineSectors \/ handleToggleSetStartGate
    \/ \E i \in DOMAIN page.points : handleMouseMove(i)
    \/ handleMouseLeave \/ handleSvgClickStartGate \/ handleSvgClick \/ handleClearSectors
    \/ handleSaveToDatabase
    \/ \E ok \in BOOLEAN : Answer(ok)
    \/ Stop

Spec == Init /\ [][Next]_vars

-----------------------------------------------------------------------------
(* Properties *)

Stored(s) == {s[n].work : n \in {m \in Names : s[m] # None}}

\* A stored track leaves the storage only if the user deleted it, or
\* confirmed that a copy replaces it: not when the work is renamed, copied,
\* recorded or reloaded.
NothingLost ==
    \A n \in Names :
        (store[n] # None /\ store[n].work \notin Stored(store'))
            => n \in {confirmed, confirmed'}

\* Whatever is on the page is in the storage, under the name it has there,
\* before the next event: closing the page loses nothing.
WorkSaved ==
    pending = {} /\ ~ Empty(page) => store[page.name] = Track(page)

\* The list of tracks is the storage's: no listed track is gone and no
\* stored one is out of reach.
ListMatchesStorage == pending = {} => listed = {n \in Names : store[n] # None}

\* The coloured segments, however the gates were placed, make one line from
\* the first point to the last.
SegmentsJoin ==
    LET s == segments(page)
    IN  page.points # <<>> =>
            /\ s[1][1] = 1 /\ s[Len(s)][2] = Len(page.points)
            /\ \A k \in 1..(Len(s) - 1) : s[k + 1][1] = s[k][2]

=============================================================================
