----------------------------- MODULE ReviewNotes -----------------------------
(* What a user marks on a run of the drive-day review tool: cone hits with    *)
(* and without a time, notes, and what an import from the database adds to    *)
(* them (player.ts update ff., storage.ts, types.ts seedFlags, App.tsx        *)
(* importDb). One run; its laps are LapLen units of session time each, the    *)
(* first is the out lap. Every tab with the run open holds its own copy of    *)
(* the user state and saves the whole of it at every change.                  *)
EXTENDS Integers, Sequences, FiniteSetsExt, SequencesExt

CONSTANTS Tabs, NLaps, LapLen,
          Hits,           \* times at which Trackside flags a cone
          FlagTimes,      \* times of its other flags
          Origins,        \* possible starts of the run: an earlier out lap may turn up
          MaxManual, MaxUntimed, MaxImports,  \* bounds on what the user does
          None

NotesAssumption == /\ NLaps \in Nat /\ LapLen \in Nat \ {0}
                          /\ Hits \cup FlagTimes \subseteq Nat /\ Origins \subseteq Nat

VARIABLES db,        \* the flags in the database: [hits, flags, origin]
          run,       \* the stored run: [hits, origin]
          stored,    \* the user state in localStorage
          live,      \* what each tab shows, None while it opens the run
          base,      \* start of the run each tab has open (Session.T0)
          T,         \* playhead, shared by the tabs for brevity
          imp,       \* an import under way: [tab, phase, hits, flags, origin], or None
          imports, ids,
          kept, gone \* history: hits [id, at] entered and not removed; ids the user removed

vars == <<db, run, stored, live, base, T, imp, imports, ids, kept, gone>>
history == <<kept, gone>>

Laps == 1..NLaps
Times == 0..(NLaps * LapLen - 1)
\* Session time t of the run starting at `origin' is moment t + origin of the day.
LapAt(at) == Min({NLaps, at \div LapLen + 1})
Timed(l) == l > 1
lapIndexAt(t, origin) == LapAt(t + origin)

emptyUserState == [ce |-> {}, cones |-> [l \in Laps |-> 0], dismissed |-> {}, marks |-> <<>>]

coneEvIn(u, l, o) == {e \in u.ce : lapIndexAt(e.t, o) = l}
conesOf(u, l, o) == IF Timed(l) THEN u.cones[l] + Cardinality(coneEvIn(u, l, o)) ELSE 0

-----------------------------------------------------------------------------
(* Loading and importing.                                                     *)

ExportId(at) == <<"export:cone", at>>

\* Exported hits by identity; the ones the user removed stay out.
seedCones(r, u) ==
  LET hits == {h \in r.hits : ExportId(h) \notin u.dismissed}
  IN [u EXCEPT !.ce = {e \in u.ce : \A h \in hits : e.id /= ExportId(h)}
                      \cup {[id |-> ExportId(h), t |-> h - r.origin] : h \in hits}]

FlagId(f) == <<"flag", f>>
Ids(marks) == {marks[i].id : i \in DOMAIN marks}

seedFlags(u, flags, origin) ==
  LET new == {f \in flags : FlagId(f) \notin Ids(u.marks)}
  IN [u EXCEPT !.marks = @ \o SetToSeq({[id |-> FlagId(f), t |-> f - origin] : f \in new})]

loadUserState == seedCones(run, stored)

Init == /\ db = [hits |-> {}, flags |-> {}, origin |-> Max(Origins)]
        /\ run = [hits |-> {}, origin |-> Max(Origins)]
        /\ stored = emptyUserState
        /\ live = [t \in Tabs |-> loadUserState]
        /\ base = [t \in Tabs |-> run.origin]
        /\ T = Max(Origins) /\ imp = None /\ imports = 0 /\ ids = 0
        /\ kept = {} /\ gone = {}

\* Trackside: a flag is pressed, or a lap is added before the first.
TracksideFlag == /\ \/ \E h \in Hits \ db.hits : db' = [db EXCEPT !.hits = @ \cup {h}]
                    \/ \E f \in FlagTimes \ db.flags : db' = [db EXCEPT !.flags = @ \cup {f}]
                    \/ \E o \in Origins : o < db.origin /\ db' = [db EXCEPT !.origin = o]
                 /\ UNCHANGED <<run, stored, live, base, T, imp, imports, ids, history>>

ImportAnswer(tab) ==
  /\ imp = None /\ imports < MaxImports /\ imports' = imports + 1
  /\ imp' = [tab |-> tab, phase |-> "answered", run |-> [hits |-> db.hits, origin |-> db.origin],
             flags |-> db.flags]
  /\ UNCHANGED <<db, run, stored, live, base, T, ids, history>>

\* runStore.put
ImportPut == /\ imp /= None /\ imp.phase = "answered"
             /\ run' = imp.run
             /\ imp' = [imp EXCEPT !.phase = "put"]
             /\ UNCHANGED <<db, stored, live, base, T, imports, ids, history>>

ImportSeed == /\ imp /= None /\ imp.phase = "put"
              /\ stored' = IF imp.flags = {} THEN stored
                           ELSE seedFlags(loadUserState, imp.flags, run.origin)
              /\ imp' = [imp EXCEPT !.phase = "seeded"]
              /\ UNCHANGED <<db, run, live, base, T, imports, ids, history>>

\* open(last): the old player goes, the stored run is read, a new player is built.
ImportOpens == /\ imp /= None /\ imp.phase = "seeded"
               /\ live' = [live EXCEPT ![imp.tab] = None]
               /\ imp' = [imp EXCEPT !.phase = "opening"]
               /\ UNCHANGED <<db, run, stored, base, T, imports, ids, history>>

ImportDone == /\ imp /= None /\ imp.phase = "opening"
              /\ live' = [live EXCEPT ![imp.tab] = loadUserState]
              /\ base' = [base EXCEPT ![imp.tab] = run.origin]
              /\ imp' = None
              /\ T' = Max({T, run.origin})
              /\ UNCHANGED <<db, run, stored, imports, ids, history>>

\* The page is reloaded; an import of that tab is cut off.
Reload(tab) == /\ live' = [live EXCEPT ![tab] = loadUserState]
               /\ base' = [base EXCEPT ![tab] = run.origin]
               /\ imp' = IF imp /= None /\ imp.tab = tab THEN None ELSE imp
               /\ UNCHANGED <<db, run, stored, T, imports, ids, history>>

-----------------------------------------------------------------------------
(* What the user marks. T is a moment of the day; the session clock is        *)
(* T - base[tab].                                                             *)

Seek == \E at \in Times : at >= run.origin /\ at /= T /\ T' = at
        /\ UNCHANGED <<db, run, stored, live, base, imp, imports, ids, history>>

update(tab, u) == /\ live[tab] /= None /\ live' = [live EXCEPT ![tab] = u]
                  /\ stored' = u
                  /\ UNCHANGED <<db, run, base, T, imp, imports>>

addConeAt(tab) ==
  /\ Timed(LapAt(T)) /\ ids < MaxManual /\ ids' = ids + 1
  /\ LET e == [id |-> <<"manual", ids'>>, t |-> T - base[tab]] IN
       /\ update(tab, [live[tab] EXCEPT !.ce = @ \cup {e}])
       /\ kept' = kept \cup {[id |-> e.id, at |-> T]} /\ UNCHANGED gone

\* Mutant: an exported hit is removed like any other.
RemovedForgets(u, e) == [u EXCEPT !.ce = @ \ {e}]
removeTimedCone(u, e) ==
  [u EXCEPT !.ce = @ \ {e},
            !.dismissed = IF e.id[1] = "export:cone" THEN @ \cup {e.id} ELSE @]

RemoveTimed(tab, e) == /\ update(tab, removeTimedCone(live[tab], e))
                       /\ kept' = {k \in kept : k.id /= e.id}
                       /\ gone' = gone \cup {e.id} /\ UNCHANGED ids

\* The untimed count of a lap goes up or down.
SetUntimed(tab, l, n) == /\ n \in 0..MaxUntimed
                         /\ update(tab, [live[tab] EXCEPT !.cones[l] = n])
                         /\ UNCHANGED <<ids, history>>

Nearest(E, t) == {e \in E : \A f \in E : (e.t - t) ^ 2 <= (f.t - t) ^ 2}
LatestOf(E) == {e \in E : \A f \in E : f.t <= e.t}

\* Shift+C: the hit nearest the playhead, else an untimed one.
coneKeyMinus(tab) ==
  LET l == LapAt(T) IN
  /\ live[tab] /= None /\ Timed(l)
  /\ LET E == coneEvIn(live[tab], l, base[tab]) IN
     \/ \E e \in Nearest(E, T - base[tab]) : RemoveTimed(tab, e)
     \/ E = {} /\ SetUntimed(tab, l, live[tab].cones[l] - 1)

setCone(tab, l, d) ==
  /\ live[tab] /= None /\ Timed(l)
  /\ IF d > 0 THEN IF LapAt(T) = l THEN addConeAt(tab)
                   ELSE SetUntimed(tab, l, live[tab].cones[l] + 1)
     ELSE LET E == coneEvIn(live[tab], l, base[tab]) IN
          \/ \E e \in LatestOf(E) : RemoveTimed(tab, e)
          \/ E = {} /\ SetUntimed(tab, l, live[tab].cones[l] - 1)

deleteCone(tab) == live[tab] /= None /\ \E e \in live[tab].ce : RemoveTimed(tab, e)

deleteMark(tab) == /\ live[tab] /= None
                   /\ \E i \in DOMAIN live[tab].marks :
                        /\ update(tab, [live[tab] EXCEPT !.marks = RemoveAt(@, i)])
                        /\ gone' = gone \cup {live[tab].marks[i].id}
                        /\ UNCHANGED <<ids, kept>>

addMark(tab) == /\ ids < MaxManual /\ live[tab] /= None /\ ids' = ids + 1
                /\ update(tab, [live[tab] EXCEPT !.marks =
                       Append(@, [id |-> <<"mark", ids'>>, t |-> T - base[tab]])])
                /\ UNCHANGED history

Next == \/ TracksideFlag \/ Seek
        \/ ImportPut \/ ImportSeed \/ ImportOpens \/ ImportDone
        \/ \E tab \in Tabs :
             \/ ImportAnswer(tab) \/ Reload(tab)
             \/ addConeAt(tab) \/ coneKeyMinus(tab) \/ deleteCone(tab)
             \/ \E l \in Laps, d \in {-1, 1} : setCone(tab, l, d)
             \/ addMark(tab) \/ deleteMark(tab)

Spec == Init /\ [][Next]_vars

-----------------------------------------------------------------------------
IsManual(e) == e.id[1] = "manual"

\* The hits in storage are the ones the user entered and did not remove,
\* through reloads and imports (update, saveUserState, importDb).
HitsKept == {e.id : e \in {x \in stored.ce : IsManual(x)}} = {k.id : k \in kept}

\* A hit the user removed is not shown again, also when its flag is imported again.
RemovedStays == \A tab \in Tabs : live[tab] /= None =>
                  \A e \in live[tab].ce : e.id \notin gone

\* The table's buttons change the count of their lap by one, and of no other.
CountsByOne ==
    \A tab \in Tabs, l \in Laps, d \in {-1, 1} :
       setCone(tab, l, d) => \A m \in Laps :
         conesOf(live'[tab], m, base[tab]) = conesOf(live[tab], m, base[tab]) + (IF m = l THEN d ELSE 0)

\* Importing a day again adds no flag twice.
FlagsOnce == \A i, j \in DOMAIN stored.marks :
               stored.marks[i].id = stored.marks[j].id => i = j

=============================================================================
