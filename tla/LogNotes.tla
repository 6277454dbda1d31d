------------------------------ MODULE LogNotes ------------------------------
(* Notes on log files: the log-sync page loads every annotation once, the     *)
(* modal (FileAnnotationModal.tsx) edits a copy of one, offers to fill it in   *)
(* from the trackside session the file belongs to, and puts the whole form.   *)
EXTENDS Integers, FiniteSets, FiniteSetsExt

CONSTANTS Files,     \* the files, each named by the time its log began
          MaxOpen,   \* OPEN_SESSION_MAX_MS
          Edits,     \* bound on what the user does
          Fails,     \* bound on requests that fail
          Others,    \* bound on saves from another device
          LoadFails, \* may the annotations fail to load?
          Hasty,     \* is a form opened before the load, or edited or left while it is saved?
          None

FilesAssumption == Files \subseteq Nat
BoundsAssumption == MaxOpen \in Nat /\ Edits \in Nat /\ Fails \in Nat /\ Others \in Nat
ModesAssumption == LoadFails \in BOOLEAN /\ Hasty \in BOOLEAN

VARIABLES stored,   \* the worker's annotations, by file
          shown,    \* the page's annotations
          load,     \* the page's first load: "asked", a reply, "done"
          server, local,   \* trackside sessions known to the worker, and to this browser
          modal,    \* the form: [file, form, edited, matched, asked, saving], or None
          puts,     \* saves under way
          edits, fails, others

net == <<edits, fails, others>>
vars == <<stored, shown, load, server, local, modal, puts, net>>

Fields == {"driver", "notes"}
Blank == [k \in Fields |-> 0]
NoNotes == [f \in Files |-> Blank]

\* Sessions: 1 may be open still on this browser, 2 overlaps it.
Sessions == {[id |-> 1, from |-> 1, to |-> None], [id |-> 1, from |-> 1, to |-> 2], [id |-> 2, from |-> 2, to |-> 4]}
OneEach(S) == \A s, t \in S : s.id = t.id => s = t
Registries == {S \in SUBSET Sessions : OneEach(S)}

Init == /\ stored \in {[NoNotes EXCEPT ![f] = [driver |-> 0, notes |-> n]] : f \in Files, n \in {0, 2}}
        /\ shown = NoNotes /\ load = "asked" /\ server \in Registries /\ local \in Registries
        /\ modal = None /\ puts = {} /\ edits = 0 /\ fails = 0 /\ others = 0

-----------------------------------------------------------------------------
(* Which session a file belongs to.                                           *)

WindowEnd(s) == IF s.to = None THEN s.from + MaxOpen ELSE s.to
InWindow(s, t) == t >= s.from /\ t <= WindowEnd(s)

\* findSessionForTimestampIn: the latest start wins.
FindSession(S, t) ==
  LET matches == {s \in S : InWindow(s, t)} IN
  IF matches = {} THEN None ELSE CHOOSE s \in matches : \A u \in matches : u.from <= s.from

\* The worker's copy of a session wins.
Merged == server \cup {l \in local : \A s \in server : s.id # l.id}

\* The page's session filter (matchFile).
Filtered(s) == {f \in Files : f >= s.from /\ f <= (IF s.to = None THEN s.from + MaxOpen ELSE s.to)}

-----------------------------------------------------------------------------
LoadServed == /\ load = "asked" /\ load' = "answered" /\ shown' = stored
              /\ UNCHANGED <<stored, server, local, modal, puts, net>>
LoadFailed == /\ LoadFails /\ load = "asked" /\ load' = "answered"
              /\ UNCHANGED <<stored, shown, server, local, modal, puts, net>>

User == edits < Edits /\ edits' = edits + 1 /\ UNCHANGED <<fails, others>>

\* Mutant: the form starts empty.
OpenEmpty(f) ==
  /\ User /\ modal = None /\ (Hasty \/ load = "answered")
  /\ modal' = [file |-> f, form |-> Blank, edited |-> {}, asked |-> TRUE,
               matched |-> FindSession(local, f), saving |-> FALSE]
  /\ UNCHANGED <<stored, shown, load, server, local, puts>>
OpenFile(f) ==
  /\ User /\ modal = None /\ (Hasty \/ load = "answered")
  /\ modal' = [file |-> f, form |-> shown[f], edited |-> {}, asked |-> TRUE,
               matched |-> FindSession(local, f), saving |-> FALSE]
  /\ UNCHANGED <<stored, shown, load, server, local, puts>>

\* The worker's sessions arrive, or none of them.
SessionsArrive ==
  /\ modal # None /\ modal.asked
  /\ \E S \in {Merged} \cup (IF fails < Fails THEN {local} ELSE {}) :
     LET hit == FindSession(S, modal.file) IN
     modal' = [modal EXCEPT !.asked = FALSE, !.matched = IF hit = None THEN @ ELSE hit]
  /\ UNCHANGED <<stored, shown, load, server, local, puts, net>>

Edit(k, v) ==
  /\ User /\ modal # None /\ v # modal.form[k] /\ (Hasty \/ ~modal.saving)
  /\ modal' = [modal EXCEPT !.form[k] = v, !.edited = @ \cup {k}]
  /\ UNCHANGED <<stored, shown, load, server, local, puts>>

\* applyTracksideSession fills in what is empty.
Fill ==
  /\ User /\ modal # None /\ (Hasty \/ ~modal.saving) /\ modal.matched # None /\ modal.form["driver"] = 0
  /\ modal' = [modal EXCEPT !.form["driver"] = modal.matched.id, !.edited = @ \cup {"driver"}]
  /\ UNCHANGED <<stored, shown, load, server, local, puts>>

Save ==
  /\ User /\ modal # None /\ ~modal.saving /\ modal' = [modal EXCEPT !.saving = TRUE]
  /\ puts' = puts \cup {[file |-> modal.file, form |-> modal.form, edited |-> modal.edited, done |-> FALSE]}
  /\ UNCHANGED <<stored, shown, load, server, local>>

\* Escape, a click beside the form, or Cancel, which saving disables.
Close == /\ User /\ modal # None /\ (Hasty \/ ~modal.saving) /\ modal' = None
         /\ UNCHANGED <<stored, shown, load, server, local, puts>>

\* put_annotation replaces the row, or deletes it when the form is blank.
PutServed(p) == /\ ~p.done /\ stored' = [stored EXCEPT ![p.file] = p.form]
                /\ puts' = (puts \ {p}) \cup {[p EXCEPT !.done = TRUE]}
                /\ UNCHANGED <<shown, load, server, local, modal, net>>

\* Saved: the list takes the answer, and the form on the screen is closed.
Saved(p) == /\ p.done /\ puts' = puts \ {p} /\ modal' = None
            /\ shown' = [shown EXCEPT ![p.file] = p.form]
            /\ UNCHANGED <<stored, load, server, local, net>>

SaveFailed(p) == /\ ~p.done /\ fails < Fails /\ fails' = fails + 1 /\ puts' = puts \ {p}
                 /\ modal' = IF modal # None /\ modal.file = p.file THEN [modal EXCEPT !.saving = FALSE] ELSE modal
                 /\ UNCHANGED <<stored, shown, load, server, local, edits, others>>

OtherSaves(f) == /\ others < Others /\ others' = others + 1 /\ stored' = [stored EXCEPT ![f]["notes"] = 1]
                 /\ UNCHANGED <<shown, load, server, local, modal, puts, edits, fails>>

Next == \/ LoadServed \/ LoadFailed \/ SessionsArrive \/ Fill \/ Save \/ Close
        \/ \E f \in Files : OpenFile(f) \/ OtherSaves(f)
        \/ \E k \in Fields, v \in 0..1 : Edit(k, v)
        \/ \E p \in puts : PutServed(p) \/ Saved(p) \/ SaveFailed(p)

Spec == Init /\ [][Next]_vars

-----------------------------------------------------------------------------
\* A save changes no field of the stored notes that its user left alone.
UntouchedKept ==
    \A p \in puts : [p EXCEPT !.done = TRUE] \in puts' /\ ~p.done
       => \A k \in Fields \ p.edited : stored'[p.file][k] = stored[p.file][k]

\* With nothing under way the page's badges are those of the stored notes.
BadgesTrue == (load = "answered" /\ puts = {}) => shown = stored

\* What was typed leaves the screen only by the user's hand or when it is stored.
FormKept ==
    modal # None /\ modal' = None /\ modal.edited # {} /\ edits' = edits => shown'[modal.file] = modal.form

\* The session offered for a file is one under which the page's filter lists it.
OfferListed == (modal # None /\ modal.matched # None) => modal.file \in Filtered(modal.matched)
=============================================================================
