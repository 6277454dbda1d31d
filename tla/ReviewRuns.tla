----------------------------- MODULE ReviewRuns ------------------------------
(* The saved runs of the drive-day review tool and the one that is open       *)
(* (components/driveday/App.tsx, lib/driveday/storage.ts). Runs live in       *)
(* IndexedDB, which answers later and in order; positions and notes live in   *)
(* localStorage, written at once. Opening, deleting and importing are         *)
(* asynchronous and may overlap.                                              *)
EXTENDS Naturals, FiniteSets

CONSTANTS Runs,
          Hasty,     \* the user starts things while others are under way
          Timers,    \* a position timer may outlast the deletion of its run
          MaxOpens,  \* bound on how often a run is opened
          MaxJobs,   \* bound on deletes and imports
          None

RunsParams == None \notin Runs /\ {MaxOpens, MaxJobs} \subseteq Nat /\ {Hasty, Timers} \subseteq BOOLEAN

VARIABLES stored,    \* runs in IndexedDB
          runs,      \* the list on the page
          current, player,  \* the run asked for, the run shown
          openReq,   \* openReq.current
          opens,     \* reads under way: [req, id, found, by]
          keys,      \* runs with notes or a position in localStorage
          timers,    \* runs with a position timer armed (setT, 500 ms)
          dels, imps, \* deletes and imports under way: [id, phase]
          jobs, removed  \* count; history: runs deleted and not imported since

vars == <<stored, runs, current, player, openReq, opens, keys, timers, dels, imps, jobs, removed>>

Init == /\ stored = Runs /\ runs = Runs
        /\ current = None /\ player = None /\ openReq = 0 /\ opens = {}
        /\ keys = {} /\ timers = {} /\ dels = {} /\ imps = {} /\ jobs = 0 /\ removed = {}

-----------------------------------------------------------------------------
\* A user in no hurry waits for what is under way.
Calm == Hasty \/ (dels = {} /\ imps = {} /\ opens = {})

\* open(id), up to its read: the old player saves its position and is gone.
\* `by' is the run whose deletion waits for this open, or None.
StartOpen(id, by) ==
  /\ openReq' = openReq + 1
  /\ keys' = IF player = None THEN keys ELSE keys \cup {player}
  /\ player' = None /\ current' = id
  /\ opens' = IF id = None THEN opens
              ELSE opens \cup {[req |-> openReq', id |-> id, found |-> id \in stored, by |-> by]}

Select(id) == /\ id \in runs /\ openReq < MaxOpens
              /\ Calm
              /\ StartOpen(id, None)
              /\ UNCHANGED <<stored, runs, timers, dels, imps, jobs, removed>>

\* The first load opens the run opened last, or the newest.
FirstLoad == /\ openReq = 0 /\ runs /= {} /\ Calm
             /\ \E id \in runs : StartOpen(id, None)
             /\ UNCHANGED <<stored, runs, timers, dels, imps, jobs, removed>>

\* Whoever waited for this open goes on; an answer to an older request is dropped.
\* Mutant: every answer is shown.
OpenAnswerAny(o) ==
  /\ o \in opens /\ opens' = opens \ {o}
  /\ player' = IF o.found THEN o.id ELSE player
  /\ dels' = IF o.by = None THEN dels
             ELSE {IF d.id = o.by THEN [d EXCEPT !.phase = "del"] ELSE d : d \in dels}
  /\ UNCHANGED <<stored, runs, current, openReq, keys, timers, imps, jobs, removed>>
OpenAnswer(o) ==
  /\ o \in opens /\ opens' = opens \ {o}
  /\ player' = IF o.req = openReq /\ o.found THEN o.id ELSE player
  /\ dels' = IF o.by = None THEN dels
             ELSE {IF d.id = o.by THEN [d EXCEPT !.phase = "del"] ELSE d : d \in dels}
  /\ UNCHANGED <<stored, runs, current, openReq, keys, timers, imps, jobs, removed>>

-----------------------------------------------------------------------------
\* The open run: the clock moves (the timer restarts), a note is written.
Move == /\ player /= None /\ timers' = timers \cup {player}
        /\ UNCHANGED <<stored, runs, current, player, openReq, opens, keys, dels, imps, jobs, removed>>

Note == /\ player /= None /\ keys' = keys \cup {player}
        /\ UNCHANGED <<stored, runs, current, player, openReq, opens, timers, dels, imps, jobs, removed>>

\* savePos 500 ms after the last move, whether or not its player is still there.
PosTimer(r) == /\ r \in timers /\ timers' = timers \ {r}
               /\ keys' = keys \cup {r}
               /\ UNCHANGED <<stored, runs, current, player, openReq, opens, dels, imps, jobs, removed>>

-----------------------------------------------------------------------------
(* Deleting a run.                                                            *)

Remove(id) ==
  /\ id \in runs /\ jobs < MaxJobs /\ jobs' = jobs + 1 /\ openReq < MaxOpens
  /\ Calm /\ \A d \in dels : d.id /= id
  /\ IF id = current
     THEN \E other \in (IF runs = {id} THEN {None} ELSE runs \ {id}) :
            /\ StartOpen(other, id)
            /\ dels' = dels \cup {[id |-> id, phase |-> IF other = None THEN "del" ELSE "opening"]}
     ELSE /\ dels' = dels \cup {[id |-> id, phase |-> "del"]}
          /\ UNCHANGED <<current, player, openReq, opens, keys>>
  /\ UNCHANGED <<stored, runs, timers, imps, removed>>

\* runStore.del. Deletes are short; a timer that runs out first has saved already.
RemoveData(d) ==
  /\ d \in dels /\ d.phase = "del"
  /\ Timers \/ d.id \notin timers
  /\ stored' = stored \ {d.id} /\ removed' = removed \cup {d.id}
  /\ dels' = (dels \ {d}) \cup {[d EXCEPT !.phase = "keys"]}
  /\ UNCHANGED <<runs, current, player, openReq, opens, keys, timers, imps, jobs>>

RemoveKeys(d) ==
  /\ d \in dels /\ d.phase = "keys"
  /\ keys' = keys \ {d.id}
  /\ dels' = (dels \ {d}) \cup {[d EXCEPT !.phase = "list"]}
  /\ UNCHANGED <<stored, runs, current, player, openReq, opens, timers, imps, jobs, removed>>

RemoveLists(d) ==
  /\ d \in dels /\ d.phase = "list"
  /\ runs' = stored /\ dels' = dels \ {d}
  /\ UNCHANGED <<stored, current, player, openReq, opens, keys, timers, imps, jobs, removed>>

-----------------------------------------------------------------------------
(* Importing a day.                                                           *)

ImportStart(id) == /\ jobs < MaxJobs /\ jobs' = jobs + 1
                   /\ Calm /\ \A m \in imps : m.id /= id
                   /\ imps' = imps \cup {[id |-> id, phase |-> "fetch"]}
                   /\ UNCHANGED <<stored, runs, current, player, openReq, opens, keys, timers, dels, removed>>

ImportFails(m) == /\ m \in imps /\ m.phase = "fetch" /\ imps' = imps \ {m}
                  /\ UNCHANGED <<stored, runs, current, player, openReq, opens, keys, timers, dels, jobs, removed>>

\* The run is stored; with flags, its notes are seeded.
ImportPut(m) == /\ m \in imps /\ m.phase = "fetch"
                /\ stored' = stored \cup {m.id} /\ removed' = removed \ {m.id}
                /\ \E flags \in BOOLEAN : keys' = IF flags THEN keys \cup {m.id} ELSE keys
                /\ imps' = (imps \ {m}) \cup {[m EXCEPT !.phase = "list"]}
                /\ UNCHANGED <<runs, current, player, openReq, opens, timers, dels, jobs>>

ImportOpens(m) == /\ m \in imps /\ m.phase = "list" /\ openReq < MaxOpens
                  /\ runs' = stored
                  /\ StartOpen(m.id, None) /\ imps' = imps \ {m}
                  /\ UNCHANGED <<stored, timers, dels, jobs, removed>>

Next == \/ FirstLoad \/ Move \/ Note
        \/ \E id \in Runs : Select(id) \/ PosTimer(id) \/ Remove(id) \/ ImportStart(id)
        \/ \E o \in opens : OpenAnswer(o)
        \/ \E d \in dels : RemoveData(d) \/ RemoveKeys(d) \/ RemoveLists(d)
        \/ \E m \in imps : ImportFails(m) \/ ImportPut(m) \/ ImportOpens(m)

Spec == Init /\ [][Next]_vars

-----------------------------------------------------------------------------
\* The run shown is the one asked for last, although reads may still be under
\* way for others (openReq).
OpenLatest == player /= None => player = current

\* When nothing is under way, the list on the page is what is stored.
ListTrue == dels = {} /\ imps = {} => runs = stored

\* Nothing of a deleted run is left once its deletion is over.
NoLeftovers == \A r \in removed : (\A d \in dels : d.id /= r) => r \notin keys
=============================================================================
