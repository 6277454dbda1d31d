--------------------------- MODULE SessionRegistry ---------------------------
(* Records of trackside sessions: each browser keeps a capped list            *)
(* (lib/trackside/sessionRegistry.ts) that it merges with the log-sync         *)
(* worker's on load, and sends the worker the whole record at every change.   *)
(* The session's leader edits plan and metadata; every device that shows the  *)
(* session patches the lap count (TracksideApp.tsx).                           *)
EXTENDS Integers, Sequences, FiniteSets

CONSTANTS Devices,   \* browsers; the session's leader is one of them
          Leader,
          MaxIds,    \* bound on sessions
          Cap,       \* MAX_SESSIONS of a browser's list
          ServerCap, \* MAX_SESSIONS of the worker's
          Attempts,  \* attempts of a push
          Edits,     \* bound on changes
          Loads,     \* bound on page loads
          Fails,     \* bound on requests that fail
          Slow,      \* may a push outlast the next change?
          Hasty,     \* may a record change while the page merges?
          BadLoads,  \* may the merge find the worker unreachable?
          Mirrors,   \* do mirrors patch the lap count?
          None

LeaderAssumption == Leader \in Devices
BoundsAssumption == /\ MaxIds \in Nat /\ Cap \in Nat \ {0} /\ ServerCap \in Nat \ {0}
                           /\ Attempts \in Nat \ {0} /\ Edits \in Nat /\ Loads \in Nat /\ Fails \in Nat
ModesAssumption == Slow \in BOOLEAN /\ Hasty \in BOOLEAN /\ BadLoads \in BOOLEAN /\ Mirrors \in BOOLEAN

VARIABLES local,   \* each browser's records: sets of [id, at, plan, laps]
          server,  \* the worker's records, with the time of the write
          pushes,  \* pushes under way: [by, rec, tries]
          sync,    \* each browser's merge under way: [copy, reply], or None
          plan,    \* the leader's plan for each session, as last entered
          unsent,  \* browsers whose records the worker may lack since their last answered load
          clock, edits, loads, fails

vars == <<local, server, pushes, sync, plan, unsent, clock, edits, loads, fails>>
count == <<edits, loads, fails>>

Init == /\ local = [d \in Devices |-> {}] /\ server = {} /\ pushes = {}
        /\ sync = [d \in Devices |-> None] /\ plan = <<>> /\ unsent = {}
        /\ clock = 0 /\ edits = 0 /\ loads = 0 /\ fails = 0

ById(S, id) == {r \in S : r.id = id}
\* Ids grow with the time a session started.
Newest(S, n) == {r \in S : Cardinality({q \in S : q.id > r.id}) < n}
Saved(S) == Newest(S, Cap)

Push(d, r) == [by |-> d, rec |-> r, tries |-> 0]
Current == Len(plan)
Ready(d) == /\ edits < Edits /\ edits' = edits + 1 /\ (Slow \/ pushes = {}) /\ (Hasty \/ sync[d] = None)
            /\ clock' = clock + 1 /\ UNCHANGED <<server, sync, unsent, loads, fails>>

-----------------------------------------------------------------------------
(* Writes.                                                                    *)

\* startNewSession: upsertSession.
StartSession ==
  /\ Ready(Leader) /\ Current < MaxIds /\ plan' = Append(plan, 0)
  /\ LET r == [id |-> Current + 1, at |-> clock', plan |-> 0, laps |-> 0] IN
     /\ local' = [local EXCEPT ![Leader] = Saved(@ \cup {r})]
     /\ pushes' = pushes \cup {Push(Leader, r)}

\* patchSession changes a record this browser has, and sends all of it.
PatchSession(d, id, r) ==
  /\ local' = [local EXCEPT ![d] = Saved((@ \ ById(@, id)) \cup {r})]
  /\ pushes' = pushes \cup {Push(d, r)}

EditPlan ==
  /\ Ready(Leader) /\ Current > 0 /\ plan' = [plan EXCEPT ![Current] = @ + 1]
  /\ \E r \in ById(local[Leader], Current) :
       PatchSession(Leader, Current, [r EXCEPT !.plan = plan'[Current], !.at = clock'])

LapDone(d) ==
  /\ Current > 0 /\ (d = Leader \/ Mirrors) /\ Ready(d)
  /\ \E r \in ById(local[d], Current) : PatchSession(d, Current, [r EXCEPT !.laps = @ + 1, !.at = clock'])
  /\ UNCHANGED plan

-----------------------------------------------------------------------------
(* Pushes: the worker stores what arrives, whatever its stamp.                *)

Stored(S, r) ==
  LET all == (S \ {s \in S : s.rec.id = r.id}) \cup {[rec |-> r, written |-> clock]} IN
  {s \in all : Cardinality({t \in all : t.written > s.written}) < ServerCap}

\* A push that comes late replaces a newer record, whosever that was.
Overtaken(r) == IF \E s \in server : s.rec.id = r.id /\ s.rec.at > r.at THEN Devices ELSE {}

PushArrives(p) ==
  /\ pushes' = pushes \ {p} /\ server' = Stored(server, p.rec) /\ clock' = clock + 1
  /\ unsent' = unsent \cup Overtaken(p.rec)
  /\ UNCHANGED <<local, sync, plan, count>>

\* It fails, or is stored and the answer lost, and is tried again.
PushFails(p) ==
  /\ fails < Fails /\ fails' = fails + 1
  /\ clock' = clock + 1
  /\ \E arrived \in BOOLEAN :
       /\ server' = IF arrived THEN Stored(server, p.rec) ELSE server
       /\ unsent' = unsent \cup (IF arrived THEN Overtaken(p.rec) ELSE {})
                           \cup (IF p.tries + 1 = Attempts THEN {p.by} ELSE {})
  /\ pushes' = (pushes \ {p}) \cup
                 (IF p.tries + 1 = Attempts THEN {} ELSE {[p EXCEPT !.tries = @ + 1]})
  /\ UNCHANGED <<local, sync, plan, edits, loads>>

-----------------------------------------------------------------------------
(* The merge when the page is loaded (syncRegistryWithServer).                *)

Load(d) ==
  /\ loads < Loads /\ loads' = loads + 1 /\ sync[d] = None /\ (Slow \/ pushes = {})
  /\ sync' = [sync EXCEPT ![d] = [copy |-> local[d], reply |-> None]]
  /\ UNCHANGED <<local, server, pushes, plan, unsent, clock, edits, fails>>

\* The worker answers, or cannot be reached and counts as empty.
LoadAnswered(d, ok) ==
  /\ sync[d] # None /\ sync[d].reply = None
  /\ sync' = [sync EXCEPT ![d].reply = IF ok THEN {s.rec : s \in server} ELSE {}]
  /\ ok \/ (BadLoads /\ fails < Fails)
  /\ fails' = IF ok THEN fails ELSE fails + 1
  /\ unsent' = IF ok THEN unsent \ {d} ELSE unsent
  /\ UNCHANGED <<local, server, pushes, plan, clock, edits, loads>>

Behind(r, S) == \A s \in ById(S, r.id) : r.at > s.at
\* Mutant: the worker's records are taken even where they are behind.
MergeAdopts(d) ==
  /\ sync[d] # None /\ sync[d].reply # None
  /\ LET mine == sync[d].copy
         theirs == sync[d].reply
         keep == {r \in mine : Behind(r, theirs)} IN
     /\ local' = [local EXCEPT ![d] = Saved(theirs \cup {r \in mine : ById(theirs, r.id) = {}})]
     /\ pushes' = pushes \cup {Push(d, r) : r \in keep}
  /\ sync' = [sync EXCEPT ![d] = None]
  /\ UNCHANGED <<server, plan, unsent, clock, count>>
Merge(d) ==
  /\ sync[d] # None /\ sync[d].reply # None
  /\ LET mine == sync[d].copy
         theirs == sync[d].reply
         keep == {r \in mine : Behind(r, theirs)}
         adopt == {s \in theirs : ById(keep, s.id) = {}} IN
     /\ local' = [local EXCEPT ![d] = Saved(adopt \cup keep)]
     /\ pushes' = pushes \cup {Push(d, r) : r \in keep}
  /\ sync' = [sync EXCEPT ![d] = None]
  /\ UNCHANGED <<server, plan, unsent, clock, count>>

Next == \/ StartSession \/ EditPlan
        \/ \E d \in Devices : LapDone(d) \/ Load(d) \/ Merge(d) \/ \E ok \in BOOLEAN : LoadAnswered(d, ok)
        \/ \E p \in pushes : PushArrives(p) \/ PushFails(p)

Spec == Init /\ [][Next]_vars

-----------------------------------------------------------------------------
Quiet == pushes = {} /\ \A d \in Devices : sync[d] = None

\* A record never goes back to an older version on a browser.
NeverOlder ==
    \A d \in Devices : \A r \in local[d], s \in local'[d] : r.id = s.id => s.at >= r.at

\* With nothing under way, the worker has every record of a browser, that new
\* or newer, unless one of its pushes was given up, or a late one replaced a newer
\* record, and the worker has answered no load of this browser since.
Converged ==
  Quiet => \A d \in Devices \ unsent : \A r \in Newest(local[d], ServerCap) :
             \E s \in server : s.rec.id = r.id /\ s.rec.at >= r.at

\* The worker's record of a session holds the leader's plan, with that exception.
PlanStored == (Quiet /\ Leader \notin unsent) => \A s \in server : s.rec.plan = plan[s.rec.id]

\* The session under way is never dropped from its leader's list.
CurrentKept == Current > 0 => ById(local[Leader], Current) # {}
=============================================================================
