---------------------------- MODULE SessionCache ----------------------------
(***************************************************************************)
(* Where a trackside session survives a reload: localStorage (at once),    *)
(* IndexedDB (later, in order) and the server's session-cache file (posts  *)
(* and deletes that are lost or overtake each other).  A page that loads   *)
(* reads the three in turn and restores the newest copy saved after the    *)
(* operator's last Stop; mirrors adopt the shared copy by polling it.      *)
(*                                                                         *)
(* A session is its identity and its number of laps; savedAt stamps are    *)
(* distinct.  Roles come from the presence route: a page acts as leader    *)
(* until its first answer.                                                 *)
(***************************************************************************)
EXTENDS Naturals, Sequences, SequencesExt, FiniteSets, FiniteSetsExt

CONSTANTS
    Clients,
    Leader,        \* the leader's browser
    EarlyPress,    \* the operator may press before the load has ended
    MaxSessions,   \* bound: sessions started
    MaxLaps,       \* bound: laps of a session
    MaxSaves,      \* bound: saves other than those the actions below make
    MaxReloads,    \* bound: pages closed
    MaxFlags,      \* bound: flags whose post is awaited
    MaxLosses      \* bound: requests lost

CacheParams ==
    /\ Leader \in Clients
    /\ EarlyPress \in BOOLEAN
    /\ {MaxSessions, MaxLaps, MaxSaves, MaxReloads, MaxFlags, MaxLosses} \subseteq Nat

VARIABLES
    clock,     \* newest savedAt or endedAt stamp
    page,      \* closed, local, indexed (what a load has read so far) or ready
    mem,       \* the session shown
    found,     \* copies read by a load under way
    local, indexed, ended,  \* localStorage copy, IndexedDB copy, ended marker
    idbQueue,  \* IndexedDB transactions under way
    backend,   \* the session-cache file
    net,       \* posts and deletes in flight
    flagging,  \* the session of a flag whose post is awaited, 0 if none
    mirror,    \* pages that are read-only
    stopped,   \* history: sessions ended by Stop or Reset
    budget     \* bounds: what is left of each

vars == <<clock, page, mem, found, local, indexed, ended, idbQueue, backend, net,
          flagging, mirror, stopped, budget>>

Empty == [sess |-> 0, laps |-> 0]
NoDoc == [sess |-> 0, laps |-> 0, at |-> 0]
DocOf(m, at) == [sess |-> m.sess, laps |-> m.laps, at |-> at]

Spend(what) == budget[what] > 0 /\ budget' = [budget EXCEPT ![what] = @ - 1]

Up(c) == page[c] # "closed"

\* The operator presses a button of a page that is not read-only.
Presses(c) ==
    /\ IF EarlyPress THEN Up(c) ELSE page[c] = "ready"
    /\ c \notin mirror

\* persistLiveSession of the session m, stamped now: the three stores are written,
\* the server's by a page that is not a mirror, after the requests sent before.
Persist(c, m, before) ==
    LET doc == DocOf(m, clock + 1)
    IN  /\ clock' = clock + 1
        /\ local' = [local EXCEPT ![c] = doc]
        /\ net' = net \cup before
                      \cup (IF c \in mirror THEN {}
                            ELSE {[op |-> "post", by |-> c, doc |-> doc]})

\* removeIndexedSavedSession and writeIndexedSavedSession only queue.
Queue(c, docs) == idbQueue' = [idbQueue EXCEPT ![c] = @ \o docs]

Delete(c) == [op |-> "delete", by |-> c, doc |-> NoDoc]

\* The throttled checkpoint while a session is shown.
Autosave(c) ==
    /\ Up(c)
    /\ mem[c].sess # 0
    /\ Spend("saves")
    /\ Persist(c, mem[c], {})
    /\ Queue(c, <<DocOf(mem[c], clock + 1)>>)
    /\ UNCHANGED <<page, mem, found, indexed, ended, backend, flagging, mirror, stopped>>

LogLap(c) ==
    LET m == [mem[c] EXCEPT !.laps = @ + 1]
    IN  /\ Presses(c)
        /\ mem[c].sess # 0 /\ mem[c].laps < MaxLaps
        /\ mem' = [mem EXCEPT ![c] = m]
        /\ Persist(c, m, {})
        /\ Queue(c, <<DocOf(m, clock + 1)>>)
        /\ UNCHANGED <<page, found, indexed, ended, backend, flagging, mirror, stopped, budget>>

\* startNewSession: the caches are cleared, the marker dropped, and the commit
\* that follows saves the new session.
StartNewSession(c) ==
    LET m == [sess |-> MaxSessions + 1 - budget["sessions"], laps |-> 0]
    IN  /\ Presses(c)
        /\ Spend("sessions")
        /\ mem' = [mem EXCEPT ![c] = m]
        /\ ended' = [ended EXCEPT ![c] = 0]
        /\ Persist(c, m, {Delete(c)})
        /\ Queue(c, <<NoDoc, DocOf(m, clock + 1)>>)
        /\ UNCHANGED <<page, found, indexed, backend, flagging, mirror, stopped>>

\* Mutant: the synchronous marker is not written.
StopUnmarked(c) ==
    /\ Presses(c)
    /\ mem[c].sess # 0
    /\ mem' = [mem EXCEPT ![c] = Empty]
    /\ local' = [local EXCEPT ![c] = NoDoc]
    /\ Queue(c, <<NoDoc>>)
    /\ net' = net \cup {Delete(c)}
    /\ stopped' = stopped \cup {mem[c].sess}
    /\ UNCHANGED <<clock, ended, page, found, indexed, backend, flagging, mirror, budget>>

\* stopEventAndDownload and resetLiveSession
Stop(c) ==
    /\ Presses(c)
    /\ mem[c].sess # 0
    /\ ended' = [ended EXCEPT ![c] = clock]
    /\ mem' = [mem EXCEPT ![c] = Empty]
    /\ local' = [local EXCEPT ![c] = NoDoc]
    /\ Queue(c, <<NoDoc>>)
    /\ net' = net \cup {Delete(c)}
    /\ stopped' = stopped \cup {mem[c].sess}
    /\ UNCHANGED <<clock, page, found, indexed, backend, flagging, mirror, budget>>

\* eventFlag up to its await; the local save of the flag is an Autosave.
Flag(c) ==
    /\ Presses(c)
    /\ mem[c].sess # 0 /\ flagging[c] = 0
    /\ Spend("flags")
    /\ flagging' = [flagging EXCEPT ![c] = mem[c].sess]
    /\ UNCHANGED <<clock, page, mem, found, local, indexed, ended, idbQueue, backend,
                   net, mirror, stopped>>

\* ... and after it: the state of now is saved under the session of then.
FlagAnswer(c) ==
    LET m == [sess |-> flagging[c], laps |-> mem[c].laps]
    IN  /\ Up(c)
        /\ flagging[c] # 0
        /\ flagging' = [flagging EXCEPT ![c] = 0]
        /\ Persist(c, m, {})
        /\ Queue(c, <<DocOf(m, clock + 1)>>)
        /\ UNCHANGED <<page, mem, found, indexed, ended, backend, mirror,
                       stopped, budget>>

\* pagehide: a last save, and the page's deletes may die with it; its beacons and
\* IndexedDB transactions do not.
Hide(c) ==
    /\ Up(c)
    /\ Spend("reloads")
    /\ page' = [page EXCEPT ![c] = "closed"]
    /\ flagging' = [flagging EXCEPT ![c] = 0]
    /\ IF mem[c].sess # 0
       THEN Persist(c, mem[c], {}) /\ Queue(c, <<DocOf(mem[c], clock + 1)>>)
       ELSE /\ \E killed \in SUBSET {r \in net : r.op = "delete" /\ r.by = c} :
                  net' = net \ killed
            /\ UNCHANGED <<clock, local, idbQueue>>
    /\ UNCHANGED <<mem, found, indexed, ended, backend, mirror, stopped>>

-----------------------------------------------------------------------------
(* Loading *)

\* localStorage is read at once; the page acts as leader until told otherwise.
Load(c) ==
    /\ page[c] = "closed"
    /\ page' = [page EXCEPT ![c] = "local"]
    /\ mem' = [mem EXCEPT ![c] = Empty]
    /\ found' = [found EXCEPT ![c] = {local[c]}]
    /\ mirror' = mirror \ {c}
    /\ UNCHANGED <<clock, local, indexed, ended, idbQueue, backend, net, flagging, stopped, budget>>

ReadIndexed(c) ==
    /\ page[c] = "local"
    /\ page' = [page EXCEPT ![c] = "indexed"]
    /\ found' = [found EXCEPT ![c] = @ \cup {indexed[c]}]
    /\ UNCHANGED <<clock, mem, local, indexed, ended, idbQueue, backend, net, flagging, mirror, stopped, budget>>

\* The most recently saved copy.
Offer(docs) == CHOOSE d \in docs : \A e \in docs : d.at >= e.at

\* The backend answers, or not at all, and the newest copy saved after the marker
\* replaces whatever the page shows by now.
Decide(c) ==
    /\ page[c] = "indexed"
    /\ page' = [page EXCEPT ![c] = "ready"]
    /\ found' = [found EXCEPT ![c] = {}]
    /\ \E answer \in {{backend}, {}} :
          LET docs == {d \in found[c] \cup answer : d.sess # 0 /\ d.at > ended[c]}
          IN  IF docs = {} THEN UNCHANGED <<mem, ended>>
              ELSE /\ mem' = [mem EXCEPT ![c] = [sess |-> Offer(docs).sess,
                                                 laps |-> Offer(docs).laps]]
                   /\ ended' = [ended EXCEPT ![c] = 0]
    /\ UNCHANGED <<clock, local, indexed, idbQueue, backend, net, flagging, mirror, stopped, budget>>

\* An IndexedDB transaction commits.
IdbCommit(c) ==
    /\ idbQueue[c] # <<>>
    /\ indexed' = [indexed EXCEPT ![c] = Head(idbQueue[c])]
    /\ idbQueue' = [idbQueue EXCEPT ![c] = Tail(@)]
    /\ UNCHANGED <<clock, page, mem, found, local, ended, backend, net, flagging, mirror, stopped, budget>>

\* The session-cache route: the file is replaced or removed.
Deliver(r) ==
    /\ r \in net
    /\ net' = net \ {r}
    /\ backend' = r.doc
    /\ UNCHANGED <<clock, page, mem, found, local, indexed, ended, idbQueue, flagging, mirror, stopped, budget>>

Lose(r) ==
    /\ r \in net
    /\ Spend("losses")
    /\ net' = net \ {r}
    /\ UNCHANGED <<clock, page, mem, found, local, indexed, ended, idbQueue, backend,
                   flagging, mirror, stopped>>

-----------------------------------------------------------------------------
(* Mirrors *)

\* A presence answer.
Beat(c) ==
    /\ Up(c)
    /\ mirror' = IF c = Leader THEN mirror \ {c} ELSE mirror \cup {c}
    /\ UNCHANGED <<clock, page, mem, found, local, indexed, ended, idbQueue, backend,
                   net, flagging, stopped, budget>>

\* The mirror's poll and adoptSharedSession; a missing file changes nothing.
Poll(c) ==
    /\ Up(c) /\ c \in mirror
    /\ backend.sess # 0
    /\ mem' = [mem EXCEPT ![c] = [sess |-> backend.sess, laps |-> backend.laps]]
    /\ UNCHANGED <<clock, page, found, local, indexed, ended, idbQueue, backend, net,
                   flagging, mirror, stopped, budget>>

-----------------------------------------------------------------------------

Init ==
    /\ clock = 0 /\ backend = NoDoc /\ net = {} /\ stopped = {} /\ mirror = {}
    /\ page = [c \in Clients |-> "closed"]
    /\ mem = [c \in Clients |-> Empty]
    /\ found = [c \in Clients |-> {}]
    /\ local = [c \in Clients |-> NoDoc]
    /\ indexed = [c \in Clients |-> NoDoc]
    /\ ended = [c \in Clients |-> 0]
    /\ idbQueue = [c \in Clients |-> <<>>]
    /\ flagging = [c \in Clients |-> 0]
    /\ budget = [sessions |-> MaxSessions, saves |-> MaxSaves, reloads |-> MaxReloads,
                 flags |-> MaxFlags, losses |-> MaxLosses]

Next ==
    \/ \E c \in Clients :
          \/ Autosave(c) \/ LogLap(c) \/ StartNewSession(c) \/ Stop(c)
          \/ Flag(c) \/ FlagAnswer(c) \/ Hide(c)
          \/ Load(c) \/ ReadIndexed(c) \/ Decide(c) \/ IdbCommit(c)
          \/ Beat(c) \/ Poll(c)
    \/ \E r \in net : Deliver(r)
    \/ \E r \in net : Lose(r)

\* Timers fire, requests arrive, transactions commit.
Fairness ==
    /\ \A c \in Clients :
          /\ WF_vars(Load(c)) /\ WF_vars(ReadIndexed(c)) /\ WF_vars(Decide(c))
          /\ WF_vars(Beat(c)) /\ WF_vars(Poll(c))
    /\ WF_vars(\E r \in net : Deliver(r))

Spec == Init /\ [][Next]_vars /\ Fairness

-----------------------------------------------------------------------------
(* Properties *)

\* A browser that stopped a session never restores it, whichever store still holds
\* a copy: the marker outlives deletes that are late, lost or killed by the reload.
EndedNotRestored ==
    \A c \in Clients :
        (page[c] = "indexed" /\ page'[c] = "ready") =>
            mem'[c] = mem[c] \/ mem'[c].sess \notin stopped

\* A reload loses nothing: the page comes back with the session and every lap that
\* the closed page showed, unless a session was started while it loaded.
ReloadKeepsLaps ==
    \A c \in Clients :
        (page[c] = "indexed" /\ page'[c] = "ready" /\ local[c] \in found[c]
         /\ local[c].sess # 0) =>
            mem'[c].sess = local[c].sess /\ mem'[c].laps = local[c].laps

\* Mirrors follow: once the requests have been delivered, every mirror shows the
\* shared session with the laps of the shared copy.
MirrorsFollow ==
    <>[](\A c \in mirror :
            backend.sess # 0 => mem[c] = [sess |-> backend.sess, laps |-> backend.laps])

=============================================================================
