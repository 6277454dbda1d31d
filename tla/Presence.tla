------------------------------ MODULE Presence ------------------------------
(***************************************************************************)
(* Who leads a trackside session.  The server (api/motec/live/presence)    *)
(* seats up to MAX_CLIENTS browsers in the order they claimed a seat; the  *)
(* designated client, or else the first seat, is the leader and owns the   *)
(* session, the others mirror it.  Browsers (usePresence) post heartbeats  *)
(* and commands and apply whatever snapshot comes back.                    *)
(*                                                                         *)
(* Posts and answers are in flight separately: they are lost, and overtake *)
(* one another.  Time is abstracted to the set of seats silent for more    *)
(* than TTL_MS, claim times (distinct) to the order in which seats were    *)
(* claimed.                                                                *)
(***************************************************************************)
EXTENDS Naturals, FiniteSets

CONSTANTS
    Clients,        \* browsers, each with its own stored client id
    Admins,         \* those whose token says isAdmin
    Starter,        \* the browser that started the session
    MAX_CLIENTS,    \* seats
    MaxInFlight,    \* bound: posts and answers of one browser in flight
    MaxTrouble,     \* bound: commands, losses, sleeps, reloads and restarts
    None            \* no client

PresenceParams ==
    /\ Admins \subseteq Clients
    /\ Starter \in Clients
    /\ MAX_CLIENTS \in Nat \ {0}
    /\ MaxInFlight \in Nat \ {0}
    /\ MaxTrouble \in Nat
    /\ None \notin Clients

Commands ==
    {"beat", "leave", "force", "request", "grant", "deny", "lock", "unlock",
     "take", "claim_starter"}

VARIABLES
    server,   \* seats, earlier, silent, requests, designated and locked of the route
    forcing,  \* clients whose force waits for getToken
    view,     \* what each browser shows
    open,     \* browsers with the page open
    posts,    \* requests in flight
    answers,  \* snapshots in flight
    trouble   \* disturbances still to come

vars == <<server, forcing, view, open, posts, answers, trouble>>

EmptyServer ==
    [seats |-> {}, earlier |-> {}, silent |-> {}, requests |-> {},
     designated |-> None, locked |-> FALSE]

FreshView ==
    [role |-> "connecting", isMirror |-> FALSE, requests |-> {},
     requested |-> FALSE, locked |-> FALSE, leaderAway |-> FALSE]

\* The seat claimed first: <<c, d>> is in earlier when c claimed before d.
First(seats, earlier) ==
    CHOOSE c \in seats : \A d \in seats \ {c} : <<c, d>> \in earlier

-----------------------------------------------------------------------------
(* The route *)

\* Only these keep their seats; a designated client without one is demoted.
Among(s, seats, locked) ==
    [seats      |-> seats,
     earlier    |-> s.earlier \cap (seats \X seats),
     silent     |-> s.silent \cap seats,
     requests   |-> s.requests \cap seats,
     designated |-> IF s.designated \in seats THEN s.designated ELSE None,
     locked     |-> locked]

\* Mutant: the lock is not consulted.
PruneEveryone(s) == Among(s, s.seats \ s.silent, s.locked)

\* Drop seats silent for longer than the TTL, except a locked leader's.
Prune(s) ==
    LET kept == {c \in s.seats : \/ c \notin s.silent
                                 \/ s.locked /\ c = s.designated}
    IN  Among(s, kept, s.locked /\ (s.designated = None \/ s.designated \in kept))

LeaderId(s) ==
    IF s.designated \in s.seats THEN s.designated
    ELSE IF s.seats = {} THEN None ELSE First(s.seats, s.earlier)

LeaderAway(s) ==
    s.locked /\ (LeaderId(s) \notin s.seats \/ LeaderId(s) \in s.silent)

\* A locked leader that leaves keeps its seat and shows as away.
Leave(s, c) ==
    IF s.locked /\ s.designated = c
    THEN [s EXCEPT !.requests = @ \ {c}, !.silent = @ \cup ({c} \cap s.seats)]
    ELSE Among(s, s.seats \ {c}, s.locked)

\* The poster's seat, taken or refreshed.
Claim(s, c) ==
    IF c \in s.seats THEN [s EXCEPT !.silent = @ \ {c}]
    ELSE [s EXCEPT !.seats = @ \cup {c}, !.earlier = @ \cup (s.seats \X {c})]

Designate(s, c) == [s EXCEPT !.designated = c, !.requests = @ \ {c}]

\* The commands other than force.
Act(s, c, action, target) ==
    LET leader == LeaderId(s)
    IN  CASE action = "request" /\ c # leader ->
                [s EXCEPT !.requests = @ \cup {c}]
          [] action = "grant" /\ c = leader /\ target \in s.seats ->
                Designate(s, target)
          [] action = "deny" /\ c = leader ->
                [s EXCEPT !.requests = @ \ {target}]
          [] action = "lock" /\ c = leader ->
                [s EXCEPT !.designated = c, !.locked = TRUE]
          [] action = "unlock" /\ c = leader ->
                [s EXCEPT !.locked = FALSE]
          [] action = "take" /\ LeaderAway(s) ->
                Designate(s, c)
          [] action = "claim_starter" /\ (~s.locked \/ LeaderAway(s)) ->
                Designate(s, c)
          [] OTHER -> s

Snapshot(s, c) ==
    [client |-> c,
     role |-> IF LeaderId(s) = c THEN "leader" ELSE "mirror",
     requests |-> s.requests, requested |-> c \in s.requests,
     locked |-> s.locked, leaderAway |-> LeaderAway(s)]

FullAnswer(c) ==
    [client |-> c, role |-> "full", requests |-> {}, requested |-> FALSE,
     locked |-> FALSE, leaderAway |-> FALSE]

ServeLeave(m) ==
    /\ m \in posts
    /\ m.action = "leave"
    /\ posts' = posts \ {m}
    /\ server' = Leave(Prune(server), m.client)
    /\ UNCHANGED <<forcing, view, open, answers, trouble>>

ServeFull(m) ==
    LET s == Prune(server)
    IN  /\ m \in posts
        /\ m.action # "leave"
        /\ m.client \notin s.seats
        /\ Cardinality(s.seats) >= MAX_CLIENTS
        /\ posts' = posts \ {m}
        /\ server' = s
        /\ answers' = answers \cup {FullAnswer(m.client)}
        /\ UNCHANGED <<forcing, view, open, trouble>>

ServeSeated(m) ==
    LET s == Prune(server)
        t == Claim(s, m.client)
        u == Act(t, m.client, m.action, m.target)
    IN  /\ m \in posts
        /\ m.action # "leave"
        /\ m.client \in s.seats \/ Cardinality(s.seats) < MAX_CLIENTS
        /\ posts' = posts \ {m}
        /\ IF m.action = "force"
           THEN /\ forcing' = forcing \cup {m.client}
                /\ server' = t
                /\ UNCHANGED answers
           ELSE /\ server' = u
                /\ answers' = answers \cup {Snapshot(u, m.client)}
                /\ UNCHANGED forcing
        /\ UNCHANGED <<view, open, trouble>>

\* getToken resolves: whatever happened meanwhile, an admin is designated.
FinishForce(c) ==
    LET s == IF c \in Admins THEN Designate(server, c) ELSE server
    IN  /\ c \in forcing
        /\ forcing' = forcing \ {c}
        /\ server' = s
        /\ answers' = answers \cup {Snapshot(s, c)}
        /\ UNCHANGED <<view, open, posts, trouble>>

-----------------------------------------------------------------------------
(* The browser *)

InFlight(c) ==
    Cardinality({m \in posts : m.client = c /\ m.action # "leave"})
    + Cardinality({a \in answers : a.client = c})
    + Cardinality(forcing \cap {c})

Send(c, action, target) ==
    /\ c \in open
    /\ InFlight(c) < MaxInFlight
    /\ posts' = posts \cup {[client |-> c, action |-> action, target |-> target]}
    /\ UNCHANGED <<server, forcing, view, open, answers>>

\* The interval timer, a page that wakes up, a new display name.
Heartbeat(c) == Send(c, "beat", None) /\ UNCHANGED trouble

\* The buttons: which are shown depends on what the browser believes.
Press(c, action, target) ==
    LET v == view[c]
    IN  /\ \/ action = "take" /\ v.isMirror /\ v.leaderAway
           \/ action = "force" /\ v.isMirror /\ ~v.leaderAway /\ c \in Admins
           \/ /\ action = "request"
              /\ v.isMirror /\ ~v.leaderAway /\ v.role # "full" /\ ~v.requested
           \/ action = "claim_starter" /\ v.isMirror /\ c = Starter
           \/ action = "lock" /\ ~v.isMirror /\ ~v.locked
           \/ action = "unlock" /\ ~v.isMirror /\ v.locked
           \/ action \in {"grant", "deny"} /\ ~v.isMirror /\ target \in v.requests
        /\ (action \notin {"grant", "deny"}) => target = None
        /\ trouble > 0
        /\ trouble' = trouble - 1
        /\ Send(c, action, target)

\* Mutant: a promoted mirror stays read-only.
ApplySticky(a) ==
    /\ a \in answers
    /\ answers' = answers \ {a}
    /\ view' = IF a.client \in open
               THEN [view EXCEPT ![a.client] =
                       [role |-> a.role,
                        isMirror |-> @.isMirror \/ a.role # "leader",
                        requests |-> a.requests, requested |-> a.requested,
                        locked |-> a.locked, leaderAway |-> a.leaderAway]]
               ELSE view
    /\ UNCHANGED <<server, forcing, open, posts, trouble>>

\* apply(): the snapshot replaces the view, however old it is.
Apply(a) ==
    /\ a \in answers
    /\ answers' = answers \ {a}
    /\ view' = IF a.client \in open
               THEN [view EXCEPT ![a.client] =
                       [role |-> a.role,
                        isMirror |-> a.role \in {"mirror", "full"},
                        requests |-> a.requests, requested |-> a.requested,
                        locked |-> a.locked, leaderAway |-> a.leaderAway]]
               ELSE view
    /\ UNCHANGED <<server, forcing, open, posts, trouble>>

\* The catch of post(): the request or its answer is lost, and the browser
\* fails open.
FailOpen(c) ==
    view' = [view EXCEPT ![c].role = IF @ = "connecting" THEN "leader" ELSE @,
                         ![c].isMirror = FALSE]

Lose ==
    /\ trouble > 0
    /\ trouble' = trouble - 1
    /\ \/ \E m \in posts :
             /\ posts' = posts \ {m}
             /\ IF m.action # "leave" /\ m.client \in open
                THEN FailOpen(m.client) ELSE UNCHANGED view
             /\ UNCHANGED answers
       \/ \E a \in answers :
             /\ answers' = answers \ {a}
             /\ IF a.client \in open THEN FailOpen(a.client) ELSE UNCHANGED view
             /\ UNCHANGED posts
    /\ UNCHANGED <<server, forcing, open>>

\* beforeunload: the leave beacon is sent and the page is gone.
Close(c) ==
    /\ c \in open
    /\ trouble > 0
    /\ trouble' = trouble - 1
    /\ open' = open \ {c}
    /\ posts' = posts \cup {[client |-> c, action |-> "leave", target |-> None]}
    /\ view' = [view EXCEPT ![c] = FreshView]
    /\ UNCHANGED <<server, forcing, answers>>

\* The page loads under the stored client id; answers to the old page go nowhere.
Open(c) ==
    /\ c \notin open
    /\ trouble > 0
    /\ trouble' = trouble - 1
    /\ open' = open \cup {c}
    /\ posts' = posts \cup {[client |-> c, action |-> "beat", target |-> None]}
    /\ answers' = {a \in answers : a.client # c}
    /\ UNCHANGED <<server, forcing, view>>

\* A seat goes silent: a closed page stays silent, a sleeping phone may wake.
Elapse(c) ==
    /\ c \in server.seats \ server.silent
    /\ IF c \in open
       THEN trouble > 0 /\ trouble' = trouble - 1
       ELSE UNCHANGED trouble
    /\ server' = [server EXCEPT !.silent = @ \cup {c}]
    /\ UNCHANGED <<forcing, view, open, posts, answers>>

\* The state is in-process: a restart forgets it.
Restart ==
    /\ trouble > 0
    /\ trouble' = trouble - 1
    /\ server' = EmptyServer
    /\ forcing' = {}
    /\ UNCHANGED <<view, open, posts, answers>>

-----------------------------------------------------------------------------

Init ==
    /\ server = EmptyServer
    /\ forcing = {}
    /\ view = [c \in Clients |-> FreshView]
    /\ open = Clients
    /\ posts = {}
    /\ answers = {}
    /\ trouble = MaxTrouble

Serve(m) == ServeLeave(m) \/ ServeFull(m) \/ ServeSeated(m)

Next ==
    \/ \E m \in posts : ServeLeave(m)
    \/ \E m \in posts : ServeFull(m)
    \/ \E m \in posts : ServeSeated(m)
    \/ \E c \in Clients : FinishForce(c)
    \/ \E c \in Clients : Heartbeat(c)
    \/ \E c \in Clients, action \in Commands, target \in Clients \cup {None} :
          Press(c, action, target)
    \/ \E a \in answers : Apply(a)
    \/ Lose
    \/ \E c \in Clients : Close(c)
    \/ \E c \in Clients : Open(c)
    \/ \E c \in Clients : Elapse(c)
    \/ Restart

\* Timers fire, requests and answers arrive, and silence grows old by itself.
Fairness ==
    /\ \A c \in Clients :
          /\ WF_vars(Heartbeat(c))
          /\ WF_vars(\E m \in posts : m.client = c /\ Serve(m))
          /\ WF_vars(\E a \in answers : a.client = c /\ Apply(a))
          /\ WF_vars(FinishForce(c))
          /\ WF_vars(c \notin open /\ Elapse(c))

Spec == Init /\ [][Next]_vars /\ Fairness

-----------------------------------------------------------------------------
(* Properties *)

\* A locked leader keeps its seat: while the lock holds, leadership moves only
\* because the leader granted it, because the leader was away and another client
\* took or reclaimed it, or because an admin forced it; a force for a client that
\* has lost its seat ends the lock, which the new leader may set again.  Silence, a
\* reload of the leader's page, a late beacon and the pruning of others never move
\* the leadership.
LockHolds ==
    (server.locked /\ server'.locked /\ LeaderId(server') # LeaderId(server)) =>
        \/ \E m \in posts :
              /\ m \notin posts'
              /\ \/ m.action = "grant" /\ m.client = LeaderId(server)
                 \/ /\ m.action \in {"take", "claim_starter"}
                    /\ LeaderId(server) \in server.silent
                 \/ m.action = "lock" /\ server.designated \notin server.seats
        \/ \E c \in forcing \cap Admins : c \notin forcing'

\* When the disturbances end, exactly the browser that the server calls leader is
\* in control, and every other page is read-only; nobody is in control only while
\* a locked leader is away.
Settles ==
    <>[](LET leader == LeaderId(server)
         IN  /\ {c \in open : ~view[c].isMirror} = open \cap {leader}
             /\ (open # {} /\ leader \notin open) => server.locked)

=============================================================================
