------------------------------ MODULE RacePlan ------------------------------
(***************************************************************************)
(* The race plan (laps, usable energy, cutoff voltage) every trackside     *)
(* page shows and anyone may edit: an edit is put to the server and        *)
(* suppresses adoption for 6 s; every page polls each 4 s and adopts what  *)
(* the server holds.  Calls are prompt: a put ends before the next key and *)
(* calls end within the 6 s.                                               *)
(***************************************************************************)
EXTENDS Integers, FiniteSets

CONSTANTS
    Clients, Mirrors,   \* the pages, and those that only follow
    Values,             \* values of a field that can be typed; 0 is an empty input
    MaxEdits,           \* bound: edits
    Offline,            \* a put may be lost
    None, Asked

RacePlanParams ==
    /\ Mirrors \subseteq Clients /\ Values \subseteq Nat
    /\ MaxEdits \in Nat /\ Offline \in BOOLEAN

Fields == {"laps", "budget", "cutoff"}

VARIABLES
    local, grace,   \* each page's plan; it was edited less than 6 s ago
    poll,           \* each page: None, Asked, or the plan the server answered
    puts,           \* plans on their way to the server
    server,
    typed,          \* history: what each page typed last, field by field
    editors, edits

vars == <<local, grace, poll, puts, server, typed, editors, edits>>

\* What pages show before the server was ever written, and the server's empty plan.
Stored == [f \in Fields |-> 1]
Unset == [f \in Fields |-> 0]

Init ==
    /\ local = [c \in Clients |-> Stored]
    /\ grace = [c \in Clients |-> FALSE]
    /\ poll = [c \in Clients |-> None]
    /\ puts = {} /\ server \in {Unset, Stored}
    /\ typed = [c \in Clients |-> <<>>]
    /\ editors = {} /\ edits = 0

\* An input changes: state, push.  The cutoff is never empty and not a mirror's.
Edit(c, f, v) ==
    /\ edits < MaxEdits /\ v # local[c][f]
    /\ \A p \in puts : p.by # c
    /\ f = "cutoff" => v # 0 /\ c \notin Mirrors
    /\ local' = [local EXCEPT ![c][f] = v]
    /\ grace' = [grace EXCEPT ![c] = TRUE]
    /\ puts' = puts \cup {[by |-> c, plan |-> local'[c]]}
    /\ typed' = [typed EXCEPT ![c] = [g \in DOMAIN @ \cup {f} |-> IF g = f THEN v ELSE @[g]]]
    /\ editors' = editors \cup {c}
    /\ edits' = edits + 1
    /\ UNCHANGED <<poll, server>>

GraceEnds(c) ==
    /\ grace[c]
    /\ poll[c] = None /\ \A p \in puts : p.by # c
    /\ grace' = [grace EXCEPT ![c] = FALSE]
    /\ UNCHANGED <<local, poll, puts, server, typed, editors, edits>>

\* PUT, or a put that is lost.
ServerPut(p) ==
    /\ p \in puts
    /\ puts' = puts \ {p}
    /\ \/ server' = p.plan
       \/ Offline /\ UNCHANGED server
    /\ UNCHANGED <<local, grace, poll, typed, editors, edits>>

Poll(c) ==
    /\ poll[c] = None
    /\ poll' = [poll EXCEPT ![c] = Asked]
    /\ UNCHANGED <<local, grace, puts, server, typed, editors, edits>>

ServerGet(c) ==
    /\ poll[c] = Asked
    /\ poll' = [poll EXCEPT ![c] = server]
    /\ UNCHANGED <<local, grace, puts, server, typed, editors, edits>>

\* Mutant: only a plan with other laps is looked at.
AdoptLaps(c, p) == IF p["laps"] = local[c]["laps"] THEN local[c] ELSE p

\* onRemote: laps as they are, the others unless unset.
Adopt(c, p) == [f \in Fields |-> IF f = "laps" \/ p[f] > 0 THEN p[f] ELSE local[c][f]]

Polled(c) ==
    /\ poll[c] \notin {None, Asked}
    /\ poll' = [poll EXCEPT ![c] = None]
    /\ local' = IF grace[c] THEN local ELSE [local EXCEPT ![c] = Adopt(c, poll[c])]
    /\ UNCHANGED <<grace, puts, server, typed, editors, edits>>

Next ==
    \/ \E c \in Clients : \/ GraceEnds(c) \/ Poll(c) \/ ServerGet(c) \/ Polled(c)
                          \/ \E f \in Fields, v \in Values : Edit(c, f, v)
    \/ \E p \in puts : ServerPut(p)

\* Timers fire and calls end.
Fairness ==
    /\ \A c \in Clients : SF_vars(GraceEnds(c)) /\ WF_vars(Poll(c)) /\ WF_vars(ServerGet(c))
                          /\ WF_vars(Polled(c))
    /\ WF_vars(\E p \in puts : ServerPut(p))

Spec == Init /\ [][Next]_vars /\ Fairness

-----------------------------------------------------------------------------
(* Properties *)

\* The plan is one for all pages: when editing is over they come to show the same.
OnePlan == <>[](\A c, d \in Clients : local[c] = local[d])

\* A poll never takes back what the only editor of the plan has typed.
TypedStays ==
    \A c \in Clients : editors = {c} => \A f \in DOMAIN typed[c] : local[c][f] = typed[c][f]
=============================================================================
