----------------------------- MODULE BoundedFifo -----------------------------
(***************************************************************************)
(* What a CAN inbox promises: a queue of whole frames, first in first out, *)
(* which drops what does not fit and what is malformed, and counts it.     *)
(***************************************************************************)
EXTENDS Naturals, Sequences

CONSTANTS
    Frame,        \* frames that can be stored
    None,         \* no frame
    kDepth,       \* frames the queue can hold
    DropModulus   \* the counter of dropped frames wraps here

VARIABLES
    offered,      \* the frame the producer has accepted and not yet queued
    queue,
    received,     \* the frame last handed to the consumer
    dropped

fvars == <<offered, queue, received, dropped>>

FInit ==
    /\ offered = None
    /\ queue = <<>>
    /\ received = None
    /\ dropped = 0

FOffer ==
    /\ offered = None
    /\ Len(queue) < kDepth
    /\ offered' \in Frame
    /\ UNCHANGED <<queue, received, dropped>>

FPush ==
    /\ offered # None
    /\ queue' = Append(queue, offered)
    /\ offered' = None
    /\ UNCHANGED <<received, dropped>>

FDrop ==
    /\ dropped' = (dropped + 1) % DropModulus
    /\ UNCHANGED <<offered, queue, received>>

FPop ==
    /\ queue # <<>>
    /\ received' = Head(queue)
    /\ queue' = Tail(queue)
    /\ UNCHANGED <<offered, dropped>>

FNext == FOffer \/ FPush \/ FDrop \/ FPop

FSpec == FInit /\ [][FNext]_fvars

=============================================================================
