---------------------------- MODULE LatchRegister ----------------------------
(***************************************************************************)
(* What the VCU's brake latch promises: a bit in RAM with a durable copy.  *)
(* The copy may lag behind the bit only while a write is owed, a write     *)
(* that leaves nothing owed leaves the two equal, and a power cycle brings *)
(* the bit back from the copy.                                             *)
(***************************************************************************)
VARIABLES
    latch,      \* the bit the control task works with
    durable,    \* what a boot would restore
    owed        \* a change has still to be written

rvars == <<latch, durable, owed>>

RInit ==
    /\ durable \in BOOLEAN
    /\ latch = durable
    /\ owed = FALSE

RChange ==
    /\ latch' = ~latch
    /\ owed' = TRUE
    /\ UNCHANGED durable

RWrite ==
    /\ owed
    /\ durable' \in BOOLEAN
    /\ owed' \in BOOLEAN
    /\ owed' \/ durable' = latch
    /\ UNCHANGED latch

\* A write that was under way may have completed.
RPowerCycle ==
    /\ durable' \in BOOLEAN
    /\ owed \/ durable' = durable
    /\ latch' = durable'
    /\ owed' = FALSE

RNext == RChange \/ RWrite \/ RPowerCycle

RSpec == RInit /\ [][RNext]_rvars

=============================================================================
