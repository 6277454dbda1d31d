------------------------------ MODULE FaultStore ------------------------------
(***************************************************************************)
(* How a change of the brake latch reaches flash: the hand-off from the    *)
(* control task to the telemetry task (control_loop.cpp, telemetry.cpp)    *)
(* and the journal in the reserved page (Board/fault_store.cpp).  The      *)
(* control task preempts the telemetry task between any two of its steps,  *)
(* flash operations may fail, and power may be lost at any point.          *)
(*                                                                         *)
(* A word is the set of its one bits.  Erasing sets every bit and          *)
(* programming only clears bits, so a program operation that is cut short  *)
(* leaves a record between the erased one and its target.                  *)
(***************************************************************************)
EXTENDS Naturals

CONSTANTS
    Bits,          \* bit positions of a 32-bit word
    kPersistedSet, \* the word that stands for a set latch
    kRecords,      \* records in the page
    DualBank,      \* the flash is in dual-bank mode
    EraseTears,    \* an erase cut short may leave some records erased
    FlashFails     \* flash operations may report an error

ASSUME StoreParams ==
    /\ kPersistedSet \subseteq Bits /\ kPersistedSet # {}
    /\ kRecords \in Nat \ {0}
    /\ {DualBank, EraseTears, FlashFails} \subseteq BOOLEAN

Slots == 0 .. kRecords - 1

Record == [lo : SUBSET Bits, hi : SUBSET Bits]

kErased == [lo |-> Bits, hi |-> Bits]

\* persisted_value: kPersistedSet for latched, zero for clear.
Word(latched) == IF latched THEN kPersistedSet ELSE {}

\* A value and its complement.
RecordOf(latched) == [lo |-> Word(latched), hi |-> Bits \ Word(latched)]

Valid(r) == r.lo = Bits \ r.hi

VARIABLES
    journal,    \* the page: [Slots -> Record]
    latch,      \* brake_latch_.latched_
    pending,    \* latch_save_pending_
    value,      \* latch_save_value_
    pc,         \* where the telemetry task is
    saving,     \* SaveFaultLatch's argument
    slot        \* the record it programs

vars == <<journal, latch, pending, value, pc, saving, slot>>

-----------------------------------------------------------------------------
\* Slip: the scan also stops at a torn record.
SlipScanned(j) ==
    {i \in Slots : \A k \in 0 .. i : j[k] # kErased /\ Valid(j[k])}

\* The records the boot scan looks at: those before the first erased one.
Scanned(j) == {i \in Slots : \A k \in 0 .. i : j[k] # kErased}

\* LoadFaultLatch and BrakeFlagLatch::Restore: whether the last valid record
\* scanned holds the word of a set latch.  Only this word and zero are ever
\* written, so that SaveFaultLatch's comparison of words is one of Booleans.
LoadFaultLatch(j) ==
    /\ DualBank
    /\ \E i \in Scanned(j) :
          /\ Valid(j[i]) /\ j[i].lo = kPersistedSet
          /\ \A k \in Scanned(j) : Valid(j[k]) => k <= i

FreeSlots(j) == {i \in Slots : j[i] = kErased}

\* What is left of record r when programming target into it is cut short.
Torn(r, target) ==
    {t \in Record : /\ target.lo \subseteq t.lo /\ t.lo \subseteq r.lo
                    /\ target.hi \subseteq t.hi /\ t.hi \subseteq r.hi}

Init ==
    /\ journal = [i \in Slots |-> kErased]
    /\ latch = FALSE
    /\ pending = FALSE
    /\ value = FALSE
    /\ pc = "idle"
    /\ saving = FALSE
    /\ slot = 0

-----------------------------------------------------------------------------
\* UpdateBrakeLatch, on a tick that changes the latch.
LatchChange ==
    /\ latch' = ~latch
    /\ value' = latch'
    /\ pending' = TRUE
    /\ UNCHANGED <<journal, pc, saving, slot>>

\* latch_save_pending_.exchange(false) returned true.
TakePending ==
    /\ pc = "idle"
    /\ pending
    /\ pending' = FALSE
    /\ pc' = "taken"
    /\ UNCHANGED <<journal, latch, value, saving, slot>>

\* SaveFaultLatch(latch_save_value_.load()), up to its first flash operation.
StartSave ==
    /\ pc = "taken"
    /\ saving' = value
    /\ \/ /\ ~DualBank \/ LoadFaultLatch(journal) = value
          /\ pc' = "idle"
          /\ UNCHANGED slot
       \/ /\ DualBank /\ LoadFaultLatch(journal) # value
          /\ FreeSlots(journal) = {}
          /\ pc' = "erase"
          /\ UNCHANGED slot
       \/ /\ DualBank /\ LoadFaultLatch(journal) # value
          /\ slot' \in FreeSlots(journal)
          /\ \A i \in FreeSlots(journal) : slot' <= i
          /\ pc' = "program"
    /\ UNCHANGED <<journal, latch, pending, value>>

ErasePage ==
    /\ pc = "erase"
    /\ \/ /\ journal' = [i \in Slots |-> kErased]
          /\ slot' = 0
          /\ pc' = "program"
       \/ /\ FlashFails
          /\ pc' = "idle"
          /\ UNCHANGED <<journal, slot>>
    /\ UNCHANGED <<latch, pending, value, saving>>

\* The status HAL_FLASH_Program returns is not looked at.
ProgramRecord ==
    /\ pc = "program"
    /\ \/ journal' = [journal EXCEPT ![slot] = RecordOf(saving)]
       \/ /\ FlashFails
          /\ \E t \in Torn(journal[slot], RecordOf(saving)) :
                journal' = [journal EXCEPT ![slot] = t]
    /\ pc' = "idle"
    /\ UNCHANGED <<latch, pending, value, saving, slot>>

\* What the page may hold after power was lost in the middle of a step.
Interrupted ==
    \/ UNCHANGED journal
    \/ /\ pc = "program"
       /\ \E t \in Torn(journal[slot], RecordOf(saving)) :
             journal' = [journal EXCEPT ![slot] = t]
    \/ /\ pc = "erase"
       /\ \E erased \in SUBSET Slots :
             /\ EraseTears \/ erased = Slots
             /\ journal' = [i \in Slots |-> IF i \in erased THEN kErased
                                                            ELSE journal[i]]

\* Slip: the latch is not restored.
SlipPowerCycle ==
    /\ Interrupted
    /\ latch' = FALSE
    /\ pending' = FALSE
    /\ value' = FALSE
    /\ pc' = "idle"
    /\ saving' = FALSE
    /\ slot' = 0

\* Power lost and back: main() restores the latch from the journal.
PowerCycle ==
    /\ Interrupted
    /\ latch' = LoadFaultLatch(journal')
    /\ pending' = FALSE
    /\ value' = FALSE
    /\ pc' = "idle"
    /\ saving' = FALSE
    /\ slot' = 0

Telemetry == TakePending \/ StartSave \/ ErasePage \/ ProgramRecord

Next == LatchChange \/ Telemetry \/ PowerCycle

Spec == Init /\ [][Next]_vars

\* The scheduler runs the telemetry task again and again.
FairSpec == Spec /\ WF_vars(Telemetry)

-----------------------------------------------------------------------------
(* Properties *)

\* Variables have their types, and the record about to be programmed is erased.
TypeOK ==
    /\ journal \in [Slots -> Record]
    /\ latch \in BOOLEAN
    /\ pending \in BOOLEAN
    /\ value \in BOOLEAN
    /\ saving \in BOOLEAN
    /\ pc \in {"idle", "taken", "erase", "program"}
    /\ slot \in Slots
    /\ pc = "program" => journal[slot] = kErased

\* Once telemetry has nothing left to write, a power cycle would bring the latch
\* back as it is: no change is lost between the exchange of the pending flag,
\* the read of the value and a change in between.
StoredWhenQuiet ==
    pc = "idle" /\ ~pending => LoadFaultLatch(journal) = latch

\* boards/VCU/README.md: the soft latch is stored in flash, so that a power cycle
\* does not clear it, at least once telemetry has nothing left to write.
KeptAcrossPowerCycle ==
    pc = "idle" /\ ~pending /\ latch => LoadFaultLatch(journal)

\* The journal and the hand-off implement a durable register: a boot never
\* reads anything but the last value written or, if a write was under way, its
\* target, whatever the page held and wherever power was lost.
Register == INSTANCE LatchRegister WITH
    durable <- LoadFaultLatch(journal),
    owed    <- pending \/ pc # "idle"

ImplementsRegister == Register!RSpec

\* A save whose program operation went through is what the next boot reads,
\* whatever torn or failed records lie in the page before it.
SaveGoesThrough ==
    pc = "program" /\ journal'[slot] = RecordOf(saving) =>
        LoadFaultLatch(journal') = saving

SaveTakes == [][SaveGoesThrough]_vars

\* A latch that stops changing is in flash in the end, for good.
EventuallyStored ==
    <>[][FALSE]_latch => <>[](LoadFaultLatch(journal) = latch)

=============================================================================
