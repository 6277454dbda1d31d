-------------------------- MODULE FaultStoreProofs --------------------------
(***************************************************************************)
(* The journal and its hand-off, for every page size, word width and       *)
(* placement of power losses; then the board, whose supervisor and inbox   *)
(* have their proofs in VcuSupervisor and CanInbox.                        *)
(***************************************************************************)
EXTENDS VcuBoard, TLAPS

\* The page is a prefix of used records followed by erased ones: what the boot
\* scan, which stops at the first erased record, relies on.
Packed ==
    \A i, k \in Slots : i < k /\ journal[i] = kErased => journal[k] = kErased

\* The record to be programmed is the first erased one.
AtFirstFree ==
    pc = "program" => /\ journal[slot] = kErased
                      /\ \A i \in Slots : i < slot => journal[i] # kErased

JournalInv == TypeOK /\ (~EraseTears => Packed /\ AtFirstFree)

-----------------------------------------------------------------------------
\* A complete record is never the erased pattern.
LEMMA RecordNotErased ==
  ASSUME NEW v \in BOOLEAN
  PROVE  /\ RecordOf(v) \in Record
         /\ RecordOf(v) # kErased
         /\ Valid(RecordOf(v))
BY StoreParams, SMT DEF RecordOf, Record, kErased, Word, Valid

\* A record whose programming was cut short is either complete or invalid, so a
\* boot never takes a half-written value for a value.
LEMMA TornIsInvalid ==
  ASSUME NEW v \in BOOLEAN, NEW t \in Torn(kErased, RecordOf(v)), Valid(t)
  PROVE  t = RecordOf(v)
BY StoreParams, SMT DEF Torn, RecordOf, Record, kErased, Word, Valid

\* LoadFaultLatch reads a record that was programmed into the first erased slot.
LEMMA AppendedIsLoaded ==
  ASSUME NEW j \in [Slots -> Record], NEW s \in Slots, NEW v \in BOOLEAN,
         j[s] = RecordOf(v),
         \A i \in Slots : i < s => j[i] # kErased,
         \A i \in Slots : s < i => j[i] = kErased,
         DualBank
  PROVE  LoadFaultLatch(j) = v
<1>1. /\ j[s] # kErased
      /\ Valid(j[s])
  BY RecordNotErased
<1>2. \A i \in Slots : i \in Scanned(j) <=> i <= s
  BY <1>1, StoreParams DEF Scanned, Slots
<1>3. (j[s].lo = kPersistedSet) <=> v
  BY StoreParams DEF RecordOf, Word
<1>4. \A i \in Scanned(j) :
        (/\ Valid(j[i])
         /\ \A k \in Scanned(j) : Valid(j[k]) => k <= i)
        => i = s
  BY <1>1, <1>2, StoreParams DEF Scanned, Slots
<1>5. \A k \in Scanned(j) : k <= s
  BY <1>2 DEF Scanned
<1>6. s \in Scanned(j)
  BY <1>2, StoreParams DEF Slots
<1>7. LoadFaultLatch(j) \in BOOLEAN
  BY DEF LoadFaultLatch
<1>. QED  BY <1>1, <1>3, <1>4, <1>5, <1>6, <1>7 DEF LoadFaultLatch

LEMMA TornIsRecord ==
  ASSUME NEW r \in Record, NEW v \in BOOLEAN, NEW t \in Torn(r, RecordOf(v))
  PROVE  t \in Record
BY DEF Torn

LEMMA ErasedIsRecord == kErased \in Record
BY DEF kErased, Record

-----------------------------------------------------------------------------
\* One step keeps the page packed and the slot to be programmed the first free
\* one, wherever power is lost, if an erase is all or nothing.
LEMMA JournalStep == JournalInv /\ [Next]_vars => JournalInv'
<1> SUFFICES ASSUME JournalInv, [Next]_vars
             PROVE  JournalInv'
  OBVIOUS
<1> USE StoreParams DEF JournalInv
<1> DEFINE Programmed(t) == [journal EXCEPT ![slot] = t]
<1>a. ASSUME pc = "program", NEW t \in Record, journal' = Programmed(t)
      PROVE  /\ journal' \in [Slots -> Record]
             /\ ~EraseTears => Packed'
  <2>1. journal' \in [Slots -> Record]
    BY <1>a DEF TypeOK
  <2>2. ASSUME ~EraseTears PROVE Packed'
    BY <1>a, <2>2 DEF TypeOK, Packed, AtFirstFree, Slots
  <2>. QED  BY <2>1, <2>2
<1>1. CASE LatchChange
  BY <1>1 DEF LatchChange, TypeOK, Packed, AtFirstFree
<1>2. CASE TakePending
  BY <1>2 DEF TakePending, TypeOK, Packed, AtFirstFree
<1>3. CASE StartSave
  <2>1. TypeOK'
    BY <1>3 DEF StartSave, TypeOK, FreeSlots
  <2>2. ASSUME ~EraseTears PROVE Packed' /\ AtFirstFree'
    BY <1>3, <2>2 DEF StartSave, TypeOK, FreeSlots, Packed, AtFirstFree, Slots
  <2>. QED  BY <2>1, <2>2
<1>4. CASE ErasePage
  <2>1. TypeOK'
    BY <1>4, ErasedIsRecord DEF ErasePage, TypeOK, Slots
  <2>2. ASSUME ~EraseTears PROVE Packed' /\ AtFirstFree'
    BY <1>4, <2>2 DEF ErasePage, TypeOK, Packed, AtFirstFree, Slots
  <2>. QED  BY <2>1, <2>2
<1>5. CASE ProgramRecord
  <2>1. PICK t \in Record : journal' = Programmed(t)
    BY <1>5, RecordNotErased, TornIsRecord DEF ProgramRecord, TypeOK
  <2>2. /\ journal' \in [Slots -> Record]
        /\ ~EraseTears => Packed'
    BY <1>5, <1>a, <2>1 DEF ProgramRecord
  <2>. QED  BY <1>5, <2>2 DEF ProgramRecord, TypeOK, AtFirstFree
<1>6. CASE PowerCycle
  <2>1. /\ journal' \in [Slots -> Record]
        /\ ~EraseTears => Packed'
    <3>1. CASE UNCHANGED journal
      BY <3>1 DEF TypeOK, Packed
    <3>2. CASE /\ pc = "program"
               /\ \E t \in Torn(journal[slot], RecordOf(saving)) :
                     journal' = Programmed(t)
      BY <3>2, <1>a, TornIsRecord DEF TypeOK
    <3>3. CASE /\ pc = "erase"
               /\ \E erased \in SUBSET Slots :
                     /\ EraseTears \/ erased = Slots
                     /\ journal' = [i \in Slots |-> IF i \in erased
                                                   THEN kErased ELSE journal[i]]
      BY <3>3, ErasedIsRecord DEF TypeOK, Packed
    <3>. QED  BY <1>6, <3>1, <3>2, <3>3 DEF PowerCycle, Interrupted
  <2>2. LoadFaultLatch(journal') \in BOOLEAN
    BY DEF LoadFaultLatch
  <2>3. TypeOK'
    <3>1. /\ (latch \in BOOLEAN)' /\ (pending \in BOOLEAN)'
          /\ (value \in BOOLEAN)' /\ (saving \in BOOLEAN)'
      BY <1>6, <2>2, Zenon DEF PowerCycle
    <3>2. slot' \in Slots /\ pc' = "idle"
      BY <1>6 DEF PowerCycle, Slots
    <3>. QED  BY <2>1, <3>1, <3>2 DEF TypeOK
  <2>4. AtFirstFree'
    BY <1>6 DEF PowerCycle, AtFirstFree
  <2>. QED  BY <2>1, <2>3, <2>4
<1>7. CASE UNCHANGED vars
  BY <1>7 DEF vars, TypeOK, Packed, AtFirstFree
<1>. QED  BY <1>1, <1>2, <1>3, <1>4, <1>5, <1>6, <1>7 DEF Next, Telemetry

LEMMA JournalInit == Init => JournalInv
<1> SUFFICES ASSUME Init PROVE JournalInv
  OBVIOUS
<1>1. TypeOK
  <2>1. /\ latch \in BOOLEAN /\ pending \in BOOLEAN
        /\ value \in BOOLEAN /\ saving \in BOOLEAN
    BY Zenon DEF Init
  <2>2. /\ journal \in [Slots -> Record]
        /\ slot \in Slots
        /\ pc = "idle"
    BY StoreParams, ErasedIsRecord DEF Init, Slots
  <2>. QED  BY <2>1, <2>2 DEF TypeOK
<1>2. Packed /\ AtFirstFree
  BY DEF Init, Packed, AtFirstFree
<1>. QED  BY <1>1, <1>2 DEF JournalInv

\* Every variable keeps its type, and a record is erased when it is programmed.
THEOREM StoreTypes == Spec => []TypeOK
<1>1. JournalInv => TypeOK
  BY DEF JournalInv
<1>. QED  BY <1>1, JournalInit, JournalStep, PTL DEF Spec

\* With erases that power loss does not tear, a program operation that goes through
\* stores the value for the next boot, whatever failed or torn records are in the page.
THEOREM SavedIsLoaded ==
  ASSUME DualBank, ~EraseTears
  PROVE  Spec => SaveTakes
<1>1. JournalInv /\ [Next]_vars => [SaveGoesThrough]_vars
  <2> SUFFICES ASSUME JournalInv, Next, pc = "program",
                      journal'[slot] = RecordOf(saving)
               PROVE  LoadFaultLatch(journal') = saving
    BY DEF SaveGoesThrough
  <2> USE StoreParams DEF JournalInv
  <2>1. saving \in BOOLEAN /\ slot \in Slots
    BY DEF TypeOK
  <2>2. journal' \in [Slots -> Record]
    BY JournalStep DEF TypeOK
  <2>3. journal[slot] = kErased /\ journal'[slot] # kErased
    BY <2>1, RecordNotErased DEF AtFirstFree
  <2>4. \A i \in Slots : i # slot => journal'[i] = journal[i]
    BY <2>3 DEF Next, Telemetry, LatchChange, TakePending, StartSave, ErasePage,
                ProgramRecord, PowerCycle, Interrupted, TypeOK
  <2>5. /\ \A i \in Slots : i < slot => journal'[i] # kErased
        /\ \A i \in Slots : slot < i => journal'[i] = kErased
    BY <2>1, <2>3, <2>4 DEF Packed, AtFirstFree, Slots
  <2>. QED  BY <2>1, <2>2, <2>5, AppendedIsLoaded
<1>. QED  BY <1>1, JournalInit, JournalStep, PTL DEF Spec, SaveTakes

-----------------------------------------------------------------------------
\* The latest value of the latch is never lost on its way: it is where the
\* telemetry task will read it, in its hands, or in the journal.
Handoff ==
    /\ pending => value = latch
    /\ pc = "taken" /\ ~pending => value = latch
    /\ pc \in {"erase", "program"} /\ ~pending => saving = latch
    /\ pc = "idle" /\ ~pending => LoadFaultLatch(journal) = latch

LEMMA LoadIsBoolean == \A j : LoadFaultLatch(j) \in BOOLEAN
BY DEF LoadFaultLatch

LEMMA ErasedLoadsClear ==
  ASSUME journal = [i \in Slots |-> kErased]
  PROVE  LoadFaultLatch(journal) = FALSE
<1>1. Scanned(journal) = {}
  BY StoreParams DEF Scanned, Slots
<1>. QED  BY <1>1, LoadIsBoolean DEF LoadFaultLatch

\* What ProgramRecord leaves in the journal when the flash works.
LEMMA ProgramStores ==
  ASSUME DualBank, ~EraseTears, ~FlashFails, JournalInv, ProgramRecord
  PROVE  LoadFaultLatch(journal') = saving
<1> USE StoreParams DEF JournalInv
<1>1. /\ saving \in BOOLEAN /\ slot \in Slots
      /\ journal \in [Slots -> Record]
      /\ journal[slot] = kErased
  BY DEF TypeOK, ProgramRecord
<1>2. journal' = [journal EXCEPT ![slot] = RecordOf(saving)]
  BY DEF ProgramRecord
<1>3. journal' \in [Slots -> Record] /\ journal'[slot] = RecordOf(saving)
  BY <1>1, <1>2, RecordNotErased
<1>4. /\ \A i \in Slots : i < slot => journal'[i] # kErased
      /\ \A i \in Slots : slot < i => journal'[i] = kErased
  BY <1>1, <1>2 DEF Packed, AtFirstFree, Slots, ProgramRecord
<1>. QED  BY <1>1, <1>3, <1>4, AppendedIsLoaded

LEMMA HandoffStep ==
  ASSUME DualBank, ~EraseTears, ~FlashFails
  PROVE  JournalInv /\ Handoff /\ [Next]_vars => Handoff'
<1> SUFFICES ASSUME JournalInv, Handoff, [Next]_vars
             PROVE  Handoff'
  OBVIOUS
<1>1. CASE LatchChange
  BY <1>1 DEF LatchChange, Handoff, JournalInv, TypeOK
<1>2. CASE TakePending
  BY <1>2 DEF TakePending, Handoff
<1>3. CASE StartSave
  BY <1>3 DEF StartSave, Handoff
<1>4. CASE ErasePage
  BY <1>4 DEF ErasePage, Handoff
<1>5. CASE ProgramRecord
  <2>1. LoadFaultLatch(journal') = saving
    BY <1>5, ProgramStores
  <2>. QED  BY <1>5, <2>1 DEF ProgramRecord, Handoff
<1>6. CASE PowerCycle
  BY <1>6 DEF PowerCycle, Handoff
<1>7. CASE UNCHANGED vars
  BY <1>7 DEF vars, Handoff
<1>. QED  BY <1>1, <1>2, <1>3, <1>4, <1>5, <1>6, <1>7 DEF Next, Telemetry

LEMMA HandoffInit == Init => Handoff
BY ErasedLoadsClear DEF Init, Handoff

\* With flash that works and erases that power loss does not tear, a power cycle at a
\* moment when telemetry has nothing left to write restores the latch as it was.
THEOREM QuietIsStored ==
  ASSUME DualBank, ~EraseTears, ~FlashFails
  PROVE  Spec => []StoredWhenQuiet
<1>1. Handoff => StoredWhenQuiet
  BY DEF Handoff, StoredWhenQuiet
<1>. QED  BY <1>1, JournalInit, JournalStep, HandoffInit, HandoffStep, PTL DEF Spec

\* With flash that works and erases that power loss does not tear, the journal, the
\* hand-off and their interleavings with the control task and with power losses
\* implement the durable register.  Programming may be cut short at any bit.
THEOREM StoreImplementsRegister ==
  ASSUME DualBank, ~EraseTears, ~FlashFails
  PROVE  Spec => ImplementsRegister
<1>1. Init => Register!RInit
  BY ErasedLoadsClear, LoadIsBoolean DEF Init, Register!RInit
<1>2. JournalInv /\ Handoff /\ Handoff' /\ [Next]_vars
        => [Register!RNext]_(Register!rvars)
  <2> SUFFICES ASSUME JournalInv, Handoff, Handoff', [Next]_vars
               PROVE  [Register!RNext]_(Register!rvars)
    OBVIOUS
  <2> USE DEF Register!rvars
  <2>1. CASE LatchChange
    <3>1. Register!RChange
      BY <2>1 DEF LatchChange, Register!RChange
    <3>. QED  BY <3>1 DEF Register!RNext
  <2>2. CASE TakePending \/ UNCHANGED vars
    BY <2>2 DEF TakePending, vars
  <2>3. CASE StartSave \/ ErasePage \/ ProgramRecord
    <3>1. (pending \/ pc # "idle") /\ UNCHANGED <<latch, pending>>
      BY <2>3 DEF StartSave, ErasePage, ProgramRecord
    <3>2. (pending' \/ pc' # "idle") \/ LoadFaultLatch(journal') = latch
      BY <3>1 DEF Handoff
    <3>3. Register!RWrite
      BY <3>1, <3>2, LoadIsBoolean DEF Register!RWrite
    <3>. QED  BY <3>3 DEF Register!RNext
  <2>4. CASE PowerCycle
    <3>1. (pending \/ pc # "idle") \/ UNCHANGED journal
      BY <2>4 DEF PowerCycle, Interrupted
    <3>2. Register!RPowerCycle
      BY <2>4, <3>1, LoadIsBoolean DEF PowerCycle, Register!RPowerCycle
    <3>. QED  BY <3>2 DEF Register!RNext
  <2>. QED  BY <2>1, <2>2, <2>3, <2>4 DEF Next, Telemetry
<1>. QED
  BY <1>1, <1>2, JournalInit, JournalStep, HandoffInit, HandoffStep, PTL
  DEF Spec, ImplementsRegister, Register!RSpec

-----------------------------------------------------------------------------
(* The board *)

\* Each scene of the tasks keeps the invariant of its supervisor.
BoardTasksInv ==
    /\ scene = "stall" => Stall!SupervisorInv
    /\ scene = "watchdog" => Watchdog!SupervisorInv

\* The board's tasks keep their timing, and stopped ones get it reset or its outputs
\* made safe in bounded time, whatever journals and inbox run beside them: the
\* supervisor's bounds at the board's periods, with and without a hanging supervisor.
THEOREM BoardTasksBounded == BoardSpec => []TasksBounded
<1>1. Stall!SupervisorParams /\ Watchdog!SupervisorParams
  BY VcuBoardBounds
<1>2. BoardInit => BoardTasksInv
  <2>1. Stall!Init => Watchdog!Init
    BY DEF Stall!Init, Watchdog!Init, Stall!Critical, Watchdog!Critical,
           Stall!Inactive, Watchdog!Inactive
  <2>. QED  BY <1>1, <2>1, Stall!SupervisorInit, Watchdog!SupervisorInit
            DEF BoardInit, BoardTasksInv
<1>3. BoardTasksInv /\ [BoardNext]_boardVars => BoardTasksInv'
  <2> SUFFICES ASSUME BoardTasksInv, [BoardNext]_boardVars PROVE BoardTasksInv'
    OBVIOUS
  <2>1. UNCHANGED scene
    BY DEF BoardNext, InFaultStore, InBadFlash, InVcuSupervisor, InCanInbox, boardVars
  <2>2. CASE scene = "stall"
    <3>1. [Stall!Next]_Stall!vars
      BY <2>2 DEF BoardNext, InFaultStore, InBadFlash, InVcuSupervisor, InCanInbox,
                  boardVars, taskVars, Stall!vars
    <3>2. Stall!SupervisorInv'
      BY <1>1, <2>2, <3>1, Stall!SupervisorStep DEF BoardTasksInv
    <3>. QED  BY <2>1, <2>2, <3>2 DEF BoardTasksInv
  <2>3. CASE scene = "watchdog"
    <3>1. [Watchdog!Next]_Watchdog!vars
      BY <2>3 DEF BoardNext, InFaultStore, InBadFlash, InVcuSupervisor, InCanInbox,
                  boardVars, taskVars, Watchdog!vars
    <3>2. Watchdog!SupervisorInv'
      BY <1>1, <2>3, <3>1, Watchdog!SupervisorStep DEF BoardTasksInv
    <3>. QED  BY <2>1, <2>3, <3>2 DEF BoardTasksInv
  <2>. QED  BY <2>1, <2>2, <2>3 DEF BoardTasksInv
<1>4. BoardTasksInv => TasksBounded
  BY <1>1, Stall!InvBounds, Watchdog!InvBounds
  DEF BoardTasksInv, TasksBounded, ResetBound, SafeBound, TasksTypeOK
<1>. QED  BY <1>2, <1>3, <1>4, PTL DEF BoardSpec

\* The board's inbox is a bounded queue of whole frames, whatever runs beside it.
THEOREM BoardInboxIsQueue == BoardSpec => InboxIsQueue
<1>1. Inbox!InboxParams
  BY VcuBoardBounds
<1>2. BoardInit => Inbox!Init
  BY DEF BoardInit
<1>3. [BoardNext]_boardVars => [Inbox!Next]_(Inbox!vars)
  BY DEF BoardNext, InFaultStore, InBadFlash, InVcuSupervisor, InCanInbox, boardVars,
         inboxVars, Inbox!vars
<1>4. Inbox!Init => Inbox!InboxInv
  BY <1>1, Inbox!InboxInit
<1>5. Inbox!InboxInv /\ [Inbox!Next]_(Inbox!vars) => Inbox!InboxInv'
  BY <1>1, Inbox!InboxStep
<1>6. Inbox!InboxInv => InboxTypeOK
  BY <1>1, Inbox!InvTypes DEF InboxTypeOK
<1>7. Inbox!Spec => ImplementsFifo
  BY <1>1, Inbox!InboxIsFifo DEF ImplementsFifo
<1>. QED
  BY <1>2, <1>3, <1>4, <1>5, <1>6, <1>7, PTL DEF BoardSpec, InboxIsQueue, Inbox!Spec

=============================================================================
