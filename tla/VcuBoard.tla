------------------------------- MODULE VcuBoard -------------------------------
(*****************************************************************************)
(* The VCU's board around the control task: the latch journal, which is the  *)
(* module extended here, a journal whose flash reports errors, the           *)
(* supervisor with its watchdog and the CAN inbox.  They share nothing; a    *)
(* behaviour plays one of them.  Periods and deadlines of the tasks are in   *)
(* units of 10 ms, rounded up.                                               *)
(*****************************************************************************)
EXTENDS FaultStore

CONSTANTS
    Scenes

VARIABLES
    scene,
    badJournal, badLatch, badPending, badValue, badPc, badSaving, badSlot,
    hung, waited, stage, moved, idle, iwdg, output, request, entered, age, shown,
    slots, head, tail, dropped, push, pop, received

\* The journal on a flash whose operations may fail.
BadFlash ==
    INSTANCE FaultStore WITH
        FlashFails <- TRUE, journal <- badJournal, latch <- badLatch,
        pending <- badPending, value <- badValue, pc <- badPc, saving <- badSaving,
        slot <- badSlot

\* The tasks, the supervisor running; then any of them may hang.
Stall ==
    INSTANCE VcuSupervisor WITH
        Period <- [control |-> 1, telemetry |-> 1, supervisor |-> 2],
        Deadline <- [control |-> 3, telemetry |-> 5], WatchdogTimeout <- 6,
        Hangable <- {"control", "telemetry"}
Watchdog ==
    INSTANCE VcuSupervisor WITH
        Period <- [control |-> 1, telemetry |-> 1, supervisor |-> 2],
        Deadline <- [control |-> 3, telemetry |-> 5], WatchdogTimeout <- 6,
        Hangable <- {"control", "telemetry", "supervisor"}

\* The queue between the receive interrupt and the control task.
Inbox ==
    INSTANCE CanInbox WITH
        Id <- {"i1", "i2"}, Data <- {"d1", "d2"}, kDepth <- 2, CounterModulus <- 4,
        DropModulus <- 2, Nothing <- "nothing"

ASSUME VcuBoardBounds ==
    /\ Stall!SupervisorParams
    /\ Watchdog!SupervisorParams
    /\ Inbox!InboxParams

badVars == <<badJournal, badLatch, badPending, badValue, badPc, badSaving, badSlot>>
taskVars == <<hung, waited, stage, moved, idle, iwdg, output, request, entered, age,
    shown>>
inboxVars == <<slots, head, tail, dropped, push, pop, received>>

boardVars == <<scene, badVars, taskVars, inboxVars, vars>>

\* The scene is chosen once; the components of the other scenes rest in an initial state.
BoardInit ==
    /\ scene \in Scenes
    /\ Init
    /\ BadFlash!Init
    /\ Stall!Init
    /\ Inbox!Init

InFaultStore ==
    /\ scene = "store" /\ Next
    /\ UNCHANGED <<scene, badVars, taskVars, inboxVars>>

InBadFlash ==
    /\ scene = "errors" /\ BadFlash!Next
    /\ UNCHANGED <<scene, taskVars, inboxVars, vars>>

InVcuSupervisor ==
    /\ \/ scene = "stall" /\ Stall!Next
       \/ scene = "watchdog" /\ Watchdog!Next
    /\ UNCHANGED <<scene, badVars, inboxVars, vars>>

InCanInbox ==
    /\ scene = "inbox" /\ Inbox!Next
    /\ UNCHANGED <<scene, badVars, taskVars, vars>>

BoardNext ==
    \/ InFaultStore
    \/ InBadFlash
    \/ InVcuSupervisor
    \/ InCanInbox

BoardSpec ==
    /\ BoardInit /\ [][BoardNext]_boardVars
    /\ WF_vars(scene = "store" /\ Telemetry)
    /\ WF_inboxVars(scene = "inbox" /\ (Inbox!PushId \/ Inbox!PushData \/ Inbox!PushPublish))
    /\ WF_inboxVars(scene = "inbox" /\ Inbox!Pop)

\* A save whose program operation went through is what the next boot reads, although
\* other flash operations reported errors (SaveFaultLatch, LoadFaultLatch).
SaveTakesOnErrors == [][scene = "errors" => BadFlash!SaveGoesThrough]_badVars

\* A critical task that stops beating gets the board reset within the time it takes to
\* be noticed, its deadline and the watchdog's timeout, the supervisor hung or not.
ResetBound ==
    /\ scene = "stall" => Stall!ResetBound
    /\ scene = "watchdog" => Watchdog!ResetBound

\* Outputs of a control task that has stopped beating do not stay: the supervisor makes
\* them safe, and what the task writes when it wakes lasts until the next pass at most.
SafeBound == scene = "stall" => Stall!SafeBound

\* No task that can run is overdue, and no time passes the deadline it is compared with.
TasksTypeOK == scene = "stall" => Stall!TypeOK

\* The tasks stay on their timing and the board answers in bounded time when they do
\* not.
TasksBounded ==
    /\ ResetBound
    /\ SafeBound
    /\ TasksTypeOK

\* The lock-free inbox implements a bounded queue of whole frames, with a full queue and
\* with counters that wrap.
ImplementsFifo == Inbox!ImplementsFifo

\* A frame in the queue is handed over in the end, however many follow it.
FrameDelivered == (scene = "inbox") => Inbox!FrameDelivered

\* Pop hands over whole frames of the bus, never an unwritten slot.
InboxTypeOK == scene = "inbox" => Inbox!TypeOK

\* The lock-free inbox is a bounded queue of whole frames.
InboxIsQueue == []InboxTypeOK /\ ImplementsFifo

\* Nothing handed over is lost on the way: each frame in the inbox reaches the control
\* task, a latch reaches the flash, and a save that went through is read by the next
\* boot although other flash operations reported errors.
BoardDelivers ==
    /\ FrameDelivered
    /\ EventuallyStored
    /\ SaveTakesOnErrors
==============================================================================
