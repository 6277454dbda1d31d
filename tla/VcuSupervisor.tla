---------------------------- MODULE VcuSupervisor ----------------------------
(***************************************************************************)
(* The tasks of the VCU against the clock: the supervisor (supervisor.cpp) *)
(* watches the beats of the control and telemetry tasks, refreshes the     *)
(* independent watchdog while both make progress and forces the outputs    *)
(* safe when one does not.                                                 *)
(*                                                                         *)
(* Time is discrete.  A task that is not hung runs at least once in its    *)
(* period: Tick waits for it.  The control task can be preempted, and can  *)
(* hang, between computing its outputs, writing them and beating.          *)
(***************************************************************************)
EXTENDS Debounce, TLAPS

CONSTANTS
    Period,           \* kControlPeriodMs, kTelemetryPeriodMs, kSupervisorPeriodMs
    Deadline,         \* kControlDeadlineMs, kTelemetryDeadlineMs
    WatchdogTimeout,  \* kWatchdogTimeoutMs
    Hangable          \* the tasks that may hang

Critical == {"control", "telemetry"}
Task     == Critical \cup {"supervisor"}

SupervisorParams ==
    /\ Period \in [Task -> Nat \ {0}]
    /\ Deadline \in [Critical -> Nat \ {0}]
    /\ WatchdogTimeout \in Nat /\ Period["supervisor"] < WatchdogTimeout
    /\ Hangable \subseteq Task

VARIABLES
    hung,      \* tasks that do not run at present
    waited,    \* time since each task last ran, up to its period
    stage,     \* how far the control task is in its tick
    moved,     \* critical tasks whose beats differ from the beats last seen
    idle,      \* time since control_progress_ms_, telemetry_progress_ms_
    iwdg,      \* time since the watchdog was refreshed, Inactive before Start
    output,    \* who wrote the digital outputs last
    request,   \* bootloader_request_
    entered,   \* bootloader_entered_
    age,       \* observer: time since each critical task's last beat
    shown      \* observer: time since the control task last wrote outputs

vars == <<hung, waited, stage, moved, idle, iwdg, output, request, entered,
          age, shown>>

\* The longest that one supervisor tick can come after another.
Gap == IF "supervisor" \in Hangable THEN WatchdogTimeout ELSE Period["supervisor"]

\* A beat that old means the board was reset, or the outputs are safe.
ResetAfter(t) == Gap + (Deadline[t] - 1) + WatchdogTimeout
SafeAfter     == Gap + (Deadline["control"] - 1) + Gap

Init ==
    /\ hung = {}
    /\ waited = Period
    /\ stage = "waiting"
    /\ moved = {}
    /\ idle = [t \in Critical |-> 0]
    /\ iwdg = Inactive
    /\ output = "safe"
    /\ request = FALSE
    /\ entered = FALSE
    /\ age = [t \in Critical |-> 0]
    /\ shown = 0

\* The board runs: no bootloader entered, no watchdog expired.
Running == ~entered /\ iwdg < WatchdogTimeout

CanRun(t) == Running /\ t \notin hung

-----------------------------------------------------------------------------
\* ControlTick up to DriveOutputs.
ControlCompute ==
    /\ CanRun("control") /\ stage = "waiting"
    /\ stage' = "computed"
    /\ UNCHANGED <<hung, waited, moved, idle, iwdg, output, request, entered,
                   age, shown>>

\* DriveOutputs: WriteDigitalOutputs of what was computed.
ControlWrite ==
    /\ CanRun("control") /\ stage = "computed"
    /\ stage' = "written"
    /\ output' = "control"
    /\ shown' = 0
    /\ UNCHANGED <<hung, waited, moved, idle, iwdg, request, entered, age>>

\* The end of ControlTick: control_beats_.fetch_add(1).
ControlBeat ==
    /\ CanRun("control") /\ stage = "written"
    /\ stage' = "waiting"
    /\ moved' = moved \cup {"control"}
    /\ waited' = [waited EXCEPT !["control"] = 0]
    /\ age' = [age EXCEPT !["control"] = 0]
    /\ UNCHANGED <<hung, idle, iwdg, output, request, entered, shown>>

TelemetryBeat ==
    /\ CanRun("telemetry")
    /\ moved' = moved \cup {"telemetry"}
    /\ waited' = [waited EXCEPT !["telemetry"] = 0]
    /\ age' = [age EXCEPT !["telemetry"] = 0]
    /\ UNCHANGED <<hung, stage, idle, iwdg, output, request, entered, shown>>

\* Progress as the supervisor sees it: a beat counts from when it is noticed.
Noticed ==
    [t \in Critical |-> IF t \in moved \/ iwdg = Inactive THEN 0 ELSE idle[t]]

\* Slip: the outputs are left as they are.
SlipOutputsKept ==
    /\ CanRun("supervisor") /\ waited["supervisor"] = Period["supervisor"]
    /\ ~request
    /\ idle' = Noticed
    /\ moved' = {}
    /\ waited' = [waited EXCEPT !["supervisor"] = 0]
    /\ iwdg' = IF \A t \in Critical : idle'[t] < Deadline[t] THEN 0 ELSE iwdg
    /\ UNCHANGED <<hung, stage, output, request, entered, age, shown>>

\* One pass of SupervisorTick without a bootloader request.
Supervise ==
    /\ CanRun("supervisor") /\ waited["supervisor"] = Period["supervisor"]
    /\ ~request
    /\ idle' = Noticed
    /\ moved' = {}
    /\ waited' = [waited EXCEPT !["supervisor"] = 0]
    /\ \/ /\ \A t \in Critical : idle'[t] < Deadline[t]
          /\ iwdg' = 0
          /\ UNCHANGED output
       \/ /\ \E t \in Critical : idle'[t] >= Deadline[t]
          /\ output' = "supervisor"
          /\ UNCHANGED iwdg
    /\ UNCHANGED <<hung, stage, request, entered, age, shown>>

\* SupervisorTick with a request: outputs safe, then EnterBootloader, which
\* does not return and keeps every other task from running.
EnterBootloader ==
    /\ CanRun("supervisor") /\ waited["supervisor"] = Period["supervisor"]
    /\ request
    /\ request' = FALSE
    /\ entered' = TRUE
    /\ output' = "supervisor"
    /\ UNCHANGED <<hung, waited, stage, moved, idle, iwdg, age, shown>>

\* The "update." token on a console.
RequestBootloader ==
    /\ Running /\ ~request
    /\ request' = TRUE
    /\ UNCHANGED <<hung, waited, stage, moved, idle, iwdg, output, entered,
                   age, shown>>

-----------------------------------------------------------------------------
\* (The supervisor has the highest priority: its first pass starts the watchdog
\* before any other task runs.)
Hang(t) ==
    /\ CanRun(t) /\ (t = "supervisor" => iwdg # Inactive)
    /\ hung' = hung \cup {t}
    /\ UNCHANGED <<waited, stage, moved, idle, iwdg, output, request, entered,
                   age, shown>>

Resume(t) ==
    /\ Running /\ t \in hung
    /\ hung' = hung \ {t}
    /\ UNCHANGED <<waited, stage, moved, idle, iwdg, output, request, entered,
                   age, shown>>

\* One unit of time, which no task that is due and can run lets pass.
Tick ==
    /\ Running
    /\ \A t \in Task \ hung : waited[t] < Period[t]
    /\ waited' = [t \in Task |-> Advance(waited[t], 1, Period[t])]
    /\ idle' = [t \in Critical |-> Advance(idle[t], 1, Deadline[t])]
    /\ iwdg' = IF iwdg = Inactive THEN Inactive
                                  ELSE Advance(iwdg, 1, WatchdogTimeout)
    /\ age' = [t \in Critical |-> Advance(age[t], 1, ResetAfter(t) + 1)]
    /\ shown' = Advance(shown, 1, Gap + 1)
    /\ UNCHANGED <<hung, stage, moved, output, request, entered>>

\* The watchdog expired, or the bootloader's own reset.
Reset ==
    /\ ~Running
    /\ hung' = {}
    /\ waited' = Period
    /\ stage' = "waiting"
    /\ moved' = {}
    /\ idle' = [t \in Critical |-> 0]
    /\ iwdg' = Inactive
    /\ output' = "safe"
    /\ request' = FALSE
    /\ entered' = FALSE
    /\ age' = [t \in Critical |-> 0]
    /\ shown' = 0

Next ==
    \/ ControlCompute \/ ControlWrite \/ ControlBeat
    \/ TelemetryBeat
    \/ Supervise \/ EnterBootloader \/ RequestBootloader
    \/ \E t \in Hangable : Hang(t) \/ Resume(t)
    \/ Tick
    \/ Reset

Spec == Init /\ [][Next]_vars

-----------------------------------------------------------------------------
(* Properties *)

\* Variables have their types; no task that can run is ever overdue, and no time
\* passes the deadline it is compared with.
TypeOK ==
    /\ hung \subseteq Hangable
    /\ waited \in [Task -> Nat] /\ \A t \in Task : waited[t] <= Period[t]
    /\ stage \in {"waiting", "computed", "written"}
    /\ moved \subseteq Critical
    /\ idle \in [Critical -> Nat] /\ \A t \in Critical : idle[t] <= Deadline[t]
    /\ iwdg \in Inactive .. WatchdogTimeout
    /\ output \in {"safe", "control", "supervisor"}
    /\ {request, entered} \subseteq BOOLEAN
    /\ age \in [Critical -> Nat]
    /\ \A t \in Critical : age[t] <= ResetAfter(t) + 1
    /\ shown \in 0 .. Gap + 1

\* A critical task that stops beating gets the board reset within the time it
\* takes to be noticed, its deadline and the watchdog's timeout, even if it
\* resumes in between without finishing a tick, and even if the supervisor
\* hangs as well.
ResetBound ==
    iwdg # Inactive => \A t \in Critical : age[t] <= ResetAfter(t)

\* Outputs written by a control task that has stopped beating do not stay: the
\* supervisor makes them safe, and what a control task that wakes up inside its
\* tick writes afterwards lasts until the supervisor's next pass at most.
SafeBound ==
    output = "control" /\ age["control"] > SafeAfter => shown <= Gap

-----------------------------------------------------------------------------
(***************************************************************************)
(* Proofs, for all periods, deadlines and timeouts and whichever tasks may *)
(* hang.  Neither bound is inductive: the supervisor does not know when a  *)
(* task beat, only in which of its own passes it noticed.  So the invariant *)
(* bounds each beat by the pass that noticed it (idle), each unnoticed one *)
(* by the last pass, and the pass by the last refresh of the watchdog.     *)
(***************************************************************************)

\* What bounds the time since the supervisor's last pass: its own period if it
\* cannot hang, otherwise the watchdog, which only a pass refreshes.
SincePass == IF "supervisor" \in Hangable THEN iwdg ELSE waited["supervisor"]

\* Before the supervisor's first pass no time has passed.
NotStarted ==
    /\ "supervisor" \notin hung /\ waited["supervisor"] = Period["supervisor"]
    /\ shown = 0
    /\ \A t \in Critical : age[t] = 0

\* A beat the supervisor has not noticed came after its last pass.
Unnoticed == \A t \in moved : age[t] <= SincePass

\* A noticed one came at most a gap before the pass that noticed it.
NoticedLate ==
    \A t \in Critical \ moved : idle[t] < Deadline[t] => age[t] <= Gap + idle[t]

\* The watchdog was refreshed when no critical task had missed its deadline.
RefreshedInTime ==
    \A t \in Critical : age[t] <= Gap + (Deadline[t] - 1) + iwdg

\* Outputs of the control task are younger than the last pass, or that pass found
\* the task in time.
WrittenSince ==
    output = "control" =>
        shown <= SincePass \/ age["control"] <= Gap + (Deadline["control"] - 1) + SincePass

InTime == Unnoticed /\ NoticedLate /\ RefreshedInTime /\ WrittenSince

SupervisorInv ==
    /\ TypeOK
    /\ iwdg = Inactive => NotStarted
    /\ iwdg # Inactive => InTime

LEMMA Bounds ==
  ASSUME SupervisorParams
  PROVE  /\ Gap \in Nat \ {0} /\ WatchdogTimeout \in Nat
         /\ \A t \in Critical : Deadline[t] \in Nat \ {0} /\ ResetAfter(t) \in Nat
         /\ \A t \in Task : Period[t] \in Nat \ {0}
         /\ \A t \in Critical : ResetAfter(t) = Gap + (Deadline[t] - 1) + WatchdogTimeout
         /\ SafeAfter = Gap + (Deadline["control"] - 1) + Gap
         /\ SafeAfter \in Nat
BY DEF SupervisorParams, Gap, ResetAfter, SafeAfter, Task, Critical

\* A pass is never longer ago than the longest gap between two.
LEMMA PassBound ==
  ASSUME SupervisorParams, TypeOK, iwdg # Inactive
  PROVE  SincePass \in Nat /\ SincePass <= Gap
BY DEF SupervisorParams, TypeOK, SincePass, Gap, Task, Inactive

\* The invariant implies the two bounds.
LEMMA InvBounds ==
  ASSUME SupervisorParams, SupervisorInv
  PROVE  TypeOK /\ ResetBound /\ SafeBound
<1>1. TypeOK
  BY DEF SupervisorInv
<1>2. iwdg # Inactive => iwdg \in Nat /\ iwdg <= WatchdogTimeout
  BY <1>1, Bounds DEF TypeOK, Inactive
<1>3. \A t \in Critical : age[t] \in Nat
  BY <1>1 DEF TypeOK
<1>4. ResetBound
  BY <1>2, <1>3, Bounds DEF SupervisorInv, InTime, RefreshedInTime, ResetBound
<1>5. SafeBound
  <2>1. "control" \in Critical /\ shown \in Nat
    BY <1>1, Bounds DEF Critical, TypeOK
  <2>2. CASE iwdg = Inactive
    BY <2>1, <2>2, Bounds DEF SupervisorInv, NotStarted, SafeBound
  <2>3. CASE iwdg # Inactive
    BY <1>1, <1>3, <2>1, <2>3, Bounds, PassBound
    DEF SupervisorInv, InTime, WrittenSince, SafeBound
  <2>. QED  BY <2>2, <2>3
<1>. QED  BY <1>1, <1>4, <1>5

LEMMA SupervisorInit == ASSUME SupervisorParams, Init PROVE SupervisorInv
<1>1. waited = Period /\ Period \in [Task -> Nat \ {0}]
  BY DEF Init, SupervisorParams
<1>2. TypeOK
  <2>1. {request, entered} \subseteq BOOLEAN
    BY DEF Init
  <2>2. /\ waited \in [Task -> Nat] /\ \A t \in Task : waited[t] <= Period[t]
        /\ idle \in [Critical -> Nat] /\ \A t \in Critical : idle[t] <= Deadline[t]
        /\ age \in [Critical -> Nat]
        /\ \A t \in Critical : age[t] <= ResetAfter(t) + 1
    BY <1>1, Bounds DEF Init
  <2>3. iwdg \in Inactive .. WatchdogTimeout /\ shown \in 0 .. Gap + 1
    BY Bounds DEF Init, Inactive
  <2>. QED  BY <2>1, <2>2, <2>3 DEF Init, TypeOK
<1>. QED  BY <1>2 DEF Init, SupervisorInv, NotStarted

\* Steps without time, beats or passes.
LEMMA QuietStep ==
  ASSUME SupervisorParams, SupervisorInv,
         \/ ControlCompute
         \/ EnterBootloader
         \/ RequestBootloader
         \/ \E t \in Hangable : Hang(t) \/ Resume(t)
  PROVE  SupervisorInv'
<1>1. /\ UNCHANGED <<waited, moved, idle, iwdg, age, shown>>
      /\ output' \in {output, "supervisor"}
      /\ iwdg = Inactive /\ "supervisor" \notin hung => "supervisor" \notin hung'
  BY DEF ControlCompute, EnterBootloader, RequestBootloader, Hang, Resume
<1>2. /\ hung' \subseteq Hangable
      /\ stage' \in {"waiting", "computed", "written"}
      /\ {request', entered'} \subseteq BOOLEAN
  BY DEF SupervisorInv, TypeOK, ControlCompute, EnterBootloader, RequestBootloader,
         Hang, Resume
<1>3. TypeOK'
  BY <1>1, <1>2 DEF SupervisorInv, TypeOK
<1>4. InTime => InTime'
  BY <1>1 DEF InTime, Unnoticed, NoticedLate, RefreshedInTime, WrittenSince, SincePass
<1>5. iwdg = Inactive /\ NotStarted => NotStarted'
  BY <1>1 DEF NotStarted
<1>. QED  BY <1>1, <1>3, <1>4, <1>5 DEF SupervisorInv

LEMMA WriteStep ==
  ASSUME SupervisorParams, SupervisorInv, ControlWrite
  PROVE  SupervisorInv'
<1>1. /\ UNCHANGED <<hung, waited, moved, idle, iwdg, request, entered, age>>
      /\ stage' = "written" /\ output' = "control" /\ shown' = 0
  BY DEF ControlWrite
<1>2. TypeOK'
  BY <1>1, Bounds DEF SupervisorInv, TypeOK
<1>3. ASSUME iwdg # Inactive, InTime PROVE InTime'
  <2>1. SincePass' = SincePass /\ SincePass \in Nat
    BY <1>1, <1>3, PassBound DEF SupervisorInv, SincePass
  <2>. QED
    BY <1>1, <1>3, <2>1 DEF InTime, Unnoticed, NoticedLate, RefreshedInTime, WrittenSince
<1>4. NotStarted => NotStarted'
  BY <1>1 DEF NotStarted
<1>. QED  BY <1>1, <1>2, <1>3, <1>4 DEF SupervisorInv

\* A beat sets the age of its task to zero, and the supervisor has yet to notice it.
LEMMA BeatStep ==
  ASSUME SupervisorParams, SupervisorInv, ControlBeat \/ TelemetryBeat
  PROVE  SupervisorInv'
<1>1. PICK b \in Critical :
         /\ moved' = moved \cup {b}
         /\ waited' = [waited EXCEPT ![b] = 0]
         /\ age' = [age EXCEPT ![b] = 0]
  BY DEF ControlBeat, TelemetryBeat, Critical
<1>2. /\ UNCHANGED <<hung, idle, iwdg, output, request, entered, shown>>
      /\ stage' \in {stage, "waiting"}
  BY DEF ControlBeat, TelemetryBeat
<1>3. TypeOK
  BY DEF SupervisorInv
<1>4. /\ waited' \in [Task -> Nat] /\ age' \in [Critical -> Nat]
      /\ b \in Task /\ waited'["supervisor"] = waited["supervisor"]
      /\ \A t \in Task : waited'[t] = waited[t] \/ waited'[t] = 0
      /\ \A t \in Critical : age'[t] = (IF t = b THEN 0 ELSE age[t])
  BY <1>1, <1>3 DEF TypeOK, Task, Critical
<1>5. TypeOK'
  <2>1. \A t \in Task : waited'[t] <= Period[t]
    BY <1>3, <1>4, Bounds DEF TypeOK
  <2>2. \A t \in Critical : age'[t] <= ResetAfter(t) + 1
    BY <1>3, <1>4, Bounds DEF TypeOK
  <2>. QED  BY <1>1, <1>2, <1>3, <1>4, <2>1, <2>2 DEF TypeOK
<1>6. ASSUME iwdg # Inactive, InTime PROVE InTime'
  <2>1. SincePass' = SincePass /\ SincePass \in Nat /\ iwdg \in Nat /\ Gap \in Nat
    BY <1>2, <1>3, <1>4, <1>6, PassBound, Bounds DEF SincePass, TypeOK, Inactive
  <2>2. Unnoticed'
    BY <1>1, <1>4, <1>6, <2>1, <1>3 DEF InTime, Unnoticed, TypeOK
  <2>3. NoticedLate'
    BY <1>1, <1>2, <1>4, <1>6 DEF InTime, NoticedLate
  <2>4. RefreshedInTime'
    BY <1>2, <1>4, <1>6, <2>1, Bounds DEF InTime, RefreshedInTime
  <2>5. WrittenSince'
    BY <1>2, <1>4, <1>6, <2>1, Bounds DEF InTime, WrittenSince, Critical
  <2>. QED  BY <2>2, <2>3, <2>4, <2>5 DEF InTime
<1>7. NotStarted => NotStarted'
  BY <1>2, <1>4 DEF NotStarted
<1>. QED  BY <1>2, <1>5, <1>6, <1>7 DEF SupervisorInv

\* A pass turns unnoticed beats into noticed ones; it refreshes the watchdog only
\* if every critical task is in time, and otherwise takes the outputs.
LEMMA PassStep ==
  ASSUME SupervisorParams, SupervisorInv, Supervise
  PROVE  SupervisorInv'
<1>1. TypeOK
  BY DEF SupervisorInv
<1>2. /\ UNCHANGED <<hung, stage, request, entered, age, shown>>
      /\ idle' = Noticed /\ moved' = {}
      /\ waited' = [waited EXCEPT !["supervisor"] = 0]
  BY DEF Supervise
<1>3. \/ iwdg' = 0 /\ output' = output /\ \A t \in Critical : idle'[t] < Deadline[t]
      \/ /\ iwdg' = iwdg /\ output' = "supervisor"
         /\ \E t \in Critical : idle'[t] >= Deadline[t]
  BY DEF Supervise
<1>4. /\ waited' \in [Task -> Nat] /\ waited'["supervisor"] = 0
      /\ \A t \in Task : waited'[t] = waited[t] \/ waited'[t] = 0
  BY <1>1, <1>2 DEF TypeOK, Task
<1>5. /\ idle' \in [Critical -> Nat]
      /\ \A t \in Critical :
            idle'[t] = IF t \in moved \/ iwdg = Inactive THEN 0 ELSE idle[t]
  BY <1>1, <1>2 DEF TypeOK, Noticed
<1>6. TypeOK'
  <2>1. \A t \in Task : waited'[t] <= Period[t]
    BY <1>1, <1>4, Bounds DEF TypeOK
  <2>2. \A t \in Critical : idle'[t] <= Deadline[t]
    BY <1>1, <1>5, Bounds DEF TypeOK
  <2>3. iwdg' \in Inactive .. WatchdogTimeout
    BY <1>1, <1>3, Bounds DEF TypeOK, Inactive
  <2>. QED  BY <1>1, <1>2, <1>3, <1>4, <1>5, <2>1, <2>2, <2>3 DEF TypeOK
<1>7. \A t \in Critical : idle'[t] < Deadline[t] => age'[t] <= Gap + idle'[t]
  <2> SUFFICES ASSUME NEW t \in Critical, idle'[t] < Deadline[t]
               PROVE  age[t] <= Gap + idle'[t]
    BY <1>2
  <2>1. age[t] \in Nat /\ idle'[t] \in Nat
    BY <1>1, <1>5 DEF TypeOK
  <2>2. CASE iwdg = Inactive
    BY <1>5, <2>1, <2>2, Bounds DEF SupervisorInv, NotStarted
  <2>3. CASE iwdg # Inactive /\ t \in moved
    <3>1. age[t] <= SincePass
      BY <2>3 DEF SupervisorInv, InTime, Unnoticed
    <3>2. SincePass \in Nat /\ SincePass <= Gap
      BY <1>1, <2>3, PassBound
    <3>. QED  BY <1>5, <2>1, <2>3, <3>1, <3>2, Bounds
  <2>4. CASE iwdg # Inactive /\ t \notin moved
    BY <1>5, <2>4 DEF SupervisorInv, InTime, NoticedLate
  <2>. QED  BY <2>2, <2>3, <2>4
<1>8. iwdg' # Inactive
  <2>1. CASE iwdg = Inactive
    <3>1. \A t \in Critical : ~(idle'[t] >= Deadline[t])
      BY <1>5, <2>1, Bounds
    <3>. QED  BY <1>3, <3>1 DEF Inactive
  <2>2. CASE iwdg # Inactive
    BY <1>3, <2>2 DEF Inactive
  <2>. QED  BY <2>1, <2>2
<1>9. Unnoticed' /\ NoticedLate'
  BY <1>2, <1>7 DEF Unnoticed, NoticedLate
<1>10. \A t \in Critical : /\ age'[t] \in Nat /\ idle'[t] \in Nat
                           /\ Deadline[t] \in Nat \ {0}
  BY <1>6, Bounds DEF TypeOK
<1>11. RefreshedInTime'
  <2>1. CASE iwdg' = 0 /\ \A t \in Critical : idle'[t] < Deadline[t]
    BY <1>7, <1>10, <2>1, Bounds DEF RefreshedInTime
  <2>2. CASE iwdg' = iwdg /\ iwdg # Inactive
    BY <1>2, <2>2 DEF SupervisorInv, InTime, RefreshedInTime
  <2>. QED  BY <1>3, <1>8, <2>1, <2>2
<1>12. WrittenSince'
  <2>1. CASE output' = "supervisor"
    BY <2>1 DEF WrittenSince
  <2>2. CASE iwdg' = 0 /\ \A t \in Critical : idle'[t] < Deadline[t]
    <3>1. SincePass' = 0
      BY <1>4, <2>2 DEF SincePass
    <3>2. "control" \in Critical
      BY DEF Critical
    <3>. QED  BY <1>7, <1>10, <2>2, <3>1, <3>2, Bounds DEF WrittenSince
  <2>. QED  BY <1>3, <2>1, <2>2
<1>. QED  BY <1>6, <1>8, <1>9, <1>11, <1>12 DEF SupervisorInv, InTime

\* Time passes only after the first pass, and every clock that bounds an age moves
\* with it: none of them is at its limit.
LEMMA TickStep ==
  ASSUME SupervisorParams, SupervisorInv, Tick
  PROVE  SupervisorInv'
<1>1. TypeOK
  BY DEF SupervisorInv
<1>2. /\ UNCHANGED <<hung, stage, moved, output, request, entered>>
      /\ iwdg < WatchdogTimeout
      /\ \A t \in Task \ hung : waited[t] < Period[t]
      /\ waited' = [t \in Task |-> Advance(waited[t], 1, Period[t])]
      /\ idle' = [t \in Critical |-> Advance(idle[t], 1, Deadline[t])]
      /\ iwdg' = IF iwdg = Inactive THEN Inactive ELSE Advance(iwdg, 1, WatchdogTimeout)
      /\ age' = [t \in Critical |-> Advance(age[t], 1, ResetAfter(t) + 1)]
      /\ shown' = Advance(shown, 1, Gap + 1)
  BY DEF Tick, Running
<1>3. iwdg # Inactive /\ InTime
  <2>1. "supervisor" \in Task /\ Period["supervisor"] \in Nat
    BY Bounds DEF Task
  <2>2. ~NotStarted
    BY <1>2, <2>1 DEF NotStarted
  <2>. QED  BY <2>2 DEF SupervisorInv
<1>4. iwdg \in Nat /\ iwdg' = iwdg + 1 /\ iwdg' \in Nat /\ iwdg' <= WatchdogTimeout
  BY <1>1, <1>2, <1>3, Bounds DEF TypeOK, Inactive, Advance, AtMost
<1>5. \A t \in Critical : /\ age[t] \in Nat /\ age'[t] \in Nat
                          /\ age'[t] <= age[t] + 1 /\ age'[t] <= ResetAfter(t) + 1
  BY <1>1, <1>2, Bounds DEF TypeOK, Advance, AtMost
<1>6. \A t \in Critical : /\ idle[t] \in Nat /\ idle'[t] \in Nat
                          /\ idle'[t] <= Deadline[t]
                          /\ idle'[t] < Deadline[t] => idle'[t] = idle[t] + 1
  BY <1>1, <1>2, Bounds DEF TypeOK, Advance, AtMost
<1>7. \A t \in Task : /\ waited[t] \in Nat /\ waited'[t] \in Nat
                      /\ waited'[t] <= Period[t]
                      /\ t \notin hung => waited'[t] = waited[t] + 1
  BY <1>1, <1>2, Bounds DEF TypeOK, Advance, AtMost
<1>8. shown \in Nat /\ shown' \in Nat /\ shown' <= shown + 1 /\ shown' <= Gap + 1
  BY <1>1, <1>2, Bounds DEF TypeOK, Advance, AtMost
<1>9. TypeOK'
  <2>1. waited' \in [Task -> Nat] /\ idle' \in [Critical -> Nat] /\ age' \in [Critical -> Nat]
    BY <1>2, <1>5, <1>6, <1>7
  <2>2. iwdg' \in Inactive .. WatchdogTimeout /\ shown' \in 0 .. Gap + 1
    BY <1>4, <1>8, Bounds DEF Inactive
  <2>. QED  BY <1>1, <1>2, <1>5, <1>6, <1>7, <2>1, <2>2 DEF TypeOK
<1>10. SincePass' = SincePass + 1 /\ SincePass \in Nat
  <2>1. CASE "supervisor" \in Hangable
    BY <1>4, <2>1 DEF SincePass
  <2>2. CASE "supervisor" \notin Hangable
    <3>1. "supervisor" \in Task \ hung
      BY <1>1, <2>2 DEF TypeOK, Task
    <3>. QED  BY <1>7, <2>2, <3>1 DEF SincePass
  <2>. QED  BY <2>1, <2>2
<1>11. Unnoticed'
  BY <1>1, <1>2, <1>3, <1>5, <1>10 DEF InTime, Unnoticed, TypeOK
<1>12. NoticedLate'
  BY <1>2, <1>3, <1>5, <1>6, Bounds DEF InTime, NoticedLate
<1>13. RefreshedInTime'
  BY <1>3, <1>4, <1>5, Bounds DEF InTime, RefreshedInTime
<1>14. WrittenSince'
  <2>1. "control" \in Critical
    BY DEF Critical
  <2>. QED
    BY <1>2, <1>3, <1>5, <1>8, <1>10, <2>1, Bounds DEF InTime, WrittenSince
<1>15. iwdg' # Inactive
  BY <1>4 DEF Inactive
<1>. QED
  BY <1>9, <1>11, <1>12, <1>13, <1>14, <1>15 DEF SupervisorInv, InTime

LEMMA SupervisorStep ==
  ASSUME SupervisorParams, SupervisorInv, [Next]_vars
  PROVE  SupervisorInv'
<1>1. CASE Reset
  <2>1. /\ waited' = Period /\ Period \in [Task -> Nat \ {0}]
        /\ hung' = {} /\ stage' = "waiting" /\ moved' = {} /\ output' = "safe"
        /\ iwdg' = Inactive /\ shown' = 0 /\ request' = FALSE /\ entered' = FALSE
        /\ idle' = [t \in Critical |-> 0] /\ age' = [t \in Critical |-> 0]
    BY <1>1 DEF Reset, SupervisorParams
  <2>2. TypeOK'
    <3>1. {request', entered'} \subseteq BOOLEAN
      BY <2>1
    <3>2. /\ waited' \in [Task -> Nat] /\ \A t \in Task : waited'[t] <= Period[t]
          /\ idle' \in [Critical -> Nat] /\ \A t \in Critical : idle'[t] <= Deadline[t]
          /\ age' \in [Critical -> Nat]
          /\ \A t \in Critical : age'[t] <= ResetAfter(t) + 1
      BY <2>1, Bounds
    <3>3. iwdg' \in Inactive .. WatchdogTimeout /\ shown' \in 0 .. Gap + 1
      BY <2>1, Bounds DEF Inactive
    <3>. QED  BY <2>1, <3>1, <3>2, <3>3 DEF TypeOK
  <2>. QED  BY <2>1, <2>2 DEF SupervisorInv, NotStarted
<1>2. CASE UNCHANGED vars
  BY <1>2 DEF vars, SupervisorInv, TypeOK, NotStarted, InTime, Unnoticed, NoticedLate,
              RefreshedInTime, WrittenSince, SincePass
<1>. QED
  BY <1>1, <1>2, QuietStep, WriteStep, BeatStep, PassStep, TickStep DEF Next

\* Whatever the periods and deadlines, and whichever tasks may hang, the supervisor
\* itself included: a critical task that stops beating gets the board reset in
\* bounded time, and its outputs do not stay.
THEOREM SupervisorBounds ==
  ASSUME SupervisorParams
  PROVE  Spec => [](TypeOK /\ ResetBound /\ SafeBound)
<1>1. Init => SupervisorInv
  BY SupervisorInit
<1>2. SupervisorInv /\ [Next]_vars => SupervisorInv'
  BY SupervisorStep
<1>3. SupervisorInv => TypeOK /\ ResetBound /\ SafeBound
  BY InvBounds
<1>. QED  BY <1>1, <1>2, <1>3, PTL DEF Spec

=============================================================================
