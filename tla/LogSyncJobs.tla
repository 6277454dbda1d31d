---------------------------- MODULE LogSyncJobs -----------------------------
(* Log sync: the worker that pulls log files from the car one job at a time   *)
(* (stack/logsync/app/manager.py), and the page that starts and controls jobs *)
(* and follows them over an event stream (app/log-sync/page.tsx, through the  *)
(* proxy api/logsync). A step of the worker ends where it awaits.             *)
EXTENDS Integers, Sequences, FiniteSets

CONSTANTS Files,        \* log files on the car
          MaxJobs,      \* bound on jobs
          Room,         \* how many files the staging disk holds
          MaxRetries,   \* rsync_max_retries
          Ops,          \* bound on what the user does
          Flips,        \* bound on changes of the car's motion and reachability
          Crashes,      \* bound on restarts of the worker and stream drops
          Watching,     \* is there a page, or is the API called without one?
          SlowAnswers,  \* may the answer to a new job come after its events?
          Late,         \* may a cancel come while the worker reads the motion?
          None

BoundsAssumption == /\ MaxJobs \in Nat /\ Room \in Nat /\ MaxRetries \in Nat \ {0}
                           /\ Ops \in Nat /\ Flips \in Nat /\ Crashes \in Nat
ModesAssumption == Watching \in BOOLEAN /\ SlowAnswers \in BOOLEAN /\ Late \in BOOLEAN

VARIABLES jobs,     \* the jobs and, saved with each change, their state
          ctrl,     \* _Control of each job: [cancel, paused]
          queue,    \* job ids waiting for the worker
          worker,   \* [job, pc, polled, last, stalled, fails, stable]
          stored,   \* the files in the shared store
          car,      \* [moving, reachable]
          streak,   \* files stored since the car began to move
          up,       \* is the worker process up?
          sse,      \* the page's EventSource: [state, q]
          shown,    \* the page's jobs: the state it shows for each
          answer,   \* the answer to POST /jobs under way
          busy,     \* the page's busy flag
          ops, flips, crashes

page == <<shown, answer, busy>>
work == <<jobs, ctrl, queue, worker, stored, sse>>
env == <<car, streak, up>>
count == <<ops, flips, crashes>>
vars == <<work, env, page, count>>

Terminal == {"completed", "failed", "canceled"}
Idle == [job |-> None, pc |-> "idle", polled |-> FALSE, last |-> 0, stalled |-> 0, fails |-> 0, stable |-> FALSE]
Control == [cancel |-> FALSE, paused |-> FALSE]

Init == /\ jobs = <<>> /\ ctrl = <<>> /\ queue = <<>> /\ worker = Idle /\ stored = {}
        /\ car = [moving |-> FALSE, reachable |-> TRUE] /\ streak = 0 /\ up = TRUE
        /\ sse = [state |-> IF Watching THEN "open" ELSE "closed", q |-> <<>>] /\ shown = <<>> /\ answer = None /\ busy = FALSE
        /\ ops = 0 /\ flips = 0 /\ crashes = 0

Transferred(j) == Cardinality(jobs[j].files \cap stored)
AllDone(j) == jobs[j].files \subseteq stored
NoRoom(j) == Cardinality(jobs[j].files \ stored) > Room - Cardinality(stored)

\* _persist publishes the job to the page's stream, whose queue of 100 is taken
\* to be enough; the same again adds nothing.
Published(j, s) ==
  LET e == [job |-> j, state |-> s] IN
  IF sse.state # "open" \/ (sse.q # <<>> /\ sse.q[Len(sse.q)] = e) THEN sse ELSE [sse EXCEPT !.q = Append(@, e)]
SetState(j, s) == jobs' = [jobs EXCEPT ![j].state = s] /\ sse' = Published(j, s)
Leave(j, s) == SetState(j, s) /\ worker' = Idle

\* The gates at the top of _run_job's loop, up to the motion read.
Loop(w) == LET j == w.job IN
  CASE ctrl[j].cancel -> Leave(j, "canceled")
    [] ~ctrl[j].cancel /\ AllDone(j) -> Leave(j, "completed")
    [] ~ctrl[j].cancel /\ ~AllDone(j) /\ ctrl[j].paused -> Leave(j, "paused")
    [] ~ctrl[j].cancel /\ ~AllDone(j) /\ ~ctrl[j].paused /\ NoRoom(j) -> Leave(j, "failed")
    [] OTHER -> worker' = [w EXCEPT !.pc = "reading"] /\ UNCHANGED <<jobs, sse>>

-----------------------------------------------------------------------------
(* The worker.                                                                *)

\* _worker_loop takes the next job; one that was ended in line is passed over.
Take ==
  /\ worker.pc = "idle" /\ queue # <<>> /\ queue' = Tail(queue)
  /\ LET j == Head(queue) IN
     IF jobs[j].state \in Terminal THEN UNCHANGED <<jobs, worker, sse>>
     ELSE Loop([Idle EXCEPT !.job = j, !.last = Transferred(j)])
  /\ UNCHANGED <<ctrl, stored, env, page, count>>

\* The motion gate: a moving car holds the slot, a still one starts rsync.
MotionRead ==
  /\ worker.pc = "reading"
  /\ IF car.moving
     THEN SetState(worker.job, "paused_motion") /\ worker' = [worker EXCEPT !.pc = "waiting", !.stable = FALSE]
     ELSE SetState(worker.job, "running") /\ worker' = [worker EXCEPT !.pc = "running", !.polled = TRUE]
  /\ UNCHANGED <<ctrl, queue, stored, env, page, count>>

\* _wait_motion_clear: two still reads in a row, or a pause or a cancel.
WaitMotionClear ==
  /\ worker.pc = "waiting"
  /\ IF ctrl[worker.job].cancel \/ ctrl[worker.job].paused \/ (~car.moving /\ worker.stable)
     THEN Loop(worker)
     ELSE worker' = [worker EXCEPT !.stable = ~car.moving] /\ UNCHANGED <<jobs, sse>>
  /\ UNCHANGED <<ctrl, queue, stored, env, page, count>>

\* rsync stores a file, one at most between two polls.
Transfer ==
  /\ worker.pc = "running" /\ worker.polled /\ car.reachable
  /\ \E f \in jobs[worker.job].files \ stored : stored' = stored \cup {f}
  /\ worker' = [worker EXCEPT !.polled = FALSE]
  /\ streak' = IF car.moving THEN streak + 1 ELSE 0
  /\ UNCHANGED <<jobs, ctrl, queue, sse, car, up, page, count>>

\* _supervise polls, and stops rsync for a cancel, a pause or motion.
Supervise ==
  /\ worker.pc = "running" /\ ~worker.polled
  /\ IF ctrl[worker.job].cancel \/ ctrl[worker.job].paused \/ car.moving
     THEN Loop(worker)
     ELSE worker' = [worker EXCEPT !.polled = TRUE] /\ UNCHANGED <<jobs, sse>>
  /\ UNCHANGED <<ctrl, queue, stored, env, page, count>>

Progressed == Transferred(worker.job) > worker.last

\* rsync ended well; files that vanished from the car are not there.
ExitOk ==
  /\ worker.pc = "running"
  /\ LET w == [worker EXCEPT !.last = Transferred(worker.job), !.stalled = IF Progressed THEN 0 ELSE @ + 1] IN
     IF AllDone(worker.job) THEN Leave(worker.job, "completed")
     ELSE IF w.stalled >= 2 THEN Leave(worker.job, "failed") ELSE Loop(w)
  /\ UNCHANGED <<ctrl, queue, stored, env, page, count>>

\* Counted no further than matters.
Failing == IF Progressed THEN 0 ELSE IF worker.fails = MaxRetries THEN MaxRetries ELSE worker.fails + 1

\* rsync lost the car: it is tried again for ever.
ExitTransient ==
  /\ worker.pc = "running" /\ ~car.reachable
  /\ SetState(worker.job, "running")
  /\ worker' = [worker EXCEPT !.pc = "sleeping", !.last = Transferred(worker.job), !.fails = Failing]
  /\ UNCHANGED <<ctrl, queue, stored, env, page, count>>

\* Any other error is given up after max_retries without progress.
ExitFailed ==
  /\ worker.pc = "running"
  /\ IF Failing >= MaxRetries THEN Leave(worker.job, "failed")
     ELSE /\ worker' = [worker EXCEPT !.pc = "sleeping", !.last = Transferred(worker.job), !.fails = Failing]
          /\ UNCHANGED <<jobs, sse>>
  /\ UNCHANGED <<ctrl, queue, stored, env, page, count>>

Wake == /\ worker.pc = "sleeping" /\ Loop(worker) /\ UNCHANGED <<ctrl, queue, stored, env, page, count>>

\* Restart. Controls are forgotten, but for a pause that was reached.
Crash == /\ up /\ crashes < Crashes /\ crashes' = crashes + 1 /\ up' = FALSE
         /\ worker' = Idle /\ queue' = <<>> /\ ctrl' = [j \in DOMAIN jobs |-> Control]
         /\ sse' = [state |-> IF sse.state = "open" THEN "lost" ELSE sse.state, q |-> <<>>]
         /\ UNCHANGED <<jobs, stored, car, streak, page, ops, flips>>

Interrupted == {j \in DOMAIN jobs : jobs[j].state \in {"queued", "running", "paused_motion"}}
\* Mutant: only jobs that were in line are put back.
BootQueued ==
  /\ ~up /\ up' = TRUE
  /\ queue' = SelectSeq([j \in DOMAIN jobs |-> j], LAMBDA j : jobs[j].state = "queued")
  /\ ctrl' = [j \in DOMAIN jobs |-> [Control EXCEPT !.paused = jobs[j].state = "paused"]]
  /\ UNCHANGED <<jobs, worker, stored, sse, car, streak, page, count>>
Boot ==
  /\ ~up /\ up' = TRUE
  /\ jobs' = [j \in DOMAIN jobs |-> IF j \in Interrupted THEN [jobs[j] EXCEPT !.state = "queued"] ELSE jobs[j]]
  /\ queue' = SelectSeq([j \in DOMAIN jobs |-> j], LAMBDA j : j \in Interrupted)
  /\ ctrl' = [j \in DOMAIN jobs |-> [Control EXCEPT !.paused = jobs[j].state = "paused"]]
  /\ UNCHANGED <<worker, stored, sse, car, streak, page, count>>

-----------------------------------------------------------------------------
(* The API, called from the page's buttons.                                   *)

User == ops < Ops /\ ops' = ops + 1 /\ up

Shows(j, states) == ~Watching \/ (j \in DOMAIN shown /\ shown[j] \in states)

\* startJob: the worker lists the car's files and answers with the job.
StartJob(files) ==
  /\ User /\ ~busy /\ car.reachable /\ Len(jobs) < MaxJobs /\ busy' = Watching
  /\ jobs' = Append(jobs, [files |-> files, state |-> "queued"])
  /\ ctrl' = Append(ctrl, Control) /\ queue' = Append(queue, Len(jobs'))
  /\ sse' = Published(Len(jobs'), "queued")
  /\ answer' = IF Watching THEN [job |-> Len(jobs'), state |-> "queued"] ELSE None
  /\ UNCHANGED <<worker, stored, env, shown, flips, crashes>>

Show(j, s) == [i \in DOMAIN shown \cup {j} |-> IF i = j THEN s ELSE shown[i]]
JobAnswered == /\ answer # None /\ shown' = Show(answer.job, answer.state) /\ answer' = None /\ busy' = FALSE
               /\ UNCHANGED <<work, env, count>>

Pause(j) ==
  /\ User /\ Shows(j, {"running", "queued", "paused_motion"}) /\ jobs[j].state \notin Terminal
  /\ ctrl' = [ctrl EXCEPT ![j].paused = TRUE]
  /\ UNCHANGED <<jobs, queue, worker, stored, sse, env, page, flips, crashes>>

Resume(j) ==
  /\ User /\ Shows(j, {"paused"}) /\ jobs[j].state \in {"paused", "paused_motion", "queued", "failed"}
  /\ ctrl' = [ctrl EXCEPT ![j].paused = FALSE]
  /\ IF jobs[j].state \in {"paused", "failed"}
     THEN SetState(j, "queued") /\ queue' = Append(queue, j)
     ELSE UNCHANGED <<jobs, sse, queue>>
  /\ UNCHANGED <<worker, stored, env, page, flips, crashes>>

Cancel(j) ==
  /\ User /\ Shows(j, {"queued", "running", "paused", "paused_motion"}) /\ jobs[j].state \notin Terminal
  /\ Late \/ worker.job # j \/ worker.pc # "reading"
  /\ ctrl' = [ctrl EXCEPT ![j].cancel = TRUE]
  /\ IF jobs[j].state \in {"paused", "queued"} THEN SetState(j, "canceled") ELSE UNCHANGED <<jobs, sse>>
  /\ UNCHANGED <<queue, worker, stored, env, page, flips, crashes>>

-----------------------------------------------------------------------------
(* The page's event stream.                                                   *)

Event == /\ sse.state = "open" /\ sse.q # <<>> /\ sse' = [sse EXCEPT !.q = Tail(@)]
         /\ shown' = Show(Head(sse.q).job, Head(sse.q).state)
         /\ UNCHANGED <<jobs, ctrl, queue, worker, stored, env, answer, busy, count>>

Drop == /\ sse.state = "open" /\ crashes < Crashes /\ crashes' = crashes + 1
        /\ sse' = [state |-> "lost", q |-> <<>>]
        /\ UNCHANGED <<jobs, ctrl, queue, worker, stored, env, page, ops, flips>>

\* The browser connects again. With the worker down the proxy answers 502, and
\* an EventSource that gets an error status closes for good.
Reconnect ==
  /\ sse.state = "lost"
  /\ IF up THEN sse' = [state |-> "open", q |-> <<>>] /\ shown' = [j \in DOMAIN jobs |-> jobs[j].state]
     ELSE sse' = [state |-> "closed", q |-> <<>>] /\ UNCHANGED shown
  /\ UNCHANGED <<jobs, ctrl, queue, worker, stored, env, answer, busy, count>>

Reload == /\ Watching /\ sse.state = "closed" /\ User /\ sse' = [state |-> "open", q |-> <<>>]
          /\ shown' = [j \in DOMAIN jobs |-> jobs[j].state] /\ busy' = FALSE /\ answer' = None
          /\ UNCHANGED <<jobs, ctrl, queue, worker, stored, env, flips, crashes>>

CarChanges == /\ flips < Flips /\ flips' = flips + 1 /\ streak' = 0
              /\ \/ car' = [car EXCEPT !.moving = ~@]
                 \/ car' = [car EXCEPT !.reachable = ~@]
              /\ UNCHANGED <<work, up, page, ops, crashes>>

Working == /\ up
           /\ \/ Take \/ MotionRead \/ WaitMotionClear \/ Transfer \/ Supervise
              \/ ExitOk \/ ExitTransient \/ ExitFailed \/ Wake
Calls == \/ \E files \in SUBSET Files \ {{}} : StartJob(files)
         \/ \E j \in DOMAIN jobs : Pause(j) \/ Resume(j) \/ Cancel(j)

Next == \/ JobAnswered
        \/ /\ SlowAnswers \/ answer = None
           /\ Working \/ Crash \/ Boot \/ Calls \/ Event \/ Drop \/ Reconnect \/ Reload \/ CarChanges

\* Timers and awaits of the worker go on, a process that died is started
\* again, the browser reads its stream and tries to connect again.
Fairness == /\ WF_vars(Working) /\ WF_vars(Boot) /\ WF_vars(Event) /\ WF_vars(Reconnect) /\ WF_vars(JobAnswered)
Spec == Init /\ [][Next]_vars /\ Fairness

-----------------------------------------------------------------------------
\* A job in line is in the queue once, and one under way is the worker's: no
\* pause, cancel, failure or restart leaves a job that nobody will run.
NoneForgotten ==
  up => \A j \in DOMAIN jobs :
    LET places == Cardinality({i \in DOMAIN queue : queue[i] = j}) + (IF worker.job = j THEN 1 ELSE 0) IN
    /\ places <= 1
    /\ jobs[j].state = "queued" => places = 1
    /\ jobs[j].state \in {"running", "paused_motion"} => worker.job = j

\* A job that was completed or cancelled stays so.
EndedStays == \A j \in DOMAIN jobs : jobs[j].state \in {"completed", "canceled"} => jobs'[j].state = jobs[j].state

\* After the car moves off, no more is pulled than one poll lets through.
MotionYields == streak <= 1

\* Once the car stands still within reach, every job ends or rests in a pause.
Settles ==
  <>[](~car.moving /\ car.reachable) => <>[](\A j \in DOMAIN jobs : jobs[j].state \in Terminal \cup {"paused"})

\* A page whose stream is open and read to its end shows every job as it is.
PageCurrent ==
  (sse.state = "open" /\ sse.q = <<>> /\ answer = None /\ up)
    => \A j \in DOMAIN jobs : j \in DOMAIN shown /\ shown[j] = jobs[j].state

=============================================================================
