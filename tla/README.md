# TLA+ specifications of the Longhorn Racing Electric software

The repository holds the firmware of the Vehicle Control Unit (VCU), the
daemons on the car's Raspberry Pi (BEVO, with the driver's dash), the telemetry
stack (ingest, log sync, the Grafana datasource), the viewer tool that the crew
uses at the track and after it, the autonomy stack and the CAN specification.
The VCU decides whether the inverter may produce torque; nearly all TypeScript of
the repository is what the crew and the driver look at. This project specifies
both, and proves the properties that matter most of each.

## Inventory

### Vehicle Control Unit

| Part | State it keeps | Operations | Talks to |
|---|---|---|---|
| Control task (`boards/VCU/App/app/control_loop.cpp`) | latest message per CAN id with arrival time, debouncers, pedal filters and timers, latches, faults, vehicle state, mode, torque request | `ControlTick` every 3 ms | CAN inboxes, ADC/GPIO, inverter frames, shared atomics |
| State machine, pedals, faults, shutdown loop (`safety/`, `control/pedals.cpp`) | vehicle state, persistence timers, filters, brake and coolant latches, two loop taps | `Step`, `Update`, `Restore` | control task |
| Latch journal (`Board/fault_store.cpp`), telemetry task | a 2 KB flash page of value/complement records, the pending flag | `LoadFaultLatch`, `SaveFaultLatch`, `TelemetryTick` | control task's atomics, flash |
| Supervisor (`app/supervisor.cpp`) | beats seen and when | `SupervisorTick` every 20 ms | all tasks, watchdog, outputs, bootloader |
| CAN inbox (`can_inbox.hpp`) | ring of 64 frames, two counters | `Push` (interrupt), `Pop` (control task) | CAN driver, control task |
| Torque path, launch, regen, battery, shells | integrators, ramps, line buffers | `Update`, `/mode`, `/launch` | control task |

Hard here: five tasks and an interrupt share state without locks; every decision
depends on message ages, so losses and late ticks matter as much as contents; the
table takes the first row that applies; the brake latch must survive power loss
through a page that can only clear bits; stalls must end in safe outputs and a
reset within a known time.

### Trackside page (`viewer_tool/src/app/trackside-live`, `lib/trackside`)

| Part | State it keeps | Operations | Talks to |
|---|---|---|---|
| Presence (`usePresence.ts`, `api/motec/live/presence`) | seats, leader, lock, requests | heartbeat, claim, force, request, grant, lock, leave | every open page |
| Live feed (`startLiveData`, stream route) | EventSource, the wish for a feed, a reconnect timer | start, stop, reset, reconnect | broker, Kafka |
| Lap timer (`processLiveSample`, manual buttons) | running lap, sectors, lap table, selection | gate crossing, split, press, stop lap, edits | live feed |
| Session cache | localStorage, IndexedDB, server file, "ended" marker | save, restore, stop, poll | presence, lap timer |
| Session registry (`sessionRegistry.ts`) | capped lists in browser and worker | start, patch, push with retries, merge | log-sync worker |
| Race plan (`useRacePlan.ts`) | plan per page and on the server, grace timer | type, put, poll | every page |
| Drive days (`api/end-event`, `new-drive-day`, `laps/sync`, ...) | rows of days, laps, flags | start, stop, debounced syncs, flag | database |

Hard here: several browsers change one session; answers overtake each other and
edits made meanwhile; a page may be reloaded between any two of its writes; React
effects and closures act on the state they captured.

### The driver's dash (`lib/dash`, `apps/BEVO/dashd`)

| Part | State it keeps | Operations | Talks to |
|---|---|---|---|
| Commands (`dashSignals.ts`) | target power, deltas, retained settings, screen override | publish, keepalive, connect, hand over | broker, dashd |
| Lap counter (`TracksideApp`, `dashSignals.ts`, `main.rs`) | count of page and car, unsent laps | trigger, count, reset, republish | broker, dashd |
| Message library, layout designer | library per page and on the server, versions | edit, pull, save, merge on conflict, send to car | server, broker |
| Screens (`Dashboard.tsx`, `useEnergyPacing.ts`, `LapCardOverlay.tsx`) | screen shown, override, baseline lap, card and its snapshot | frame, Enter, gear, override, reload | dashd |
| Settings, readouts, panels | theme and sun window; none (pure drawing) | keys; draw | - |

Hard here: fire-and-forget messages over links that fail half-open; two counters of
one thing; concurrent editors of one library.

### Reviewing (`lib/driveday`, `components/driveday`, `TrackMapper.tsx`, `app/replay`)

Player clock with loops and laps; notes, cone hits and imported flags; the list of
runs in IndexedDB; the track mapper that saves by itself; the replay of a stored day
over an event stream. Hard: display-frame callbacks against clicks, answers that
come late, timers that outlive what they belong to.

### Data paths

Kafka consumer, SSE bridge and `useKafkaStream`; car-status feed; the generated
protobuf stubs of the car Angelique; query and configuration editors of the
Grafana Kafka datasource; log-sync jobs, notes and files with their pages. Hard:
values that outlive their feed, clients that leave during an `await`, editors that
write back what they captured, a worker that restarts in the middle of a job, two
versions of one schema.

`PROJECT.json` lists the hazards at their lines with the properties that cover
them, and for those that no property covers the reason: there the code does what it should
not, and the property has it excluded (see "Where the code and its comments part").

## Modules

| Module | Models | Kind |
|---|---|---|
| `Debounce`, `VcuStateMachine`, `VcuPedals` | helpers, table and pedals of the control tick | operators |
| `VcuControl` | `ControlTick` stage by stage, and the other tasks where they touch its state | state machine |
| `MCVcuControl` | `VcuControl` in four environments, with an observer of how long a bad reading has lasted | environment |
| `LatchRegister`, `BoundedFifo` | what the brake latch, and a CAN inbox, promise | abstract specifications |
| `FaultStore`, `VcuSupervisor`, `CanInbox` | journal, tasks against the clock, ring | state machines |
| `VcuBoard` | the three of them, scene by scene | composition |
| `Presence`, `LiveFeed`, `LapTimer`, `SessionCache`, `SessionRegistry`, `RacePlan`, `DriveDays` | the trackside page | state machines |
| `Trackside` | its scenes | composition |
| `DashCommands`, `DashLaps`, `MessageLibrary`, `DashDesigner`, `DashScreen`, `DashSettings`, `DashReadouts`, `DashPanels` | the dash | state machines |
| `Dash` | its scenes | composition |
| `ReviewPlayer`, `ReviewNotes`, `ReviewRuns`, `TrackMapper`, `Replay` | reviewing | state machines |
| `Review` | its scenes | composition |
| `KafkaStream`, `CarStatusFeed`, `AngeliqueFeed`, `GrafanaQuery`, `GrafanaConfig`, `LogSyncJobs`, `LogNotes`, `LogFiles` | data paths | state machines |
| `Data` | their scenes | composition |
| `VcuControlProofs`, `FaultStoreProofs`, `GrafanaProofs` | theorems of the VCU's control and board, and of the datasource | proofs |

The proofs of `VcuSupervisor`, `CanInbox` and `Review` are the last part of
those modules. `Dash` and `Trackside` are laid out part by part: the components with theorems
(in `Dash` the lap counter, the commands and the screen; in `Trackside` drive days, laps and the
stored session, the feed, presence) come first, each with its instances, its invariant and the
lemmas about its steps, which keeps what the provers see small; then the other components, `Init`, `Next`, `Spec`, the properties and the theorems.

`VcuControl` and `FaultStore` both implement `LatchRegister`: the first sees the
journal as one stored value and one atomic save, the second opens that save up into
exchange, load, scan, erase and program. `CanInbox` implements `BoundedFifo`.

**Scenes.** A component module models its component together with what its server,
broker or browser does to it, so two components never share a variable. The composing
modules instantiate each component once or more, with the constants of a *scene*,
and a behaviour plays one scene, chosen in the initial state; the others rest. The
configuration names the scenes. `InX` of a composing module is the next-state
relation of component `X` in its scenes.

**Properties.** Each composing module restates the properties of its components for
their scenes, each with the sentence it stands for, and conjoins those of one
component, or of one concern, under one name: these conjunctions are what the runs
check.

**Wrong variants.** Operators marked "Slip" or "Mutant" are deliberately wrong forms
of the definition after them (a dropped guard, a swapped order). No specification
uses them. `PROJECT.json` pairs each with the property that fails when it takes the
place of the definition, so that the property is seen to depend on that code.

**Map.** `PROJECT.json` maps the definitions that carry the code, with the lines they
stand for. Constructors of messages, one-line abbreviations and constants of a
definition are covered by the entry whose lines contain theirs.

### Correspondence with the code: the VCU

* **Time.** The code stores `since_ms_` and compares with
  `lhal::ElapsedMs`. The models keep the elapsed time itself, capped at the
  interval it is compared with; beyond that the code cannot tell two times
  apart. The 32-bit wrap of the clock is not modelled: the subtraction in
  `ElapsedMs` is exact for intervals below 2^32 ms. Every tick advances by some
  `dt` of `TickMs`, so late ticks are included where that set has more than one
  element.
* **Inputs.** A tick reads an arbitrary record of `Inputs`: which frames
  arrived, their contents, pins, ADC progress, pedal readings. Sensor voltages
  are abstracted to travel, pressure and "outside the window"; a shutdown tap to
  its position relative to the two thresholds. Filters use integer arithmetic.
* **Control tick.** `ControlTick` is the conjunction of the code's stages in
  their order: later stages read the primed values of earlier ones, and
  `ComputeFaults` reads the state before the transition, as the code does. The
  result of `PositiveTorque` is any value between zero and the limit (zero for a
  released pedal), that of `BrakeRegen` any value in its range; the code clamps
  both.
* **Outputs.** `torque_command` and `inverter_enable` are what the inverter was
  last told. `EnterBootloader` sends a stop frame and sets safe outputs.
* **Shared atomics.** The control task has priority over telemetry and shells
  on a single core, so a control tick is one step to them, while every access
  of theirs is a step that a control tick may precede. The
  exception is `bootloader_request_`, which the receive interrupt of the USB
  console may set while a tick runs and which the tick reads twice
  (`control_loop.cpp:253,363`): `RequestDuringTick` lets it appear between the
  reads, and the frame then carries a torque with the enable bit off.
* **Flash.** A word is the set of its one bits; erase sets all, program clears
  some. Programming that is cut short leaves any record between the erased one
  and the target. A single-bank part (`DualBank = FALSE`) loads clear and saves
  nothing. `EraseTears` and `FlashFails` say whether an interrupted erase can
  leave part of the page erased and whether operations can report errors.
* **Scheduling** in `VcuSupervisor`. A task that is not hung runs at least once
  per period; `Hang` and `Resume` make any allowed task stop at any point and
  continue from there. `ControlCompute`, `ControlWrite` and `ControlBeat` split
  the control tick where the supervisor's own writes can come between.
* **Inbox.** A frame has two parts, id and data, copied in separate steps; the
  memory order of the atomics makes each side see the other's steps in order.

### Correspondence with the code: the TypeScript side

* **Handlers and effects.** A step is what JavaScript runs without yielding: an event
  handler, a timer, a continuation after an `await`. What React does after a handler,
  its effects, is part of the step where no other event can come first, and is a
  set of due effects ("pending" in `TrackMapper`) where the order matters. Closures
  carry the values they captured (`GrafanaQuery`, `SessionCache`, `DashDesigner`).
* **Requests.** A request is a message, handled by the server in one step (in several
  where the route awaits between its own accesses: `DashDesigner`, `CarStatusFeed`),
  and its answer another message. They are lost, late or reordered as far as the
  scene allows; where the code orders them, the model does.
* **Time.** Debounces, grace periods and staleness are facts such as "the timer is
  due"; `ReviewPlayer`, `LapTimer` and `DashSettings` count in coarse units.
* **Browser and broker.** An `EventSource` reconnects by itself until it is closed,
  `localStorage` is written at once, IndexedDB answers later and in order, a retained
  MQTT message is delivered on connecting, a half-open link takes messages that never
  arrive. These, Grafana, Kafka and rsync are external and modelled from how the code
  uses them.
* **Payloads.** A lap is its interval and its energy, a layout a version per author, a
  session its identity and number of laps. `AngeliqueFeed` keeps every field number and
  wire type of both generated stubs, because the property is about them. `DashReadouts`
  keeps the arithmetic of rounding and clamping, in thousandths.

## Runs

| Run | Question | Bounds |
|---|---|---|
| `control` | Is the car in DRIVE, torque on, the latch set or cleared, a mode changed only when it should be? | scene *drive*: any one frame, report or reading bad per tick, timeouts of two ticks so that two losses overlap; *latch*: two comparator pins, both coolant levels, reset held or not, saves and board resets in between; *modes*: three modes and an unknown code, bootloader requests, all regen results for a limit of 1 Nm |
| `reaction` | Does any lasting condition cut torque in its time? (For the motor speed, which two frames carry, the time is the longer of their timeouts.) | timeouts of two and four, debounces of two and three, ticks of one or two, overlapping losses |
| `board` | Does the journal keep the latch through power loss at every step, a completed save count whatever failed before, the ring hand over every frame, whole, once and in order (`InboxIsQueue`), and does what was handed over arrive (`BoardDelivers`)? | three records of two-bit words; ring of depth 2 with counters modulo 4 |
| `tasks` | Are stalled outputs made safe and the board reset in time, with the supervisor running and hung? | units of 10 ms: periods 1, 1, 2; deadlines 3 and 5; watchdog 6 |
| `trackside` | Do several pages keep one session right over silence, reloads, failures and each other? | three clients and two seats; three streams, two faults and an outage; two laps with split, edit and reload; two sessions; two devices, three edits, two failing pushes, late pushes that overtake, a second load and two records at the cap; five moves on two days, then slow and lost requests |
| `trackside_live` | And what must be reached in the end? | two pages, two disturbances |
| `dash` | Do car and pages agree, are palettes and layouts sound, is the screen right? | two pages, three presses and failures; up to four laps, two reloads or drops; two editors, three edits; two laps with four moves; values around every limit |
| `review` | Are clock, notes, runs, tracks and replay those the user asked for? | two laps of four units, rates one and two, frames one unit apart (up to two in the loop), three waiting callbacks; two imports; three opens; three points, five events; two days of four ticks, two lost connections, summaries that come late |
| `data` | Does data reach the right viewer and stay what it was? | two cars, three messages; two pages, three stream slots, clients that leave while their stream starts; one or two fields set, of every section; three edits with every control; two jobs of two files, a crash; four moves on notes and files |

Why the bounds are enough. VCU: ages and timers are compared with one interval each,
so an interval of two ticks has all phases; two overlapping losses show every order in
which two causes can expire; three records give a page with a valid, a torn and a free
one, and its recycling; a modulus of twice the depth makes full and empty occur on
every side of the wrap. TypeScript: the hazards are races of two (an answer and an
edit, two pages, a timer and a reload), so two actors and one disturbance more than the
race needs are enough to show it; every action and every alternative is taken in some
scene.

Three runs end in a violation, each of a sentence of the repository:

* `reset_press`: `faults.hpp` calls `reset_edge` "a rising edge of the dash's
  fault_reset". The level includes the message's freshness: the dash holds
  `fault_reset`, its message times out and comes back, and the latch clears without
  a new press.
* `flash_failure`: the README of the board says a power cycle does not clear the soft
  latch. A failed erase or program is not noticed and not retried.
* `wire_skew`: the viewer's stub and the ingest service's number the thermal message
  differently. A packet written with the ingest service's is read by the viewer's, which
  takes each temperature for its neighbour's. No code was found that goes the other way.

What some of the properties say, and what they leave open:

* `SharedKept`: pushes fail, are repeated after their answer was lost, and overtake each
  other, so that an old record replaces a newer one on the worker. No browser takes over an
  older record than its own (`NeverOlder`), the running session is not dropped
  (`CurrentKept`), and what a late push undid is back once the browser has loaded again:
  `PlanStored` counts browsers from their last answered load on. Until then the worker
  may be behind. A record that changes while the page merges an answer is out (`Hasty`).
* `LibrariesSafe`: the library of messages is the last writer's, as the code means it to be, and
  of two pages that edit it one may lose its edits; what is checked of it is the palette, the
  car's copy, and that opening a page changes nothing. Layouts have versions: the header of
  `api/dash/layouts/route.ts` speaks of "Last-writer-wins on the whole library", while its
  `PUT` refuses a save based on another version and the editor merges. Whether a layout is kept
  is checked with saves handled one at a time.
* `ScreenSound`: every lap that a frame brings to the page has its card. A frame carries the last
  lap only, so that of two laps completed while the link is down the first gets none, and
  a lap that takes the number of a deselected one gets none either.
* `CarAgrees`: undone laps, cards and reloads are each in a scene without the other two.
* `ReplaySound`: with late summaries and a lost stream it says that events and stream are those
  of the last choice, that the cursor is not before the start of the stream, and that the end
  is the end. The timeline may then be that of another event, and a reopened stream takes
  the cursor back to its start, so those two are for the scene without.
* `FeedsTrue`: a client that leaves while `start()` awaits leaves no handler behind that
  throws. `cleanup` is still empty then, but `start()` sends its report before it registers,
  and `enqueue` throws on a cancelled stream, so it ends there. If nobody had begun to read the
  response the stream is not cancelled, and the handler stays but does not throw. With
  report and registration swapped `EveryPageHears` is violated.

Deadlock is checked in the VCU's runs. In the others users stop: each scene bounds
what they do, and a state in which they did it all and every answer came is an end.

### Fairness

* `board`: the telemetry task's steps (a periodic task whose failure to run ends in a
  reset), the rest of a `Push` that has begun (an interrupt handler runs to its end)
  and `Pop` (control drains its inbox every tick). No fairness of arrivals.
* `trackside_live`: timers fire (heartbeats, polls, retries, the load of a page), the
  server handles what it was sent, an answer that is not lost arrives. The plan's grace
  period has strong fairness: each edit restarts it, and it ends once edits do. User
  actions and disturbances have none; they are bounded.
* `dash`: the one-second keepalive tick, frames, and the timer of a card.
* `review`: display frames come while the tab is shown and run the callbacks waiting;
  the server answers and the stream ticks.
* `data`: timers and effects of a mounted widget, the server and `EventSource` events
  of an absent route, the worker's loop and its restart by the container.

## Proofs

Every theorem holds for all values of the constants that satisfy the named assumptions;
the runs give those constants small values. A composing module passes the constants
its theorems generalise through to its configuration (`Seat...`, `Feed...`, `Gate...`, `End...`,
`Back...`, `Day...`, `Lossy...` of `Trackside`, `Lap...`, `Run...`, `Replay...` and their kin of `Review`, `Cmd...`,
`Cut...`, `Card...`, `Resume...`, `Repair...`, `Race...`, `Demo...` of `Dash`, `Panel...` of
`Data`); `ReviewBounds`, `DataBounds`, `VcuBoardBounds` and, in `Dash`,
`LapsBounds`, `CommandsBounds`, `ScreenBounds` and `DashBounds`, in `Trackside` `DaysBounds`,
`ReloadBounds`, `FeedBounds`, `SeatBounds` and `TracksideBounds` conjoin the assumptions of the
instances, and TLC evaluates them. Each inductive invariant was checked
as an invariant of its run before it was proved.

### VCU control task: `VcuControlProofs`

Assumes `PedalParams` and `ControlParams`: ticks and timeouts are positive, the pedals'
calibration is a range, the modes offered are among the codes the dash can send.

* `ControlTypes` (`TypeOK`), by one lemma per stage of the tick. The interval caps and
  the range of the EMA filters are the non-trivial part.
* `DriveIsReady` (`DriveOnlyWhenReady`). A tick that ends in DRIVE took a row whose
  guard, or the failure of the rows before it, leaves no torque-cut fault
  (`StepToDrive`); and no torque-cut fault means no cause (`NoCutNoCause`).
* `TorqueIsGated`, `BspdStays`, `ModesWaitForDrive`.
* `DriveIsAnnounced` (`DriveAnnouncedAndEnded`): a drive begins with the full
  ready-to-drive sound, no sound comes from elsewhere, and a tripped BSPD ends it for good.
  That no torque is left after a drive is `TorqueIsGated`.
* `EnableIsDeliberate` (`EnableNeedsRtdSequence`). Not inductive by itself: a tick in
  DRIVE with a disabled inverter could enable it. The strengthening `OffForBootloader`
  says that in DRIVE the inverter is off only for a pending or entered bootloader, and
  those two never go away without a reset.
* `LatchIsSaved`, `OnlyDashClears`, `ControlImplementsRegister`. The refinement uses
  `LatchReachesFlash` as its invariant: a save writes the latch as it is.
* `ReactionIsBounded` (`ReactionBound` of `MCVcuControl`): with any inputs, ticks, timeouts
  and calibrations, the inverter is not enabled once a condition that cuts torque has shown on
  every reading for the code's own time. The invariant ties the observer's clock of each
  condition to the timer in the code that watches it: as long as the inverter is on, the
  observer is not ahead of the timer, and a timer at its end sets the fault on that tick.

### VCU board: `FaultStoreProofs`, `VcuSupervisor`, `CanInbox`

* `StoreTypes`, whatever fails, for every page size, word width and latch word;
* `SavedIsLoaded` (`SaveTakes`), `QuietIsStored` (`StoredWhenQuiet`) and
  `StoreImplementsRegister`. They assume `DualBank` and `~EraseTears`, the last two
  `~FlashFails` as well; `flash_failure` shows that this one is needed, and an erase
  that tears a page does break the journal: erased records before old ones let the scan
  run on into the old ones once the gap is filled. The inductive invariant `JournalInv`
  says that the page is a prefix of used records followed by erased ones and that the
  record about to be programmed is the first erased one. `TornIsInvalid` is the heart:
  a partly programmed record that is valid is complete. `Handoff` relates the pending
  flag, the value, the save under way and the journal.
* `SupervisorBounds`, and `BoardTasksBounded` (`TasksBounded`) for the board's scenes: for
  all periods and deadlines of `SupervisorParams`, whichever tasks may hang and the
  supervisor too, a critical task that stops beating gets the board reset, or its outputs made
  safe, in bounded time. The supervisor does not see when a task beat, only in which of its
  passes it noticed: `SupervisorInv` bounds a noticed beat by the pass that noticed it, an
  unnoticed one by the last pass, and the pass by the last refresh of the watchdog.
* `InboxIsFifo`, and `BoardInboxIsQueue` (`InboxIsQueue`): the ring of `CanInbox` implements
  `BoundedFifo` at every depth, with counters that wrap (`InboxParams`: the modulus is a
  multiple of the depth and larger than it). `InboxInv` says who owns which slot: a `Push` under way writes
  only the slot after the newest, a `Pop` reads only the oldest, and each slot between holds
  both halves of one frame. The rest is arithmetic modulo the depth.

### Trackside: `Trackside`

* `FeedIsSound` (`FeedSound`): for any number of streams, calls, presses, faults and
  outages no reconnect timer outlives the wish for the feed, and the reference of a mounted page
  never holds a closed source. `FeedShape` says what a call that is still on its way may do.
* `LeaderHoldsLock` (`LockHolds`), an action property: for any clients, administrators, seats,
  messages under way and disturbances, a locked leader loses the lead only to a grant of
  its own, to a claim in its absence or by force. Its invariant `SeatInv` says that a lock
  always names a client and that nobody else writes the route's state. `Presence` holds the seats
  as a set with the relation "took its seat earlier", so that who leads without a designation
  needs no induction over a list.
* `DaysAreSound` (`DaysSound`), for any number of moves, sessions, packets, flags and lost
  calls. The scene with prompt answers rests on `DayInv`: at most one request opens or closes
  a day, for the session under way, which has none yet (`LinkInv`); the last day alone
  may be open (`RangeInv`, from which `OneActive` takes that "the latest active day" of the
  routes is *the* active one); every day has its laps, or a request or the timer brings them,
  and a sync between its two queries leaves no foreign row (`LapInv`); the same of the setup
  (`SetupInv`). The scene with late and lost calls rests on `FlagInv`: the clock is
  ahead of every flag on the page, on its way or stored.
* `ReloadIsTrue` (`ReloadTrue`), three action properties, for any bounds on laps, sessions,
  saves, reloads, flags and lost requests. `ChoiceInv`: laps are numbered as they stand, so that
  the id of a new lap is its own, until one is deleted, and all of them count until one is
  deselected. A deletion lets ids repeat, so the theorem, like the run, has one edit. `CacheInv`:
  the copy in localStorage is newer than the Stop marker and than every other copy, wherever
  that one is stored, queued, on its way or already read (`NewestInv`), and a page that is still
  loading shows nothing and has read localStorage (`LoadInv`). `EndedInv` adds that the
  session in localStorage was not stopped. Both scenes have one browser; the one about a stopped
  session has no flags at all, as the answer to a flag saved before Stop does revive it. `StopsSteps` and `BackSteps` show that the two instances
  take the same steps, so the lemmas about them are stated once.

### Reviewing: `Review`

* `RunsAreTrue` (`RunsTrue`): for any set of runs and any number of reads, deletions and
  imports under way the run shown is the one asked for last, the list is what is stored, and an
  unhurried deletion leaves nothing behind (`OpenInv`, `DeleteInv`).
* `PlayerIsSound` (`PlayerSound`): for any laps, rates, gaps between frames and number of
  callbacks waiting (`SessionAssumption`). `ClockInv` bounds the time played by the time
  passed, less what the callbacks still to run have not counted; `LoopInv` keeps clock, lap and
  loop inside the recording.

* `ReplayIsSound` (`ReplaySound`): for any days, spans, gaps between packets, seek marks and
  moves, and any number of connections reopened or lost. On a stream that is not lost, with
  prompt summaries, `AskedInv` and `ChosenInv` tie what is still on its way to the day or event it
  was asked for, so that a late answer is dropped; `CursorInv` says that there is a cursor only on a
  timeline and that the page has one idea of where it is; `ConnInv` says that the open stream
  is that of the present choice and that no packet it may still send is before the cursor,
  which is why no late state takes it back. With lost streams and late summaries, `LossyInv`
  keeps of these what survives: events of another day are dropped (`AskedInv`), the open stream
  is the page's own and starts where it was set off, every packet it has sent or may send
  again is not before that (`StreamInv`, `HeldInv`), and the end shown is that of the timeline
  shown.

### The dash: `Dash`

Assumes `LapsBounds`, `CommandsBounds` and `ScreenBounds` (bounds are numbers, target powers are
numbers) and `DashNone`, `RaceNone`: the mark for "nothing" is no number, link state, lap or
message.

* `CarIsAgreed` (`CarAgrees`): for any pages, powers and bounds, in the scenes described under
  "Runs".
  * The lap count. `EchoInv` looks at the messages under way as a whole: there is a number *g*
    that the car would have had it missed nothing, the messages take it from *g* to a number *e*,
    a `lapTrigger` among them never changes it (`Echoes`), and *e* is the number the page
    published last (`EchoCar`). A page that drains its unsent laps repeats its count, which is
    why a `lapTrigger` after a `lapCount` fires no card, and of one lost message at most one
    card comes, for the lap that brings the car back to *g*. Where laps ask for cards
    (`CardsInv`), the messages are triggers up to the last number published. The three scenes
    without cards are one specification, `LapsEcho`, with the sum of their bounds
    (`CutIsEcho`, `ResumeIsEcho`, `RepairIsEcho`); a page that was reloaded and a count that was
    cut down are kept apart, as together they do break `SameNumber`.
  * Commands. `CommandsInv`: with one leader, who does not lead has no link and nothing to keep
    alive, and what the leader's keepalive sends is what its page shows. `RolesInv`: over a
    change of leader, what is retained is the linked leader's setting and is in force, and an
    override is of the present gear.
* `ScreenIsSound` (`ScreenSound`): for any overrides and durations, laps and moves. `RaceInv`
  relates the car's last lap, the lap on the page, the baseline it compares with and the card:
  the lap on the page is the car's or an older one (`RacePageLap`), the baseline is that lap
  (`RaceBaseline`), the card is its card (`RaceCard`), and whatever had its card is a lap of
  the car, its last one only if the page has it (`RaceShown`), from which `NoRepeat` follows. It is the scene without rare
  events: no lap is deselected, and a reset comes on a live link with no card up.
  `RaceRouting` says that an override covers the screen of the page's own index. `DemoInv` is
  what `NoYank` needs of demo mode.

### Grafana datasource: `GrafanaProofs`

Assumes `GrafanaConfigParams` and `GrafanaQueryParams`; any set of controls, topics and
numbers, any number of edits.

* `DatasourceIsSound` (`GrafanaSound`): the query editor runs what it shows, the stream is that
  of the query that ran, the backend uses exactly the layers of security and the mechanism that
  the configuration editor shows, and defaults are filled in once. `QueryInv` and
  `StreamInv` follow a query from the form through the debounce to the stream's path.
* `DatasourceSavedAsEntered` (`SavedAsEntered`), from `ConfigSavedAsEntered` of the editor
  alone: an entry changes only when its control is used or the editor fills it in on
  mounting, and is saved as entered. They rest on `ConfigInv`: `Shape` (the domains of form
  and store), `FormFaithful` (entry by entry the form holds what was entered, or else what was
  saved or filled in) and `FilledOnce` (the effect has run at most once and then finds
  nothing more to fill in).

### What the proofs changed

Attempts that failed showed places where a property or a model said too little or too much:

* `ReactionBound` allowed the motor speed the timeout of one of its two frames; the
  fault needs both to be old.
* `LockHolds` had no case for a leader that locks while the designated client holds no seat.
* `RefIsUsable` is stated for mounted pages, and for every page that is mounted.
* `LoopHolds` held only because frames came one unit apart: a frame longer than the A-B loop
  does leave it. The property now says so, and the run's loop scene has longer gaps.
* `RunsSettings` compares all of the query but its topic.
* `ReviewPlayer` cycled the end modes in an order the button does not have.

### Only model-checked

* Liveness and everything under fairness (`BoardDelivers`, `TracksideSettles`,
  `PlanShared`, `DashCatchesUp`, `ReviewGoesOn`, `DataSettles`): outside the prover's reach.
* Sums, counts and orders over sequences, which are folds, sorts or selections and would need
  induction over data: `LapsSound`, `WireKeeps`, `LibrariesSafe`, `NotesKept`, `LogPagesTrue`,
  the joining of segments in `TracksKept`; rounding in `DrawnTrue`.
* `SharedKept`: its cut at the cap is an order by age and a count of what is newer, and pushes
  that overtake each other leave no bound on what the worker has from below. `JobsSound` and
  `FeedsTrue`: their queues and replays are filtered sequences.

## Where the code and its comments part

Modelling met places where the code does not do what its comments say. The runs check
each property in scenes whose constants exclude that case, so a property of a passing
run holds *under the assumption in the last column*. Three are runs of their own
(above). The others, with the constant that admits the case:

| Component | What happens | Excluded by |
|---|---|---|
| `FaultStore` | a torn erase leaves erased records before old ones | `EraseTears = FALSE`, an assumption of the theorems too |
| `LiveFeed` | a refused status closes the stream and schedules no retry; a Stop during the fetch of the configuration is followed by an open stream | `MaxOutages = 0` for `Heals`; no property says Stop holds |
| `LapTimer` | a reload forgets that Stop Lap disarmed the gate; a press just before a late sample | `MaxReloads = 0` for `StopLapHolds`; `Prompt` |
| `SessionCache` | a flag's save after Stop revives the session; a session started during the load is replaced; an early save of a later mirror; a delete overtaken by saves | `MaxFlags`, `EarlyPress`, one client, per scene |
| `SessionRegistry` | retried pushes replace newer records until the next load; an unreachable worker looks empty; records changed during the merge are lost; mirrors send old plans | `unsent` in `PlanStored`; `BadLoads`, `Hasty`, `Mirrors` |
| `RacePlan` | a lost put is never repeated | `Offline` |
| `DriveDays` | an end-event still under way closes the next day; two syncs mix their rows; a session started early drops the last sync; a lost end gives a day all packets; an emptied field stays | `Slow`, `Hasty`, `Losses`, `Clears` |
| `DashCommands` | with no plan the old target is still sent; a screen press kept by qos 1 arrives after the shift | `Moves` without "noplan", "oneshot" with "half" |
| `DashLaps` | after a reload the page's count starts from the car's; a second loss is not repaired; a reset while offline is not repeated | `Cards`/`MaxReloads`, `MaxLoss`, `OfflineResets` |
| `MessageLibrary` | a page that was only opened saves its cached copy over the shared one; the later of two edits replaces the earlier | `Flaky`, `Seeded`; no property says so |
| `DashDesigner` | the active layout wins a merge although only selected; overlapping saves both pass the version check; edits during a save are lost; a late conflict answer lands in another screen | `Moves` without "select", "overlap", "typing", "slow" |
| `DashScreen` | a snapshot without a gear hides a shift; Enter moves the screen below an override; a lap number used twice, an outage or demo mode over a reset lose or repeat a card; a lap replaced while the link is down has none | `Allowed`; no property says so |
| `DashSettings` | in summer the theme is dark between 7 PM and sunset | `Sunset` before midnight UTC |
| `DashReadouts`, `DashPanels` | rounding after cutting (x.95 Wh, 59.996 s), two signs, a preview with other decimals, a full bar without a value; a widget without a binding blanks the screen | what `DigitsTrue` compares; `Unbound` |
| `ReviewPlayer` | a frame longer than the A-B loop leaves it; Play at a lap end halts again | `LoopHolds` says "no longer than the loop"; no property says so |
| `ReviewNotes` | deleted flags come back, imported ones are overwritten by an open player or another tab, manual hits do not move with the start | `Tabs`, `Origins`, `MaxImports` |
| `ReviewRuns` | a position timer outlives its run | `Timers` |
| `TrackMapper` | typing a stored name overwrites that track; cleared tracks come back; a gate placed while points arrive | `Clashes`; no property says so |
| `Replay` | a late summary of another day shows its timeline; a reopened stream snaps back to its start | `LateSummaries`, `Drops` for `ShownIsSelected` and `NeverBack` |
| `KafkaStream` | a due timer shows an older event after a newer | `LateTimers` |
| `CarStatusFeed` | an unreachable Kafka is retried for ever; a request aborted before its response is read leaves its handler registered | `HubUp`; no property says so |
| `AngeliqueFeed` | the thermal sections differ | `Sections`, `Mixed`; run `wire_skew` |
| `GrafanaQuery` | a debounced run takes a topic still being typed; the point cap is 1000 times too large | `RunsSettings` leaves the topic out |
| `GrafanaConfig` | limits the backend cannot read are saved; the fixed health-check timeout wins over the timeout | no property says so |
| `LogSyncJobs` | a cancel during the motion read is undone; an answer after its events shows a finished job as queued; the stream is not reopened after a 502 | `Late`, `SlowAnswers`, page scene |
| `LogNotes`, `LogFiles` | a failed load opens blank forms; a preview of the previous range | `LoadFails`, `Hasty` |

## Not modelled

* VCU: torque map, power and traction limiters, wheel slip, launch ramp, regen and
  battery estimate (floating-point laws; the model takes any value in the clamped
  range), `published_` and its readers, `PrimaryFault`, the status LED, transmission
  failures of the torque frame, frame encodings, shell text. Frames are stamped when
  drained; the model lets them arrive at that tick.
* Viewer tool: drawing, charts, maps and styling; MoTeC conversion and lap analysis
  (numerics); the video panel and its helper; the thresholds page of the car-status
  classifier; account pages.
* BEVO daemons other than what dashd does with the dash's messages; ingest, bridge and
  classifier (Go, Python); the backend of the datasource beyond how it reads a
  configuration.
* Autonomy (ROS 2): mission manager and safety latch are state machines worth
  modelling; estimation and control are numerics.
* CAN specification and generators: no state at run time.

Hazards seen and not covered by a property: a control tick that reads an old frame as
new after a stall (`control_loop.cpp:45`), a default snapshot when the mutex times out
(`vcu_app.cpp:179`), a torque frame that fails to send (`critical_tx.cpp:22`), launch
and regen sequences (`launch.cpp:22`, `regen.cpp:43`), and a GO that survives an
emergency (`mission_manager_node.py`).

## Plan

Done: the VCU, the trackside page, the dash, reviewing and the data paths; proofs of the
control task, the board, presence, feed, reloads and drive days, runs, player and replay, the dash's
commands, lap counter and screen, the datasource.

Next:

1. Proofs: `NeverOlder` of the registry; the parts of `LibrariesSafe` and
   `JobsSound` that are not about counts.
2. `VcuRegen` and `VcuLaunch`: the discrete state of line lock and launch, composed
   with the torque gate of `VcuControl`.
3. Compositions across components: presence and session cache with one notion of
   leader; lap timer and lap counter, so that the count sent is the count timed.
4. Autonomy: mission manager and safety latch over topics that lose messages.
5. `loggerd` rotation, `publishd` offline queue, the Kafka bridge's batching.
