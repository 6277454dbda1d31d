------------------------------ MODULE VcuControl ------------------------------
(***************************************************************************)
(* The control task of the Vehicle Control Unit (boards/VCU/App/app/       *)
(* control_loop.cpp): one ControlTick every 3 ms drains the CAN inboxes,   *)
(* reads pedals and pins, updates the latches, computes the faults, steps  *)
(* the vehicle state machine, applies mode requests, decides the torque    *)
(* request and the inverter enable, and drives the outputs.  The shell,    *)
(* the telemetry task and the supervisor touch it only through the shared  *)
(* atomics, which are variables here.                                      *)
(*                                                                         *)
(* The environment is memoryless: every tick reads some record of Inputs,  *)
(* and time since the previous tick is some dt of TickMs.                  *)
(***************************************************************************)
EXTENDS VcuPedals, VcuStateMachine, FiniteSets

CONSTANTS
    Inputs,            \* what a tick can read: a set of InputRecord
    TickMs,            \* possible times between two ticks
    Timeout,           \* RxSlot::kTimeoutMs of each message
    BrakeFlag,         \* the debounced brake comparator pins
    Adc,               \* the ADC banks
    AdcStaleMs,        \* AdcProgress: no completed scan for this long
    BrakeFlagMs,       \* digital.brake_flag_debounce_ms
    MotorMs,           \* digital.motor_debounce_ms
    RtdMs,             \* digital.rtd_debounce_ms
    ShutdownMs,        \* shutdown.debounce_ms
    BuzzerMs,          \* min(buzzer.duration_ms, buzzer.max_on_ms)
    RtdMaxPedal,       \* drive.rtd_max_pedal
    RtdReleaseExitsDrive,  \* drive.rtd_release_exits_drive
    FaultClearMs,      \* inverter.fault_clear_delay_ms
    TorqueLimit,       \* inverter.torque_limit_nm
    RegenEnabled,      \* regen.enabled
    RegenEngagePsi,    \* regen.engage_max_psi
    Mode,              \* event modes that have parameters of their own
    ModeCode,          \* what a mode request can carry; more than Mode
    Unassigned,        \* EventMode::kUnassigned, the default parameters
    DefaultMode,       \* kDefaultEventMode
    NoMode,            \* no mode request (-1)
    ShellModes,        \* modes a shell may ask for with /mode
    Console            \* consoles that watch for the "update." token

\* Messages whose age the control loop looks at.
Slot == {"contactor_status", "inverter_faults", "inverter_details",
         "inverter_current", "inverter_voltage", "inverter_speed",
         "inverter_status", "bse_3", "dui_driver_inputs",
         "indicators_shutdown_status", "coolant_loop_temps"}

\* A shutdown tap against its two thresholds.
Tap == {"low", "between", "high"}

LoopState == {"UNKNOWN", "CLOSED", "BSPD_RELAY_OPEN", "UPSTREAM_OPEN",
              "IMPLAUSIBLE"}

\* Message contents the loop decides on; held in the slots between arrivals.
MessageFields ==
    [hvc_state : HvcState, contactors : BOOLEAN, inverter_fault : BOOLEAN,
     fault_reset : BOOLEAN, bms_error : BOOLEAN, imd_error : BOOLEAN,
     coolant_over : BOOLEAN]

\* Result of BrakeRegen::Update.
RegenResult ==
    [torque_nm : -TorqueLimit .. 0, current_cut : BOOLEAN, linelock : BOOLEAN]

NoRegen == [torque_nm |-> 0, current_cut |-> FALSE, linelock |-> FALSE]

InputRecord ==
    [arrived : SUBSET Slot, msg : MessageFields,
     mode_command : ModeCode \cup {NoMode},
     adc : SUBSET Adc, flags : SUBSET BrakeFlag, latch_state : BOOLEAN,
     motor_disconnect : BOOLEAN, rtd_pressed : BOOLEAN,
     tap_in : Tap, tap_out : Tap, steering_out : BOOLEAN,
     pedals : PedalInputs, regen : RegenResult, tx_ok : BOOLEAN]

ASSUME ControlParams ==
    /\ Inputs \subseteq InputRecord
    /\ TickMs \subseteq Nat \ {0}
    /\ Timeout \in [Slot -> Nat \ {0}]
    /\ {AdcStaleMs, BuzzerMs} \subseteq Nat \ {0}
    /\ {BrakeFlagMs, MotorMs, RtdMs, ShutdownMs, FaultClearMs,
        RtdMaxPedal, RegenEngagePsi, TorqueLimit} \subseteq Nat
    /\ BrakeFlag # {} /\ Adc # {}
    /\ {RtdReleaseExitsDrive, RegenEnabled} \subseteq BOOLEAN
    /\ {DefaultMode, Unassigned} \subseteq Mode
    /\ ShellModes \subseteq Mode
    /\ Mode \subseteq ModeCode
    /\ NoMode \notin ModeCode

VARIABLES
    rx,             \* rx_, wheels_: age and held contents of the slots
    adc,            \* adc1_progress_, adc2_progress_: time without progress
    flags,          \* the debouncers of the brake comparator pins
    motor,          \* motor_disconnect_
    rtd_switch,     \* rtd_switch_
    pedals,         \* pedals_
    loop,           \* shutdown_loop_
    bspd,           \* live_.inputs.latch_state: the BSPD latch as last read
    brake_latch,    \* brake_latch_.latched_
    prev_fault_reset,
    coolant_latch,
    lamps,          \* error_leds_
    faults,         \* faults_, as a set
    state,          \* sm_.state_
    buzzer,         \* Inactive, or the time since buzzer_.Start
    mode,           \* params_->event_mode
    pending_mode,
    fault_clear,    \* time since boot_ms_, and fault_clear_sent_
    torque_command,  \* torque and enable as the inverter was last told
    inverter_enable,
    linelock,       \* the line lock output
    bootloader_request,
    bootloader_entered,
    shell_mode_request,
    save,           \* latch_save_pending_ and latch_save_value_
    stored          \* the latch value that the flash journal holds

inputVars  == <<rx, adc, flags, motor, rtd_switch, pedals, loop, bspd>>
latchVars  == <<brake_latch, prev_fault_reset, coolant_latch, lamps>>
driveVars  == <<faults, state, buzzer, mode, pending_mode, fault_clear>>
outputVars == <<torque_command, inverter_enable, linelock>>
sharedVars == <<bootloader_request, bootloader_entered, shell_mode_request,
                save, stored>>
vars == <<inputVars, latchVars, driveVars, outputVars, sharedVars>>

-----------------------------------------------------------------------------
\* RxSlot::Fresh.  A slot that was never filled has reached its timeout.
Fresh(r, slot) == r.age[slot] < Timeout[slot]

\* Slip: any fresh inverter frame will do.
SlipInverterFresh(r) ==
    \E slot \in {"inverter_faults", "inverter_details", "inverter_current",
                 "inverter_voltage"} : Fresh(r, slot)

InverterFresh(r) ==
    /\ \A slot \in {"inverter_faults", "inverter_details", "inverter_current",
                    "inverter_voltage"} : Fresh(r, slot)
    /\ Fresh(r, "inverter_speed") \/ Fresh(r, "inverter_status")

InverterFaulted(r) == Fresh(r, "inverter_faults") /\ r.msg.inverter_fault

LoopClosed(l) == l.state = "CLOSED"

\* A brake comparator flag is active after its debounce.
AnyFlag(f) == \E b \in BrakeFlag : f[b].value

kTorqueCutFaults ==
    {"AppsImplausible", "Bse1Range", "Bse2Range", "BrakeFlagLatched",
     "ShutdownOpen", "HvcTimeout", "InverterTimeout", "PduTimeout",
     "InverterFault", "BspdTripped", "MotorDisconnect", "AdcStale"}

FaultBit ==
    kTorqueCutFaults \cup
    {"Apps1Range", "Apps2Range", "SteeringRange", "BrakeOverThrottle",
     "HardBrakeMismatch", "DuiTimeout", "Bse3Unavailable", "ContactorsOpen",
     "ShutdownSenseImplausible", "CoolantOvertemp"}

\* Slip: the motor disconnect is not in the mask.
SlipTorqueCut(f) == f \cap (kTorqueCutFaults \ {"MotorDisconnect"}) # {}

TorqueCut(f) == f \cap kTorqueCutFaults # {}

-----------------------------------------------------------------------------
(* The members of a newly constructed App. *)

NewRx ==
    [age |-> Timeout,
     msg |-> [hvc_state |-> "NOT_ENERGIZED", contactors |-> FALSE,
              inverter_fault |-> FALSE, fault_reset |-> FALSE,
              bms_error |-> FALSE, imd_error |-> FALSE, coolant_over |-> FALSE]]

NewLoop ==
    [in_high |-> FALSE, out_high |-> FALSE,
     in_debounce |-> NewDebouncer(FALSE), out_debounce |-> NewDebouncer(FALSE),
     settle |-> Inactive, state |-> "UNKNOWN"]

NewLamps ==
    [bms_latched |-> FALSE, imd_latched |-> FALSE,
     bms_on |-> TRUE, imd_on |-> TRUE]

\* Power-on: the brake latch is restored from what the journal holds.
Init ==
    /\ stored \in BOOLEAN
    /\ rx = NewRx
    /\ adc = [a \in Adc |-> AdcStaleMs]
    /\ flags = [b \in BrakeFlag |-> NewDebouncer(FALSE)]
    /\ motor = NewDebouncer(FALSE)
    /\ rtd_switch = NewEdgeButton
    /\ pedals = NewPedals
    /\ loop = NewLoop
    /\ bspd = FALSE
    /\ brake_latch = stored
    /\ prev_fault_reset = FALSE
    /\ coolant_latch = FALSE
    /\ lamps = NewLamps
    /\ faults = {}
    /\ state = "INIT"
    /\ buzzer = Inactive
    /\ mode = DefaultMode
    /\ pending_mode = NoMode
    /\ fault_clear = [uptime |-> Inactive, sent |-> FALSE]
    /\ torque_command = 0
    /\ inverter_enable = FALSE
    /\ linelock = FALSE
    /\ bootloader_request = FALSE
    /\ bootloader_entered = FALSE
    /\ shell_mode_request = NoMode
    /\ save = [pending |-> FALSE, value |-> FALSE]

-----------------------------------------------------------------------------
(* The stages of ControlTick, in tick order. *)

\* DrainCan: the slots age by dt, and the frames that arrived overwrite theirs.
DrainCan(in, dt) ==
    LET New(slot, field) ==
            IF slot \in in.arrived THEN in.msg[field] ELSE rx.msg[field]
    IN  rx' = [age |-> [slot \in Slot |->
                          IF slot \in in.arrived
                          THEN 0
                          ELSE Advance(rx.age[slot], dt, Timeout[slot])],
               msg |-> [hvc_state      |-> New("contactor_status", "hvc_state"),
                        contactors     |-> New("contactor_status", "contactors"),
                        inverter_fault |-> New("inverter_faults", "inverter_fault"),
                        fault_reset    |-> New("dui_driver_inputs", "fault_reset"),
                        bms_error      |-> New("indicators_shutdown_status", "bms_error"),
                        imd_error      |-> New("indicators_shutdown_status", "imd_error"),
                        coolant_over   |-> New("coolant_loop_temps", "coolant_over")]]

\* ShutdownLoop::Hysteresis
Hysteresis(last, tap) == tap = "high" \/ (tap = "between" /\ last)

\* ShutdownLoop::Update
LoopUpdated(l, tap_in, tap_out, dt) ==
    LET in_high  == Hysteresis(l.in_high, tap_in)
        out_high == Hysteresis(l.out_high, tap_out)
        in_db    == Debounced(l.in_debounce, in_high, dt, ShutdownMs)
        out_db   == Debounced(l.out_debounce, out_high, dt, ShutdownMs)
        settle   == TimerUpdated(l.settle, TRUE, dt, ShutdownMs)
    IN  [in_high |-> in_high, out_high |-> out_high,
         in_debounce |-> in_db, out_debounce |-> out_db, settle |-> settle,
         state |-> CASE ~Persisted(settle, ShutdownMs) -> "UNKNOWN"
                     [] OTHER -> CASE in_db.value /\ out_db.value   -> "CLOSED"
                                   [] in_db.value /\ ~out_db.value  -> "BSPD_RELAY_OPEN"
                                   [] ~in_db.value /\ out_db.value  -> "IMPLAUSIBLE"
                                   [] ~in_db.value /\ ~out_db.value -> "UPSTREAM_OPEN"]

ReadInputs(in, dt) ==
    /\ adc' = [a \in Adc |->
                 IF a \in in.adc THEN 0 ELSE Advance(adc[a], dt, AdcStaleMs)]
    /\ bspd' = in.latch_state
    /\ flags' = [b \in BrakeFlag |->
                   Debounced(flags[b], b \in in.flags, dt, BrakeFlagMs)]
    /\ motor' = Debounced(motor, in.motor_disconnect, dt, MotorMs)
    /\ rtd_switch' = ButtonUpdated(rtd_switch, in.rtd_pressed, dt, RtdMs)
    /\ pedals' = PedalsUpdated(pedals, in.pedals, dt)
    /\ loop' = LoopUpdated(loop, in.tap_in, in.tap_out, dt)

\* The dash's fault_reset, as UpdateBrakeLatch reads it this tick.
ResetLevel == Fresh(rx', "dui_driver_inputs") /\ rx'.msg.fault_reset

ResetEdge == ResetLevel /\ ~prev_fault_reset

\* Slip: a reset wins over an active flag.
SlipResetWins ==
    /\ prev_fault_reset' = ResetLevel
    /\ brake_latch' = ((AnyFlag(flags') \/ brake_latch) /\ ~ResetEdge)
    /\ save' = IF brake_latch' # brake_latch
               THEN [pending |-> TRUE, value |-> brake_latch']
               ELSE save

\* BrakeFlagLatch::Update, and the hand-off of a change to the telemetry task.
UpdateBrakeLatch ==
    /\ prev_fault_reset' = ResetLevel
    /\ brake_latch' = (AnyFlag(flags') \/ (brake_latch /\ ~ResetEdge))
    /\ save' = IF brake_latch' # brake_latch
               THEN [pending |-> TRUE, value |-> brake_latch']
               ELSE save

UpdateCoolantLatch ==
    coolant_latch' =
        IF Fresh(rx', "coolant_loop_temps")
        THEN rx'.msg.coolant_over \/ (coolant_latch /\ ~ResetEdge)
        ELSE coolant_latch

\* What UpdateState passes to the state machine about the tractive system.
TractiveInputs ==
    [hvc_fresh         |-> Fresh(rx', "contactor_status"),
     hvc_state         |-> rx'.msg.hvc_state,
     contactors_closed |-> rx'.msg.contactors]

\* ComputeFaults looks at the state before this tick's transition.
ComputeFaults(in) ==
    LET When(condition, bit) == IF condition THEN {bit} ELSE {}
    IN  faults' = UNION
         {When(\E a \in Adc : adc'[a] >= AdcStaleMs, "AdcStale"),
          When(AppsImplausible(pedals'), "AppsImplausible"),
          When(in.pedals.apps1_out, "Apps1Range"),
          When(in.pedals.apps2_out, "Apps2Range"),
          When(Bse1Fault(pedals'), "Bse1Range"),
          When(Bse2Fault(pedals'), "Bse2Range"),
          When(in.steering_out, "SteeringRange"),
          When(brake_latch', "BrakeFlagLatched"),
          When(coolant_latch', "CoolantOvertemp"),
          When(pedals'.bot_latched, "BrakeOverThrottle"),
          When(~LoopClosed(loop'), "ShutdownOpen"),
          When(~Fresh(rx', "contactor_status"), "HvcTimeout"),
          When(~InverterFresh(rx'), "InverterTimeout"),
          When(~Fresh(rx', "bse_3"), "PduTimeout"),
          When(~Fresh(rx', "bse_3"), "Bse3Unavailable"),
          When(InverterFaulted(rx'), "InverterFault"),
          When(bspd', "BspdTripped"),
          When(HardMismatch(pedals'), "HardBrakeMismatch"),
          When(~Fresh(rx', "dui_driver_inputs"), "DuiTimeout"),
          When(motor'.value, "MotorDisconnect"),
          When(loop'.state = "IMPLAUSIBLE", "ShutdownSenseImplausible"),
          When(state = "DRIVE" /\ ~Energized(TractiveInputs), "ContactorsOpen")}

StateInputsOf(in) ==
    [bspd_latched      |-> bspd',
     hvc_fresh         |-> Fresh(rx', "contactor_status"),
     hvc_state         |-> rx'.msg.hvc_state,
     contactors_closed |-> rx'.msg.contactors,
     loop_closed       |-> LoopClosed(loop'),
     torque_cut_fault  |-> TorqueCut(faults'),
     inverter_ready    |-> InverterFresh(rx') /\ ~InverterFaulted(rx'),
     pdu_fresh         |-> Fresh(rx', "bse_3"),
     bse_valid         |-> /\ ~Bse1Fault(pedals') /\ ~Bse2Fault(pedals')
                           /\ ~in.pedals.bse1_out /\ ~in.pedals.bse2_out,
     brake_for_rtd     |-> BrakeForRtd(pedals'),
     pedal_released    |-> PedalTravel(pedals') <= RtdMaxPedal,
     rtd_edge          |-> PressEdge(rtd_switch, rtd_switch'),
     rtd_pressed       |-> rtd_switch'.last,
     rtd_release_exits_drive |-> RtdReleaseExitsDrive]

\* (The bound si is the local variable of the code: sampled once, then used.)
UpdateState(in) ==
    \E si \in {StateInputsOf(in)} : Step(state, si, state')

\* Slip: no Buzzer::Stop on the transition out of DRIVE.
SlipUpdateBuzzer(dt) ==
    LET started == CASE state' # state /\ state' = "DRIVE" -> 0
                     [] OTHER -> IF buzzer = Inactive THEN Inactive
                                 ELSE Advance(buzzer, dt, BuzzerMs)
    IN  buzzer' = IF LoopClosed(loop') /\ started < BuzzerMs THEN started
                                                             ELSE Inactive

\* Buzzer::Start and Stop on a transition, then Buzzer::Update.
UpdateBuzzer(dt) ==
    LET started == CASE state' # state /\ state' = "DRIVE" -> 0
                     [] state' # state /\ state' # "DRIVE" -> Inactive
                     [] state' = state ->
                          IF buzzer = Inactive THEN Inactive
                                               ELSE Advance(buzzer, dt, BuzzerMs)
    IN  buzzer' = IF LoopClosed(loop') /\ started < BuzzerMs THEN started
                                                             ELSE Inactive

\* ParamsFor: a code without parameters of its own gets the defaults.
ParamsFor(code) == IF code \in Mode THEN code ELSE Unassigned

\* Slip: the state before this tick's transition decides.
SlipApplyModeRequests(in) ==
    LET commanded == IF in.mode_command # NoMode THEN in.mode_command
                                                 ELSE pending_mode
        requested == IF shell_mode_request # NoMode THEN shell_mode_request
                                                    ELSE commanded
        waits     == requested = NoMode \/ state = "DRIVE"
    IN  /\ shell_mode_request' = NoMode
        /\ pending_mode' = IF waits THEN requested ELSE NoMode
        /\ mode' = IF waits THEN mode ELSE ParamsFor(requested)

\* The newest CAN command replaces a pending one, a shell request replaces both.
ApplyModeRequests(in) ==
    LET commanded == IF in.mode_command # NoMode THEN in.mode_command
                                                 ELSE pending_mode
        requested == IF shell_mode_request # NoMode THEN shell_mode_request
                                                    ELSE commanded
        waits     == requested = NoMode \/ state' = "DRIVE"
    IN  /\ shell_mode_request' = NoMode
        /\ pending_mode' = IF waits THEN requested ELSE NoMode
        /\ mode' = IF waits THEN mode ELSE ParamsFor(requested)

\* The receive interrupt of a console may see the "update." token while the
\* control task is between its two reads of the request.
RequestDuringTick ==
    \/ UNCHANGED bootloader_request
    \/ Console # {} /\ bootloader_request' = TRUE

\* Slip: brake-over-throttle is not looked at.
SlipTorqueAllowed ==
    /\ state' = "DRIVE"
    /\ ~TorqueCut(faults')
    /\ ~bootloader_entered
    /\ ~bootloader_request

\* Decided with the first read of the request ...
TorqueAllowed ==
    /\ state' = "DRIVE"
    /\ ~TorqueCut(faults')
    /\ ~pedals'.bot_latched
    /\ ~bootloader_entered
    /\ ~bootloader_request

\* ... and this with the second.
InverterEnabled ==
    /\ state' = "DRIVE"
    /\ ~TorqueCut(faults')
    /\ ~bootloader_entered
    /\ ~bootloader_request'

\* Slip: the limit is passed by one.
SlipPositiveTorque(pedal_travel) ==
    IF pedal_travel = 0 THEN {0} ELSE 0 .. TorqueLimit + 1

\* PositiveTorque: the pedal map, the limiters and the launch ramp only ever
\* lower the request, and a released pedal requests nothing.
PositiveTorque(pedal_travel) ==
    IF pedal_travel = 0 THEN {0} ELSE 0 .. TorqueLimit

\* BrakeRegen::Update: no torque and no line lock when it is disabled or torque
\* is not allowed.  The current cut outlives both.
RegenOf(in) ==
    IF RegenEnabled /\ TorqueAllowed
    THEN in.regen
    ELSE [NoRegen EXCEPT !.current_cut = in.regen.current_cut]

ArbitrateTorque(in) ==
    LET regen   == RegenOf(in)
        braking == RegenEnabled /\ in.pedals.bse2 > RegenEngagePsi
    IN  /\ \/ /\ TorqueAllowed /\ ~regen.current_cut /\ regen.torque_nm < 0
              /\ torque_command' = regen.torque_nm
           \/ /\ TorqueAllowed /\ ~regen.current_cut /\ regen.torque_nm = 0
              /\ ~braking
              /\ torque_command' \in PositiveTorque(PedalTravel(pedals'))
           \/ /\ \/ ~TorqueAllowed \/ regen.current_cut
                 \/ regen.torque_nm = 0 /\ braking
              /\ torque_command' = 0
        /\ inverter_enable' = InverterEnabled
        /\ linelock' = (TorqueAllowed /\ regen.linelock)

\* ErrorLeds::Update
UpdateLamps ==
    LET fresh == Fresh(rx', "indicators_shutdown_status")
        bms   == lamps.bms_latched \/ (fresh /\ rx'.msg.bms_error)
        imd   == lamps.imd_latched \/ (fresh /\ rx'.msg.imd_error)
    IN  lamps' = [bms_latched |-> bms, imd_latched |-> imd,
                  bms_on |-> bms \/ ~fresh, imd_on |-> imd \/ ~fresh]

\* SendCritical: the inverter fault clear goes out once, when the bus takes it.
SendCritical(in, dt) ==
    LET uptime == TimerUpdated(fault_clear.uptime, TRUE, dt, FaultClearMs)
    IN  fault_clear' =
            [uptime |-> uptime,
             sent   |-> \/ fault_clear.sent
                        \/ Persisted(uptime, FaultClearMs) /\ in.tx_ok]

ControlTick(in, dt) ==
    /\ DrainCan(in, dt)
    /\ ReadInputs(in, dt)
    /\ UpdateBrakeLatch
    /\ UpdateCoolantLatch
    /\ ComputeFaults(in)
    /\ UpdateState(in)
    /\ ApplyModeRequests(in)
    /\ RequestDuringTick
    /\ ArbitrateTorque(in)
    /\ UpdateBuzzer(dt)
    /\ UpdateLamps
    /\ SendCritical(in, dt)
    /\ UNCHANGED <<bootloader_entered, stored>>

-----------------------------------------------------------------------------
(* The other tasks, where they touch the control task's state. *)

\* `/mode n` on a shell.
ModeCommand(m) ==
    /\ shell_mode_request' = m
    /\ UNCHANGED <<inputVars, latchVars, driveVars, outputVars,
                   bootloader_request, bootloader_entered, save, stored>>

\* The "update." token on a console, seen while the request is not yet up.
RequestBootloader(console) ==
    /\ ~bootloader_request
    /\ bootloader_request' = TRUE
    /\ UNCHANGED <<inputVars, latchVars, driveVars, outputVars,
                   bootloader_entered, shell_mode_request, save, stored>>

\* SupervisorTick with a request: outputs safe and a stop frame, then the
\* bootloader; the board comes back through Reset.
EnterBootloader ==
    /\ bootloader_request
    /\ bootloader_request' = FALSE
    /\ bootloader_entered' = TRUE
    /\ torque_command' = 0
    /\ inverter_enable' = FALSE
    /\ linelock' = FALSE
    /\ UNCHANGED <<inputVars, latchVars, driveVars, shell_mode_request, save, stored>>

\* Slip: the pending flag is taken and nothing is written.
SlipTelemetryTick ==
    /\ save.pending
    /\ save' = [save EXCEPT !.pending = FALSE]
    /\ UNCHANGED <<inputVars, latchVars, driveVars, outputVars, stored,
                   bootloader_request, bootloader_entered, shell_mode_request>>

\* TelemetryTick writes a changed latch to flash.
TelemetryTick ==
    /\ save.pending
    /\ stored' = save.value
    /\ save' = [save EXCEPT !.pending = FALSE]
    /\ UNCHANGED <<inputVars, latchVars, driveVars, outputVars,
                   bootloader_request, bootloader_entered, shell_mode_request>>

\* A power cycle, a watchdog reset or the reset out of the bootloader.
Reset ==
    /\ UNCHANGED stored
    /\ rx' = NewRx
    /\ adc' = [a \in Adc |-> AdcStaleMs]
    /\ flags' = [b \in BrakeFlag |-> NewDebouncer(FALSE)]
    /\ motor' = NewDebouncer(FALSE)
    /\ rtd_switch' = NewEdgeButton
    /\ pedals' = NewPedals
    /\ loop' = NewLoop
    /\ bspd' = FALSE
    /\ brake_latch' = stored
    /\ prev_fault_reset' = FALSE
    /\ coolant_latch' = FALSE
    /\ lamps' = NewLamps
    /\ faults' = {}
    /\ state' = "INIT"
    /\ buzzer' = Inactive
    /\ mode' = DefaultMode
    /\ pending_mode' = NoMode
    /\ fault_clear' = [uptime |-> Inactive, sent |-> FALSE]
    /\ torque_command' = 0
    /\ inverter_enable' = FALSE
    /\ linelock' = FALSE
    /\ bootloader_request' = FALSE
    /\ bootloader_entered' = FALSE
    /\ shell_mode_request' = NoMode
    /\ save' = [pending |-> FALSE, value |-> FALSE]

OtherTask ==
    \/ \E m \in ShellModes : ModeCommand(m)
    \/ \E c \in Console : RequestBootloader(c)
    \/ EnterBootloader
    \/ TelemetryTick

Next ==
    \/ \E in \in Inputs, dt \in TickMs : ControlTick(in, dt)
    \/ OtherTask
    \/ Reset

Spec == Init /\ [][Next]_vars

-----------------------------------------------------------------------------
(* Properties *)

RxType ==
    [age : {f \in [Slot -> Nat] : \A s \in Slot : f[s] <= Timeout[s]},
     msg : MessageFields]

LoopType ==
    [in_high : BOOLEAN, out_high : BOOLEAN,
     in_debounce : Debouncers(ShutdownMs), out_debounce : Debouncers(ShutdownMs),
     settle : Timers(ShutdownMs), state : LoopState]

\* Every variable has its type: elapsed times never pass the interval they are
\* compared with, modes are modes that have parameters.
TypeOK ==
    /\ rx \in RxType
    /\ adc \in [Adc -> 0 .. AdcStaleMs]
    /\ flags \in [BrakeFlag -> Debouncers(BrakeFlagMs)]
    /\ motor \in Debouncers(MotorMs)
    /\ rtd_switch \in EdgeButtons(RtdMs)
    /\ pedals \in PedalProcessor
    /\ loop \in LoopType
    /\ bspd \in BOOLEAN
    /\ brake_latch \in BOOLEAN
    /\ prev_fault_reset \in BOOLEAN
    /\ coolant_latch \in BOOLEAN
    /\ lamps \in [bms_latched : BOOLEAN, imd_latched : BOOLEAN,
                  bms_on : BOOLEAN, imd_on : BOOLEAN]
    /\ faults \subseteq FaultBit
    /\ state \in VcuState
    /\ buzzer \in Timers(BuzzerMs)
    /\ mode \in Mode
    /\ pending_mode \in ModeCode \cup {NoMode}
    /\ fault_clear \in [uptime : Timers(FaultClearMs), sent : BOOLEAN]
    /\ torque_command \in -TorqueLimit .. TorqueLimit
    /\ inverter_enable \in BOOLEAN
    /\ linelock \in BOOLEAN
    /\ bootloader_request \in BOOLEAN
    /\ bootloader_entered \in BOOLEAN
    /\ shell_mode_request \in Mode \cup {NoMode}
    /\ save \in [pending : BOOLEAN, value : BOOLEAN]
    /\ stored \in BOOLEAN

\* Everything the README lists as a reason to leave DRIVE is absent.
VehicleReady ==
    /\ Fresh(rx, "contactor_status")
    /\ rx.msg.hvc_state = "ENERGIZED" /\ rx.msg.contactors
    /\ Fresh(rx, "bse_3")
    /\ InverterFresh(rx) /\ ~InverterFaulted(rx)
    /\ LoopClosed(loop)
    /\ \A a \in Adc : adc[a] < AdcStaleMs
    /\ ~AppsImplausible(pedals) /\ ~Bse1Fault(pedals) /\ ~Bse2Fault(pedals)
    /\ ~brake_latch /\ ~AnyFlag(flags)
    /\ ~motor.value
    /\ ~bspd

\* The car is in DRIVE only while everything DRIVE needs holds on this very
\* tick's readings: the table's row order and the fault mask together leave no
\* tick in which a lost frame, an open loop or a latched flag coexists with DRIVE.
DriveOnlyWhenReady == state = "DRIVE" => VehicleReady

\* Torque, of either sign, and the line lock are requested only in DRIVE, never
\* under brake-over-throttle, and only with the inverter enabled, unless the
\* bootloader is about to be entered (then the inverter is disabled first).
TorqueGate ==
    /\ inverter_enable => state = "DRIVE"
    /\ torque_command # 0 \/ linelock =>
          /\ state = "DRIVE" /\ ~pedals.bot_latched
          /\ inverter_enable \/ bootloader_request

\* A BSPD latch seen on the pin trips the state machine in the same tick, and
\* only a reset leaves BSPD_TRIPPED.
BspdIsTerminal ==
    [][/\ bspd' => state' = "BSPD_TRIPPED"
       /\ state = "BSPD_TRIPPED" => state' \in {"BSPD_TRIPPED", "INIT"}]_vars

\* The inverter goes from disabled to enabled only through a complete RTD
\* sequence: out of RTD_WAIT, on a press of a switch whose release had been
\* seen outside DRIVE, with the brake on and without any positive torque.
EnableNeedsRtdSequence ==
    [][~inverter_enable /\ inverter_enable' =>
         /\ state = "RTD_WAIT"
         /\ ~rtd_switch.last /\ rtd_switch'.last
         /\ BrakeForRtd(pedals')
         /\ RtdMaxPedal = 0 => torque_command' <= 0]_vars

\* The RTD sound starts with DRIVE, runs its full time unless the car leaves
\* DRIVE, and never starts again within the same DRIVE.
RtdSound ==
    [][/\ buzzer' # Inactive => state' = "DRIVE" /\ LoopClosed(loop')
       /\ state' = "DRIVE" /\ state # "DRIVE" => buzzer' = 0
       /\ state' = "DRIVE" /\ state = "DRIVE" /\ buzzer = Inactive =>
             buzzer' = Inactive
       /\ state' = "DRIVE" /\ buzzer # Inactive /\ buzzer' = Inactive =>
             \E dt \in TickMs : buzzer + dt >= BuzzerMs]_vars

\* Both ends of a drive: it begins with one full ready-to-drive sound, and when
\* the BSPD ends it nothing but a reset follows.
DriveAnnouncedAndEnded ==
    /\ RtdSound
    /\ BspdIsTerminal

\* The parameters never change in DRIVE nor on the tick that enters it, and a
\* request is left waiting only by DRIVE.
ModeFixedInDrive ==
    [][/\ state' = "DRIVE" => mode' = mode
       /\ pending_mode' # NoMode => state' = "DRIVE"]_vars

\* The brake latch is cleared only by a dash reset in a fresh frame with every
\* debounced flag inactive, or by a reset of the board that restores it clear.
LatchClearedByDashOnly ==
    [][brake_latch /\ ~brake_latch' =>
         \/ /\ ~AnyFlag(flags')
            /\ Fresh(rx', "dui_driver_inputs") /\ rx'.msg.fault_reset
         \/ state' = "INIT" /\ ~stored]_vars

\* What telemetry has still to write is the latch as it is now; once it has
\* nothing to write, the journal agrees with the latch.
LatchReachesFlash ==
    IF save.pending THEN save.value = brake_latch ELSE stored = brake_latch

\* The latch, the hand-off to telemetry and the journal's contents implement the
\* durable register: across every interleaving of ticks, writes and resets the
\* copy lags only while a save is pending, and a boot restores the copy.
Register == INSTANCE LatchRegister WITH
    latch   <- brake_latch,
    durable <- stored,
    owed    <- save.pending

LatchIsRegister == Register!RSpec

\* faults.hpp, BrakeFlagLatch::Update: the latch clears on a rising edge of the
\* dash's fault_reset, so the last message before the clearing one did not ask
\* for a reset.
ResetIsAPress ==
    [][brake_latch /\ ~brake_latch' /\ state' # "INIT" =>
         ~rx.msg.fault_reset]_vars

=============================================================================
