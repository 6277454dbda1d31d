----------------------------- MODULE MCVcuControl -----------------------------
(***************************************************************************)
(* Small environments for VcuControl, as scenes: each varies the inputs    *)
(* its question is about and keeps the others healthy, and a configuration *)
(* says which are played.  Times are in control ticks; pressures in units  *)
(* of 50 psi.                                                              *)
(***************************************************************************)
EXTENDS VcuControl

CONSTANT Scenes

VARIABLE scene

-----------------------------------------------------------------------------
(***************************************************************************)
(* How long the VCU can keep the inverter enabled on bad readings.  The    *)
(* observer looks only at what each tick READ, not at what the code made   *)
(* of it: for every condition that the README says cuts torque, `bad` is   *)
(* the time for which consecutive ticks have shown it.  The control task   *)
(* has a timer, a debouncer or a message age per condition, and several    *)
(* steps between them and the inverter's enable bit; the observer states   *)
(* what they must add up to.                                               *)
(***************************************************************************)
VARIABLE bad    \* [Condition -> Inactive or elapsed time]

Silent == {"contactor_status", "inverter_faults", "inverter_details",
           "inverter_current", "inverter_voltage", "bse_3"}

Condition == Silent \cup {"speed", "apps", "bse1", "bse2", "tap_in", "tap_out",
                          "motor", "adc", "flag"}

\* What the tick read shows condition c.
Shows(in, c) ==
    CASE c \in Silent  -> c \notin in.arrived
      [] c = "speed"   -> in.arrived \cap {"inverter_speed", "inverter_status"} = {}
      [] c = "apps"    -> AppsMismatch(in.pedals) \/ in.pedals.apps1_out
                                                  \/ in.pedals.apps2_out
      [] c = "bse1"    -> in.pedals.bse1_out
      [] c = "bse2"    -> in.pedals.bse2_out
      [] c = "tap_in"  -> in.tap_in = "low"
      [] c = "tap_out" -> in.tap_out = "low"
      [] c = "motor"   -> in.motor_disconnect
      [] c = "adc"     -> in.adc = {}
      [] c = "flag"    -> in.flags = BrakeFlag

\* How long the code may take to act on condition c.  One of the two speed frames
\* is enough for the code, so the longer of their timeouts counts.
Allowed(c) ==
    CASE c \in Silent            -> Timeout[c]
      [] c = "speed"             -> IF Timeout["inverter_speed"] > Timeout["inverter_status"]
                                    THEN Timeout["inverter_speed"]
                                    ELSE Timeout["inverter_status"]
      [] c = "apps"              -> ImplausibleMs
      [] c \in {"bse1", "bse2"}  -> RangeFaultMs
      [] c \in {"tap_in", "tap_out"} -> ShutdownMs
      [] c = "motor"             -> MotorMs
      [] c = "adc"               -> AdcStaleMs
      [] c = "flag"              -> BrakeFlagMs

Observed(in, dt) ==
    bad' = [c \in Condition |->
              TimerUpdated(bad[c], Shows(in, c), dt, Allowed(c))]

NothingBad == [c \in Condition |-> Inactive]

\* The inverter is never enabled once any one condition has been on every
\* reading for the time the code allows it, whatever else went on meanwhile:
\* other frames arriving, other faults coming and going, the state changing.
ReactionBound ==
    inverter_enable => \A c \in Condition : bad[c] < Allowed(c)

-----------------------------------------------------------------------------
(* The inputs of the scenes *)

Timeouts == [s \in Slot |-> IF s = "inverter_current" THEN 4 ELSE 2]

AllFrames == Slot

Healthy ==
    [arrived |-> AllFrames,
     msg |-> [hvc_state |-> "ENERGIZED", contactors |-> TRUE,
              inverter_fault |-> FALSE, fault_reset |-> FALSE,
              bms_error |-> FALSE, imd_error |-> FALSE, coolant_over |-> FALSE],
     mode_command |-> NoMode,
     adc |-> Adc, flags |-> {}, latch_state |-> FALSE,
     motor_disconnect |-> FALSE, rtd_pressed |-> FALSE,
     tap_in |-> "high", tap_out |-> "high", steering_out |-> FALSE,
     pedals |-> [apps1 |-> 0, apps2 |-> 0, apps1_out |-> FALSE,
                 apps2_out |-> FALSE, bse1 |-> 0, bse2 |-> 0,
                 bse1_out |-> FALSE, bse2_out |-> FALSE, hard_differs |-> FALSE],
     regen |-> NoRegen, tx_ok |-> TRUE]

Braking(in) == [in EXCEPT !.pedals.bse1 = 8, !.pedals.bse2 = 8]
Accelerating(in, travel) ==
    [in EXCEPT !.pedals.apps1 = travel, !.pedals.apps2 = travel]
Pressing(in) == [in EXCEPT !.rtd_pressed = TRUE]
Without(in, slots) == [in EXCEPT !.arrived = @ \ slots]

\* The driver's ordinary inputs on a healthy car.
Driver ==
    LET pedal == {Healthy, Braking(Healthy), Accelerating(Healthy, 30)}
    IN  pedal \cup {Pressing(in) : in \in pedal}

\* A driver with the switch held and a foot on the pedal, or not.
Driving == {Pressing(Healthy), Pressing(Accelerating(Healthy, 30))}

(***************************************************************************)
(* drive: one required frame missing, one report or one reading bad, on    *)
(* top of the driver's inputs.  Two losses in a row leave two frames stale *)
(* at once, since a timeout is two ticks.                                  *)
(***************************************************************************)
DriveInputs ==
    UNION
    {Driver,
     {Without(in, {s}) : in \in Driving, s \in Slot},
     {Without(Pressing(Healthy), {"inverter_speed", "inverter_status"}),
      Accelerating(Pressing(Braking(Healthy)), 30)},
     {[Pressing(Healthy) EXCEPT !.msg.hvc_state = h] : h \in HvcState},
     {[Pressing(Healthy) EXCEPT !.msg.contactors = FALSE],
      [Pressing(Healthy) EXCEPT !.msg.inverter_fault = TRUE],
      [Pressing(Healthy) EXCEPT !.adc = {}],
      [Pressing(Healthy) EXCEPT !.motor_disconnect = TRUE],
      [Pressing(Healthy) EXCEPT !.tap_out = "between"],
      [Pressing(Healthy) EXCEPT !.tap_out = "low"],
      [Pressing(Braking(Healthy)) EXCEPT !.pedals.bse2_out = TRUE],
      [Pressing(Healthy) EXCEPT !.pedals.apps1 = 30]}}

(***************************************************************************)
(* latch: brake comparator flags, the dash's reset and its message.        *)
(***************************************************************************)
LatchInputs ==
    LET quiet == Pressing(Braking(Healthy))
    IN  UNION
        {{[Without(quiet, lost) EXCEPT !.flags = f, !.msg.fault_reset = r] :
            lost \in {{}, {"dui_driver_inputs"}},
            f \in SUBSET BrakeFlag, r \in BOOLEAN},
         {[quiet EXCEPT !.msg.coolant_over = TRUE, !.msg.fault_reset = r] :
            r \in BOOLEAN},
         {Without(quiet, {"coolant_loop_temps"})}}

(***************************************************************************)
(* modes: mode requests over CAN and from a shell, the BSPD latch, regen   *)
(* results and the bootloader, around DRIVE.                               *)
(***************************************************************************)
ModeInputs ==
    UNION
    {{[in EXCEPT !.mode_command = m] :
        in \in {Healthy, Pressing(Braking(Healthy))},
        m \in ModeCode \cup {NoMode}},
     {[Pressing(Braking(Healthy)) EXCEPT !.regen = r] : r \in RegenResult},
     {[Accelerating(Pressing(Braking(Healthy)), 30) EXCEPT !.regen = r] :
        r \in {NoRegen, [NoRegen EXCEPT !.torque_nm = -TorqueLimit, !.linelock = TRUE]}},
     {[Pressing(Healthy) EXCEPT !.latch_state = TRUE],
      [Pressing(Healthy) EXCEPT !.tx_ok = FALSE],
      Pressing(Accelerating(Healthy, 30))}}

(***************************************************************************)
(* reaction: overlapping losses and bad readings, with ticks that may come *)
(* late, watched by the observer.                                          *)
(***************************************************************************)
Held == Pressing(Braking(Healthy))

LossInputs ==
    UNION
    {{Held, Braking(Healthy)},
     {Without(Held, lost) :
        lost \in {{"inverter_current"}, {"inverter_current", "bse_3"},
                  {"inverter_speed"}, {"inverter_speed", "inverter_status"},
                  {"contactor_status"}, {"inverter_details", "inverter_voltage"},
                  {"inverter_faults"}}},
     {[Held EXCEPT !.pedals.apps1 = 30],
      [Without(Held, {"bse_3"}) EXCEPT !.pedals.apps1_out = TRUE],
      [Held EXCEPT !.pedals.bse1_out = TRUE],
      [Held EXCEPT !.pedals.bse2_out = TRUE, !.tap_in = "low"],
      [Held EXCEPT !.tap_out = "low"],
      [Held EXCEPT !.motor_disconnect = TRUE],
      [Held EXCEPT !.adc = {}],
      [Held EXCEPT !.flags = BrakeFlag]}}

AllInputs == UNION {DriveInputs, LatchInputs, ModeInputs, LossInputs}

InputsOf(s) == IF s = "drive" THEN DriveInputs ELSE LatchInputs

SceneInit == scene \in Scenes /\ Init /\ bad = NothingBad

\* The steps of VcuControl with the inputs of the scene.  The observer works where
\* its question is asked; the shells, and the console that may ask for the bootloader
\* during a tick, where theirs is.
SceneNext ==
    /\ UNCHANGED scene
    /\ \/ /\ scene = "modes" /\ UNCHANGED bad
          /\ \/ \E in \in ModeInputs : ControlTick(in, 1)
             \/ OtherTask
       \/ /\ scene \in {"drive", "latch"} /\ UNCHANGED <<bad, bootloader_request>>
          /\ \E in \in InputsOf(scene) : ControlTick(in, 1)
       \/ /\ scene = "reaction" /\ UNCHANGED bootloader_request
          /\ \E in \in LossInputs, dt \in TickMs :
                Observed(in, dt) /\ ControlTick(in, dt)
       \/ /\ scene # "modes" /\ UNCHANGED bad
          /\ TelemetryTick
       \/ /\ Reset /\ bad' = NothingBad

SceneSpec == SceneInit /\ [][SceneNext]_<<vars, bad, scene>>

=============================================================================
