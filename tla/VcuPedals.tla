------------------------------ MODULE VcuPedals ------------------------------
(***************************************************************************)
(* boards/VCU/App/control/pedals.cpp: APPS and BSE processing, once per    *)
(* control tick, as an operator on the state of PedalProcessor.            *)
(*                                                                         *)
(* Sensor volts are abstracted to what the processor makes of them: a      *)
(* clamped travel (percent of mechanical travel) or pressure, and whether  *)
(* the sensor is outside its open/short window.  The two directions of     *)
(* "outside" (disconnect, out_of_range) are treated alike by every reader. *)
(* Filters work on integers, so a filtered value is rounded down.          *)
(***************************************************************************)
EXTENDS Debounce

CONSTANTS
    MaxDeviation,     \* apps.max_deviation, percent of travel
    ImplausibleMs,    \* apps.implausible_ms
    RangeFaultMs,     \* bse.range_fault_ms
    MismatchMs,       \* bse.hard_brake_mismatch_ms
    AlphaDen,         \* common denominator of the two EMA gains
    AppsAlpha,        \* apps.ema_alpha, in units of 1 / AlphaDen
    BseAlpha,         \* bse.ema_alpha, in units of 1 / AlphaDen
    DeadzoneLow,      \* apps.min_travel_deadzone, percent
    DeadzoneHigh,     \* apps.max_travel_deadzone, percent
    FullScalePsi,     \* bse.full_scale_psi
    PressedOnPsi,     \* bse.pressed_on_psi
    PressedOffPsi,    \* bse.pressed_off_psi
    BrakeLightPsi,    \* bse.brake_light_psi, the RTD brake threshold
    BotPedalOn,       \* bse.bot_pedal_on, percent
    BotPedalOff       \* bse.bot_pedal_off, percent

ASSUME PedalParams ==
    /\ MaxDeviation \in Nat /\ ImplausibleMs \in Nat /\ RangeFaultMs \in Nat
    /\ MismatchMs \in Nat
    /\ AlphaDen \in Nat \ {0}
    /\ AppsAlpha \in 0 .. AlphaDen /\ BseAlpha \in 0 .. AlphaDen
    /\ DeadzoneLow \in 0 .. 99 /\ DeadzoneHigh \in (DeadzoneLow + 1) .. 100
    /\ FullScalePsi \in Nat
    /\ PressedOnPsi \in Nat /\ PressedOffPsi \in 0 .. PressedOnPsi
    /\ BrakeLightPsi \in Nat
    /\ BotPedalOn \in 0 .. 100 /\ BotPedalOff \in 0 .. BotPedalOn

Travel   == 0 .. 100
Pressure == 0 .. FullScalePsi
Unseeded == -1

-----------------------------------------------------------------------------
\* longhorn::Ema::Update, seeded by the first sample.
Ema(y, x, alpha) ==
    IF y = Unseeded THEN x
                    ELSE (alpha * x + (AlphaDen - alpha) * y) \div AlphaDen

\* Deadzone, in units of 1 / (DeadzoneHigh - DeadzoneLow) of full demand.
Deadzone(x) ==
    CASE x <= DeadzoneLow  -> 0
      [] x >= DeadzoneHigh -> DeadzoneHigh - DeadzoneLow
      [] x \in DeadzoneLow + 1 .. DeadzoneHigh - 1 -> x - DeadzoneLow

\* The state of PedalProcessor.
PedalProcessor ==
    [apps_timer : Timers(ImplausibleMs),
     bse1_timer : Timers(RangeFaultMs), bse2_timer : Timers(RangeFaultMs),
     hard_timer : Timers(MismatchMs),
     pedal : Travel \cup {Unseeded}, bse : Pressure \cup {Unseeded},
     brake_pressed : BOOLEAN, bot_latched : BOOLEAN]

NewPedals ==
    [apps_timer |-> Inactive, bse1_timer |-> Inactive, bse2_timer |-> Inactive,
     hard_timer |-> Inactive, pedal |-> Unseeded, bse |-> Unseeded,
     brake_pressed |-> FALSE, bot_latched |-> FALSE]

\* What the sensors read in one tick.  hard_differs: the firmware's hard-brake
\* threshold and the BSPD comparator disagree.
PedalInputs ==
    [apps1 : Travel, apps2 : Travel, apps1_out : BOOLEAN, apps2_out : BOOLEAN,
     bse1 : Pressure, bse2 : Pressure, bse1_out : BOOLEAN, bse2_out : BOOLEAN,
     hard_differs : BOOLEAN]

AppsMismatch(in) ==
    \/ in.apps1 - in.apps2 > MaxDeviation
    \/ in.apps2 - in.apps1 > MaxDeviation

\* The unfiltered average travel: the rule's mechanical pedal position.
Average(in) == (in.apps1 + in.apps2) \div 2

(***************************************************************************)
(* PedalProcessor::Update: the processor's state after this tick's reading.*)
(***************************************************************************)
PedalsUpdated(p, in, dt) ==
    LET bse     == Ema(p.bse, (in.bse1 + in.bse2) \div 2, BseAlpha)
        pressed == \/ bse >= PressedOnPsi
                   \/ p.brake_pressed /\ bse >= PressedOffPsi
    IN  [apps_timer |->
            TimerUpdated(p.apps_timer,
                         AppsMismatch(in) \/ in.apps1_out \/ in.apps2_out,
                         dt, ImplausibleMs),
         bse1_timer |-> TimerUpdated(p.bse1_timer, in.bse1_out, dt, RangeFaultMs),
         bse2_timer |-> TimerUpdated(p.bse2_timer, in.bse2_out, dt, RangeFaultMs),
         hard_timer |-> TimerUpdated(p.hard_timer, in.hard_differs, dt, MismatchMs),
         pedal |-> Ema(p.pedal, Average(in), AppsAlpha),
         bse   |-> bse,
         brake_pressed |-> pressed,
         bot_latched |->
            \/ pressed /\ Average(in) > BotPedalOn
            \/ p.bot_latched /\ Average(in) >= BotPedalOff]

-----------------------------------------------------------------------------
\* The fields of PedalOutputs that the control loop decides on.
AppsImplausible(p) == Persisted(p.apps_timer, ImplausibleMs)
Bse1Fault(p)       == Persisted(p.bse1_timer, RangeFaultMs)
Bse2Fault(p)       == Persisted(p.bse2_timer, RangeFaultMs)
HardMismatch(p)    == Persisted(p.hard_timer, MismatchMs)
PedalTravel(p)     == Deadzone(p.pedal)
BrakeForRtd(p)     == p.bse >= BrakeLightPsi

=============================================================================
