-------------------------- MODULE VcuControlProofs --------------------------
(***************************************************************************)
(* The control task's invariants, for every set of inputs, every period    *)
(* and timeout, every pedal calibration and every set of event modes.      *)
(***************************************************************************)
EXTENDS MCVcuControl, TLAPS

-----------------------------------------------------------------------------
(* The state machine *)

\* The table leads into DRIVE, or stays in it, only on inputs that neither trip
\* the BSPD row nor give a reason to leave DRIVE.
LEMMA StepToDrive ==
  ASSUME NEW s \in VcuState, NEW si, NEW t,
         Step(s, si, t), t = "DRIVE"
  PROVE  ~DriveExitFault(si) /\ ~si.bspd_latched
<1> DEFINE table == kTable(si)
           applies == {i \in 1 .. 14 : s \in table[i].from /\ table[i].guard}
<1>1. /\ table[1] = Row(VcuState, si.bspd_latched, "BSPD_TRIPPED")
      /\ table[11] = Row({"RTD_WAIT"}, RtdRequest(si), "DRIVE")
      /\ table[10] = Row({"RTD_WAIT"}, ~ReadyForRtd(si), "TS_ACTIVE")
      /\ table[12] = Row({"DRIVE"}, DriveExitFault(si), "FAULT")
  BY DEF kTable
<1>2. \A i \in 1 .. 14 : table[i].to = "DRIVE" => i = 11
  BY DEF kTable, Row
<1>3. CASE s = "DRIVE" /\ applies = {}
  <2>1. 1 \notin applies /\ 12 \notin applies
    BY <1>3
  <2>. QED  BY <1>1, <1>3, <2>1 DEF Row, VcuState
<1>4. CASE \E i \in applies : /\ \A j \in applies : i <= j
                              /\ table[i].to = "DRIVE"
  <2>1. 11 \in applies /\ \A j \in applies : 11 <= j
    BY <1>2, <1>4
  <2>2. 1 \notin applies /\ 10 \notin applies
    BY <2>1
  <2>3. s = "RTD_WAIT"
    BY <1>1, <2>1 DEF Row
  <2>4. ~table[1].guard /\ ~table[10].guard
    BY <1>1, <2>2, <2>3 DEF Row, VcuState
  <2>5. table[1].guard = si.bspd_latched /\ table[10].guard = ~ReadyForRtd(si)
    BY <1>1 DEF Row
  <2>6. ~si.bspd_latched /\ ReadyForRtd(si)
    BY <2>4, <2>5, Zenon
  <2>. QED  BY <2>6 DEF ReadyForRtd, DriveExitFault, Energized
<1>. QED  BY <1>3, <1>4 DEF Step

-----------------------------------------------------------------------------
(* The fault mask *)

\* Without a torque-cut fault, none of the conditions behind one holds on the
\* readings of this tick.
LEMMA NoCutNoCause ==
  ASSUME NEW in, ComputeFaults(in), ~TorqueCut(faults')
  PROVE  /\ ~\E a \in Adc : adc'[a] >= AdcStaleMs
         /\ ~AppsImplausible(pedals') /\ ~Bse1Fault(pedals') /\ ~Bse2Fault(pedals')
         /\ ~brake_latch'
         /\ LoopClosed(loop')
         /\ Fresh(rx', "contactor_status")
         /\ InverterFresh(rx')
         /\ Fresh(rx', "bse_3")
         /\ ~InverterFaulted(rx')
         /\ ~bspd'
         /\ ~motor'.value
<1>1. \A bit \in kTorqueCutFaults : bit \notin faults'
  BY DEF TorqueCut
<1>. QED
  BY <1>1, ZenonT(60) DEF ComputeFaults, kTorqueCutFaults

-----------------------------------------------------------------------------
(* The timing helpers *)

LEMMA AdvanceType ==
  ASSUME NEW limit \in Nat, NEW e \in 0 .. limit, NEW dt \in Nat
  PROVE  Advance(e, dt, limit) \in 0 .. limit
BY DEF Advance, AtMost

\* A debouncer's level is a Boolean and its time stays within the interval.
LEMMA DebouncedType ==
  ASSUME NEW ms \in Nat, NEW d \in Debouncers(ms), NEW raw \in BOOLEAN,
         NEW dt \in Nat
  PROVE  Debounced(d, raw, dt, ms) \in Debouncers(ms)
<1>1. Advance(d.held, dt, ms) \in 0 .. ms
  BY AdvanceType DEF Debouncers
<1>. QED  BY <1>1 DEF Debounced, Debouncers

LEMMA ButtonType ==
  ASSUME NEW ms \in Nat, NEW b \in EdgeButtons(ms), NEW raw \in BOOLEAN,
         NEW dt \in Nat
  PROVE  ButtonUpdated(b, raw, dt, ms) \in EdgeButtons(ms)
<1> DEFINE d == Debounced(b.debouncer, raw, dt, ms)
<1>1. d \in Debouncers(ms)
  BY DebouncedType DEF EdgeButtons
<1>2. d.value \in BOOLEAN /\ b.armed \in BOOLEAN
  BY <1>1 DEF Debouncers, EdgeButtons
<1> HIDE DEF d
<1>3. [debouncer |-> d, last |-> d.value, armed |-> b.armed \/ ~d.value]
        \in EdgeButtons(ms)
  BY <1>1, <1>2 DEF EdgeButtons
<1>. QED  BY <1>3 DEF ButtonUpdated, d

LEMMA TimerType ==
  ASSUME NEW ms \in Nat, NEW t \in Timers(ms), NEW c \in BOOLEAN, NEW dt \in Nat
  PROVE  TimerUpdated(t, c, dt, ms) \in Timers(ms)
<1>1. ASSUME t # Inactive PROVE Advance(t, dt, ms) \in 0 .. ms
  BY <1>1, AdvanceType DEF Timers, Inactive
<1>. QED  BY <1>1 DEF TimerUpdated, Timers, Inactive

-----------------------------------------------------------------------------
(* The pedals *)

LEMMA ProductBound ==
  ASSUME NEW a \in Nat, NEW x \in Nat, NEW m \in Nat, x <= m
  PROVE  a * x \in Nat /\ a * x <= a * m
OBVIOUS

\* An average of two values up to m, weighted by alpha, is at most m.
LEMMA EmaType ==
  ASSUME NEW m \in Nat, NEW x \in 0 .. m, NEW y \in 0 .. m,
         NEW alpha \in 0 .. AlphaDen
  PROVE  (alpha * x + (AlphaDen - alpha) * y) \div AlphaDen \in 0 .. m
<1> USE PedalParams
<1> DEFINE beta == AlphaDen - alpha
           n == alpha * x + beta * y
<1>1. beta \in Nat /\ alpha \in Nat
  OBVIOUS
<1>2. alpha * x \in Nat /\ alpha * x <= alpha * m
  BY <1>1, ProductBound
<1>3. beta * y \in Nat /\ beta * y <= beta * m
  BY <1>1, ProductBound
<1>4. alpha * m + beta * m = AlphaDen * m
  OBVIOUS
<1>5. n \in Nat /\ n <= AlphaDen * m
  <2>1. alpha * m \in Nat /\ beta * m \in Nat
    BY <1>1, ProductBound
  <2>. QED  BY <1>2, <1>3, <1>4, <2>1
<1> HIDE DEF n
<1>6. n \div AlphaDen \in 0 .. m
  BY <1>5
<1>. QED  BY <1>6 DEF n

LEMMA PedalsType ==
  ASSUME NEW p \in PedalProcessor, NEW in \in PedalInputs, NEW dt \in Nat
  PROVE  PedalsUpdated(p, in, dt) \in PedalProcessor
<1> USE PedalParams
<1> DEFINE x   == (in.bse1 + in.bse2) \div 2
           bse == Ema(p.bse, x, BseAlpha)
           pedal == Ema(p.pedal, Average(in), AppsAlpha)
           pressed == \/ bse >= PressedOnPsi
                      \/ p.brake_pressed /\ bse >= PressedOffPsi
           bot == \/ pressed /\ Average(in) > BotPedalOn
                  \/ p.bot_latched /\ Average(in) >= BotPedalOff
           c == AppsMismatch(in) \/ in.apps1_out \/ in.apps2_out
           ta == TimerUpdated(p.apps_timer, c, dt, ImplausibleMs)
           t1 == TimerUpdated(p.bse1_timer, in.bse1_out, dt, RangeFaultMs)
           t2 == TimerUpdated(p.bse2_timer, in.bse2_out, dt, RangeFaultMs)
           th == TimerUpdated(p.hard_timer, in.hard_differs, dt, MismatchMs)
<1>1. bse \in Pressure
  <2>1. x \in Pressure
    BY DEF PedalInputs, Pressure
  <2>2. CASE p.bse = Unseeded
    BY <2>1, <2>2 DEF Ema
  <2>3. CASE p.bse # Unseeded
    <3>1. p.bse \in 0 .. FullScalePsi
      BY <2>3 DEF PedalProcessor, Pressure
    <3>2. (BseAlpha * x + (AlphaDen - BseAlpha) * p.bse) \div AlphaDen
            \in 0 .. FullScalePsi
      BY <2>1, <3>1, EmaType DEF Pressure
    <3>. QED  BY <2>3, <3>2 DEF Ema, Pressure
  <2>. QED  BY <2>2, <2>3
<1>2. pedal \in Travel
  <2>1. Average(in) \in Travel
    BY DEF PedalInputs, Travel, Average
  <2>2. CASE p.pedal = Unseeded
    BY <2>1, <2>2 DEF Ema
  <2>3. CASE p.pedal # Unseeded
    <3>1. p.pedal \in 0 .. 100
      BY <2>3 DEF PedalProcessor, Travel
    <3>2. (AppsAlpha * Average(in) + (AlphaDen - AppsAlpha) * p.pedal) \div AlphaDen
            \in 0 .. 100
      BY <2>1, <3>1, EmaType DEF Travel
    <3>. QED  BY <2>3, <3>2 DEF Ema, Travel
  <2>. QED  BY <2>2, <2>3
<1>3. /\ ta \in Timers(ImplausibleMs)
      /\ t1 \in Timers(RangeFaultMs)
      /\ t2 \in Timers(RangeFaultMs)
      /\ th \in Timers(MismatchMs)
  <2>1. /\ p.apps_timer \in Timers(ImplausibleMs)
        /\ p.bse1_timer \in Timers(RangeFaultMs)
        /\ p.bse2_timer \in Timers(RangeFaultMs)
        /\ p.hard_timer \in Timers(MismatchMs)
    BY DEF PedalProcessor
  <2>2. /\ c \in BOOLEAN /\ in.bse1_out \in BOOLEAN
        /\ in.bse2_out \in BOOLEAN /\ in.hard_differs \in BOOLEAN
    BY DEF PedalInputs
  <2>. QED  BY <2>1, <2>2, TimerType
<1>4. pressed \in BOOLEAN /\ bot \in BOOLEAN
  OBVIOUS
<1> HIDE DEF bse, pedal, pressed, bot, ta, t1, t2, th
<1>5. [apps_timer |-> ta, bse1_timer |-> t1, bse2_timer |-> t2,
       hard_timer |-> th, pedal |-> pedal, bse |-> bse,
       brake_pressed |-> pressed, bot_latched |-> bot] \in PedalProcessor
  BY <1>1, <1>2, <1>3, <1>4 DEF PedalProcessor
<1>6. PedalsUpdated(p, in, dt) =
      [apps_timer |-> ta, bse1_timer |-> t1, bse2_timer |-> t2,
       hard_timer |-> th, pedal |-> pedal, bse |-> bse,
       brake_pressed |-> pressed, bot_latched |-> bot]
  BY DEF PedalsUpdated, bse, pedal, pressed, bot, ta, t1, t2, th
<1>. QED  BY <1>5, <1>6

-----------------------------------------------------------------------------
(* The shutdown loop *)

LEMMA LoopUpdatedType ==
  ASSUME NEW l \in LoopType, NEW tap_in \in Tap, NEW tap_out \in Tap,
         NEW dt \in Nat
  PROVE  LoopUpdated(l, tap_in, tap_out, dt) \in LoopType
<1> DEFINE ih == Hysteresis(l.in_high, tap_in)
           oh == Hysteresis(l.out_high, tap_out)
           id == Debounced(l.in_debounce, ih, dt, ShutdownMs)
           od == Debounced(l.out_debounce, oh, dt, ShutdownMs)
           st == TimerUpdated(l.settle, TRUE, dt, ShutdownMs)
           sl == LoopUpdated(l, tap_in, tap_out, dt).state
<1>1. ih \in BOOLEAN /\ oh \in BOOLEAN
  BY DEF Hysteresis
<1>2. id \in Debouncers(ShutdownMs) /\ od \in Debouncers(ShutdownMs)
  BY <1>1, DebouncedType, ControlParams DEF LoopType
<1>3. st \in Timers(ShutdownMs)
  BY TimerType, ControlParams DEF LoopType
<1>4. id.value \in BOOLEAN /\ od.value \in BOOLEAN
  BY <1>2 DEF Debouncers
<1> HIDE DEF ih, oh, id, od, st
<1>5. LoopUpdated(l, tap_in, tap_out, dt) =
        [in_high |-> ih, out_high |-> oh, in_debounce |-> id, out_debounce |-> od,
         settle |-> st, state |-> sl]
  BY DEF LoopUpdated, ih, oh, id, od, st
<1>6. sl \in LoopState
  <2>1. sl = CASE ~Persisted(st, ShutdownMs) -> "UNKNOWN"
               [] OTHER -> CASE id.value /\ od.value   -> "CLOSED"
                             [] id.value /\ ~od.value  -> "BSPD_RELAY_OPEN"
                             [] ~id.value /\ od.value  -> "IMPLAUSIBLE"
                             [] ~id.value /\ ~od.value -> "UPSTREAM_OPEN"
    BY DEF LoopUpdated, ih, oh, id, od, st
  <2> HIDE DEF sl
  <2>. QED  BY <2>1, <1>4 DEF LoopState
<1> HIDE DEF sl
<1>. QED  BY <1>1, <1>2, <1>3, <1>5, <1>6 DEF LoopType

-----------------------------------------------------------------------------
(* The stages of a tick *)

LEMMA DrainCanType ==
  ASSUME rx \in RxType, NEW in \in InputRecord, NEW dt \in Nat, DrainCan(in, dt)
  PROVE  rx' \in RxType
<1> DEFINE New(slot, field) ==
             IF slot \in in.arrived THEN in.msg[field] ELSE rx.msg[field]
           age == [slot \in Slot |->
                     IF slot \in in.arrived
                     THEN 0 ELSE Advance(rx.age[slot], dt, Timeout[slot])]
           msg == [hvc_state      |-> New("contactor_status", "hvc_state"),
                   contactors     |-> New("contactor_status", "contactors"),
                   inverter_fault |-> New("inverter_faults", "inverter_fault"),
                   fault_reset    |-> New("dui_driver_inputs", "fault_reset"),
                   bms_error      |-> New("indicators_shutdown_status", "bms_error"),
                   imd_error      |-> New("indicators_shutdown_status", "imd_error"),
                   coolant_over   |-> New("coolant_loop_temps", "coolant_over")]
<1>1. rx' = [age |-> age, msg |-> msg]
  BY DEF DrainCan
<1>2. \A s \in Slot : age[s] \in 0 .. Timeout[s] /\ Timeout[s] \in Nat
  <2> TAKE s \in Slot
  <2>1. Timeout[s] \in Nat
    BY ControlParams
  <2>2. rx.age[s] \in 0 .. Timeout[s]
    BY DEF RxType
  <2>3. Advance(rx.age[s], dt, Timeout[s]) \in 0 .. Timeout[s]
    BY <2>1, <2>2, AdvanceType
  <2>. QED  BY <2>1, <2>3
<1>3. rx.msg \in MessageFields /\ in.msg \in MessageFields
  BY DEF RxType, InputRecord
<1>4. msg \in MessageFields
  BY <1>3 DEF MessageFields
<1> HIDE DEF msg
<1>5. age \in {f \in [Slot -> Nat] : \A s \in Slot : f[s] <= Timeout[s]}
  BY <1>2
<1> HIDE DEF age
<1>. QED  BY <1>1, <1>4, <1>5 DEF RxType

LEMMA ReadInputsType ==
  ASSUME TypeOK, NEW in \in InputRecord, NEW dt \in Nat, ReadInputs(in, dt)
  PROVE  /\ adc' \in [Adc -> 0 .. AdcStaleMs]
         /\ flags' \in [BrakeFlag -> Debouncers(BrakeFlagMs)]
         /\ motor' \in Debouncers(MotorMs)
         /\ rtd_switch' \in EdgeButtons(RtdMs)
         /\ pedals' \in PedalProcessor
         /\ loop' \in LoopType
         /\ bspd' \in BOOLEAN
<1> USE ControlParams
<1>1. \A a \in Adc : Advance(adc[a], dt, AdcStaleMs) \in 0 .. AdcStaleMs
  BY AdvanceType DEF TypeOK
<1>2. adc' \in [Adc -> 0 .. AdcStaleMs]
  BY <1>1 DEF ReadInputs
<1>3. \A b \in BrakeFlag :
        Debounced(flags[b], b \in in.flags, dt, BrakeFlagMs) \in Debouncers(BrakeFlagMs)
  <2> TAKE b \in BrakeFlag
  <2>1. flags[b] \in Debouncers(BrakeFlagMs) /\ BrakeFlagMs \in Nat
    BY DEF TypeOK
  <2>2. (b \in in.flags) \in BOOLEAN
    OBVIOUS
  <2>. QED  BY <2>1, <2>2, DebouncedType, Zenon
<1>4. flags' \in [BrakeFlag -> Debouncers(BrakeFlagMs)]
  BY <1>3 DEF ReadInputs
<1>5. motor' \in Debouncers(MotorMs)
  BY DebouncedType DEF TypeOK, ReadInputs, InputRecord
<1>6. rtd_switch' \in EdgeButtons(RtdMs)
  BY ButtonType DEF TypeOK, ReadInputs, InputRecord
<1>7. pedals' \in PedalProcessor
  BY PedalsType DEF TypeOK, ReadInputs, InputRecord
<1>8. loop' \in LoopType
  BY LoopUpdatedType DEF TypeOK, ReadInputs, InputRecord
<1>9. bspd' \in BOOLEAN
  BY DEF ReadInputs, InputRecord
<1>. QED  BY <1>2, <1>4, <1>5, <1>6, <1>7, <1>8, <1>9

\* What the state machine is given does not matter: it stays within its states.
LEMMA StepType ==
  ASSUME NEW s \in VcuState, NEW si, NEW t, Step(s, si, t)
  PROVE  t \in VcuState
<1>1. \A i \in 1 .. 14 : kTable(si)[i].to \in VcuState
  BY DEF kTable, Row, VcuState
<1>. QED  BY <1>1 DEF Step

LEMMA LatchesType ==
  ASSUME TypeOK, UpdateBrakeLatch, UpdateCoolantLatch, UpdateLamps,
         rx' \in RxType
  PROVE  /\ brake_latch' \in BOOLEAN
         /\ prev_fault_reset' \in BOOLEAN
         /\ coolant_latch' \in BOOLEAN
         /\ save' \in [pending : BOOLEAN, value : BOOLEAN]
         /\ lamps' \in [bms_latched : BOOLEAN, imd_latched : BOOLEAN,
                        bms_on : BOOLEAN, imd_on : BOOLEAN]
<1>1. brake_latch' \in BOOLEAN
  BY Zenon DEF UpdateBrakeLatch
<1>2. prev_fault_reset' \in BOOLEAN
  BY Zenon DEF UpdateBrakeLatch, ResetLevel
<1>3. coolant_latch' \in BOOLEAN
  BY DEF UpdateCoolantLatch, TypeOK
<1>4. save' \in [pending : BOOLEAN, value : BOOLEAN]
  BY <1>1 DEF UpdateBrakeLatch, TypeOK
<1>5. lamps' \in [bms_latched : BOOLEAN, imd_latched : BOOLEAN,
                  bms_on : BOOLEAN, imd_on : BOOLEAN]
  BY DEF UpdateLamps
<1>. QED  BY <1>1, <1>2, <1>3, <1>4, <1>5

LEMMA FaultsType ==
  ASSUME NEW in, ComputeFaults(in)
  PROVE  faults' \subseteq FaultBit
BY SMTT(30) DEF ComputeFaults, FaultBit, kTorqueCutFaults

LEMMA TimesType ==
  ASSUME TypeOK, NEW in \in InputRecord, NEW dt \in Nat,
         UpdateBuzzer(dt), SendCritical(in, dt), state' \in VcuState
  PROVE  /\ buzzer' \in Timers(BuzzerMs)
         /\ fault_clear' \in [uptime : Timers(FaultClearMs), sent : BOOLEAN]
<1> USE ControlParams
<1>1. buzzer' \in Timers(BuzzerMs)
  <2>1. ASSUME buzzer # Inactive
        PROVE  Advance(buzzer, dt, BuzzerMs) \in 0 .. BuzzerMs
    <3>1. buzzer \in 0 .. BuzzerMs /\ BuzzerMs \in Nat
      BY <2>1 DEF TypeOK, Timers, Inactive
    <3>. QED  BY <3>1, AdvanceType
  <2>. QED  BY <2>1 DEF UpdateBuzzer, TypeOK, Timers, Inactive
<1>2. TimerUpdated(fault_clear.uptime, TRUE, dt, FaultClearMs) \in Timers(FaultClearMs)
  BY TimerType DEF TypeOK
<1>3. fault_clear' \in [uptime : Timers(FaultClearMs), sent : BOOLEAN]
  BY <1>2 DEF SendCritical, TypeOK
<1>. QED  BY <1>1, <1>3

LEMMA ModesType ==
  ASSUME TypeOK, NEW in \in InputRecord, ApplyModeRequests(in)
  PROVE  /\ mode' \in Mode
         /\ pending_mode' \in ModeCode \cup {NoMode}
         /\ shell_mode_request' \in Mode \cup {NoMode}
BY ControlParams DEF ApplyModeRequests, ParamsFor, TypeOK, InputRecord

LEMMA OutputsType ==
  ASSUME TypeOK, NEW in \in InputRecord, ArbitrateTorque(in)
  PROVE  /\ torque_command' \in -TorqueLimit .. TorqueLimit
         /\ inverter_enable' \in BOOLEAN
         /\ linelock' \in BOOLEAN
<1> USE ControlParams
<1>1. inverter_enable' \in BOOLEAN /\ linelock' \in BOOLEAN
  BY Zenon DEF ArbitrateTorque, InverterEnabled
<1>2. RegenOf(in).torque_nm \in -TorqueLimit .. 0
  BY DEF RegenOf, NoRegen, InputRecord, RegenResult
<1>3. torque_command' \in -TorqueLimit .. TorqueLimit
  BY <1>2 DEF ArbitrateTorque, PositiveTorque
<1>. QED  BY <1>1, <1>3

-----------------------------------------------------------------------------
(* Types *)

LEMMA TickType ==
  ASSUME TypeOK, NEW in \in Inputs, NEW dt \in TickMs, ControlTick(in, dt)
  PROVE  TypeOK'
<1> in \in InputRecord /\ dt \in Nat
  BY ControlParams
<1>1. rx' \in RxType
  BY DrainCanType DEF ControlTick, TypeOK
<1>2. /\ adc' \in [Adc -> 0 .. AdcStaleMs]
      /\ flags' \in [BrakeFlag -> Debouncers(BrakeFlagMs)]
      /\ motor' \in Debouncers(MotorMs)
      /\ rtd_switch' \in EdgeButtons(RtdMs)
      /\ pedals' \in PedalProcessor
      /\ loop' \in LoopType
      /\ bspd' \in BOOLEAN
  BY ReadInputsType DEF ControlTick
<1>3. /\ brake_latch' \in BOOLEAN
      /\ prev_fault_reset' \in BOOLEAN
      /\ coolant_latch' \in BOOLEAN
      /\ save' \in [pending : BOOLEAN, value : BOOLEAN]
      /\ lamps' \in [bms_latched : BOOLEAN, imd_latched : BOOLEAN,
                     bms_on : BOOLEAN, imd_on : BOOLEAN]
  BY <1>1, LatchesType DEF ControlTick
<1>4. faults' \subseteq FaultBit
  BY FaultsType DEF ControlTick
<1>5. state' \in VcuState
  BY StepType DEF ControlTick, UpdateState, TypeOK
<1>6. /\ buzzer' \in Timers(BuzzerMs)
      /\ fault_clear' \in [uptime : Timers(FaultClearMs), sent : BOOLEAN]
  BY <1>5, TimesType DEF ControlTick
<1>7. /\ mode' \in Mode
      /\ pending_mode' \in ModeCode \cup {NoMode}
      /\ shell_mode_request' \in Mode \cup {NoMode}
  BY ModesType DEF ControlTick
<1>8. /\ torque_command' \in -TorqueLimit .. TorqueLimit
      /\ inverter_enable' \in BOOLEAN
      /\ linelock' \in BOOLEAN
  BY OutputsType DEF ControlTick
<1>9. /\ bootloader_entered' \in BOOLEAN
      /\ stored' \in BOOLEAN
  BY DEF ControlTick, TypeOK
<1>10. bootloader_request' \in BOOLEAN
  BY Zenon DEF ControlTick, RequestDuringTick, TypeOK
<1>. QED
  BY <1>10, <1>1, <1>2, <1>3, <1>4, <1>5, <1>6, <1>7, <1>8, <1>9 DEF TypeOK

\* The constructed members are of their types.
LEMMA NewMembers ==
  /\ NewRx \in RxType
  /\ [a \in Adc |-> AdcStaleMs] \in [Adc -> 0 .. AdcStaleMs]
  /\ \A ms \in Nat, v \in BOOLEAN : NewDebouncer(v) \in Debouncers(ms)
  /\ [b \in BrakeFlag |-> NewDebouncer(FALSE)] \in [BrakeFlag -> Debouncers(BrakeFlagMs)]
  /\ NewEdgeButton \in EdgeButtons(RtdMs)
  /\ NewPedals \in PedalProcessor
  /\ NewLoop \in LoopType
  /\ NewLamps \in [bms_latched : BOOLEAN, imd_latched : BOOLEAN,
                   bms_on : BOOLEAN, imd_on : BOOLEAN]
  /\ \A ms \in Nat : Inactive \in Timers(ms)
<1> USE ControlParams, PedalParams
<1>1. NewRx \in RxType
  BY DEF NewRx, RxType, MessageFields, HvcState
<1>2. \A ms \in Nat, v \in BOOLEAN : NewDebouncer(v) \in Debouncers(ms)
  BY DEF NewDebouncer, Debouncers
<1>3. \A ms \in Nat : Inactive \in Timers(ms)
  BY DEF Inactive, Timers
<1>4. NewPedals \in PedalProcessor
  BY <1>3 DEF NewPedals, PedalProcessor
<1>5. NewLoop \in LoopType
  BY <1>2, <1>3 DEF NewLoop, LoopType, LoopState
<1>6. NewEdgeButton \in EdgeButtons(RtdMs)
  BY <1>2 DEF NewEdgeButton, EdgeButtons
<1>7. NewLamps \in [bms_latched : BOOLEAN, imd_latched : BOOLEAN,
                    bms_on : BOOLEAN, imd_on : BOOLEAN]
  BY DEF NewLamps
<1>8. [b \in BrakeFlag |-> NewDebouncer(FALSE)] \in [BrakeFlag -> Debouncers(BrakeFlagMs)]
  BY <1>2
<1>9. [a \in Adc |-> AdcStaleMs] \in [Adc -> 0 .. AdcStaleMs]
  OBVIOUS
<1>. QED  BY <1>1, <1>2, <1>3, <1>4, <1>5, <1>6, <1>7, <1>8, <1>9, Zenon

LEMMA InitType == Init => TypeOK
<1> SUFFICES ASSUME Init PROVE TypeOK
  OBVIOUS
<1> USE NewMembers, ControlParams
<1>1. /\ rx \in RxType
      /\ adc \in [Adc -> 0 .. AdcStaleMs]
      /\ flags \in [BrakeFlag -> Debouncers(BrakeFlagMs)]
      /\ motor \in Debouncers(MotorMs)
      /\ rtd_switch \in EdgeButtons(RtdMs)
      /\ pedals \in PedalProcessor
      /\ loop \in LoopType
      /\ lamps \in [bms_latched : BOOLEAN, imd_latched : BOOLEAN,
                    bms_on : BOOLEAN, imd_on : BOOLEAN]
  BY DEF Init
<1>2. /\ faults \subseteq FaultBit
      /\ state \in VcuState
      /\ buzzer \in Timers(BuzzerMs)
      /\ mode \in Mode
      /\ pending_mode \in ModeCode \cup {NoMode}
      /\ fault_clear \in [uptime : Timers(FaultClearMs), sent : BOOLEAN]
      /\ torque_command \in -TorqueLimit .. TorqueLimit
      /\ shell_mode_request \in Mode \cup {NoMode}
      /\ save \in [pending : BOOLEAN, value : BOOLEAN]
  BY DEF Init, VcuState
<1>3. /\ bspd \in BOOLEAN /\ brake_latch \in BOOLEAN
      /\ prev_fault_reset \in BOOLEAN /\ coolant_latch \in BOOLEAN
      /\ inverter_enable \in BOOLEAN /\ linelock \in BOOLEAN
      /\ bootloader_request \in BOOLEAN /\ bootloader_entered \in BOOLEAN
      /\ stored \in BOOLEAN
  BY Zenon DEF Init
<1>. QED  BY <1>1, <1>2, <1>3 DEF TypeOK

LEMMA ResetType == TypeOK /\ Reset => TypeOK'
<1> SUFFICES ASSUME TypeOK, Reset PROVE TypeOK'
  OBVIOUS
<1> USE NewMembers, ControlParams
<1>1. /\ rx' \in RxType
      /\ adc' \in [Adc -> 0 .. AdcStaleMs]
      /\ flags' \in [BrakeFlag -> Debouncers(BrakeFlagMs)]
      /\ motor' \in Debouncers(MotorMs)
      /\ rtd_switch' \in EdgeButtons(RtdMs)
      /\ pedals' \in PedalProcessor
      /\ loop' \in LoopType
      /\ lamps' \in [bms_latched : BOOLEAN, imd_latched : BOOLEAN,
                     bms_on : BOOLEAN, imd_on : BOOLEAN]
  BY DEF Reset
<1>2. /\ faults' \subseteq FaultBit
      /\ state' \in VcuState
      /\ buzzer' \in Timers(BuzzerMs)
      /\ mode' \in Mode
      /\ pending_mode' \in ModeCode \cup {NoMode}
      /\ fault_clear' \in [uptime : Timers(FaultClearMs), sent : BOOLEAN]
      /\ torque_command' \in -TorqueLimit .. TorqueLimit
      /\ shell_mode_request' \in Mode \cup {NoMode}
      /\ save' \in [pending : BOOLEAN, value : BOOLEAN]
  BY DEF Reset, VcuState
<1>3. stored' \in BOOLEAN /\ brake_latch' \in BOOLEAN
  BY DEF Reset, TypeOK
<1>4. /\ bspd' \in BOOLEAN
      /\ prev_fault_reset' \in BOOLEAN /\ coolant_latch' \in BOOLEAN
      /\ inverter_enable' \in BOOLEAN /\ linelock' \in BOOLEAN
      /\ bootloader_request' \in BOOLEAN /\ bootloader_entered' \in BOOLEAN
  BY Zenon DEF Reset
<1>. QED  BY <1>1, <1>2, <1>3, <1>4 DEF TypeOK

LEMMA OtherTaskType == TypeOK /\ OtherTask => TypeOK'
<1> SUFFICES ASSUME TypeOK, OtherTask PROVE TypeOK'
  OBVIOUS
<1> USE ControlParams DEF TypeOK, inputVars, latchVars, driveVars, outputVars
<1>1. ASSUME NEW m \in ShellModes, ModeCommand(m) PROVE TypeOK'
  BY <1>1 DEF ModeCommand
<1>2. ASSUME NEW c \in Console, RequestBootloader(c) PROVE TypeOK'
  <2>1. bootloader_request' \in BOOLEAN
    BY <1>2, Zenon DEF RequestBootloader
  <2>. QED  BY <1>2, <2>1 DEF RequestBootloader
<1>3. CASE EnterBootloader
  <2>1. /\ bootloader_request' \in BOOLEAN /\ bootloader_entered' \in BOOLEAN
        /\ inverter_enable' \in BOOLEAN /\ linelock' \in BOOLEAN
    BY <1>3, Zenon DEF EnterBootloader
  <2>2. torque_command' \in -TorqueLimit .. TorqueLimit
    BY <1>3 DEF EnterBootloader
  <2>. QED  BY <1>3, <2>1, <2>2 DEF EnterBootloader
<1>4. CASE TelemetryTick
  <2>1. save' \in [pending : BOOLEAN, value : BOOLEAN] /\ stored' \in BOOLEAN
    BY <1>4 DEF TelemetryTick
  <2>. QED  BY <1>4, <2>1 DEF TelemetryTick
<1>. QED  BY <1>1, <1>2, <1>3, <1>4 DEF OtherTask

LEMMA StutterType == TypeOK /\ UNCHANGED vars => TypeOK'
BY DEF TypeOK, vars, inputVars, latchVars, driveVars, outputVars, sharedVars

LEMMA NextType == TypeOK /\ [Next]_vars => TypeOK'
BY TickType, ResetType, OtherTaskType, StutterType DEF Next

\* Every variable of the control task keeps its type: no elapsed time passes its
\* interval, no filter leaves its range, no fault bit or mode is unknown.
THEOREM ControlTypes == Spec => []TypeOK
BY InitType, NextType, PTL DEF Spec

-----------------------------------------------------------------------------
(* DRIVE *)

LEMMA TickReady ==
  ASSUME TypeOK, TypeOK', NEW in \in Inputs, NEW dt \in TickMs,
         ControlTick(in, dt), state' = "DRIVE"
  PROVE  VehicleReady'
<1> DEFINE si == StateInputsOf(in)
<1>1. Step(state, si, state')
  BY Zenon DEF ControlTick, UpdateState
<1> HIDE DEF si
<1>2. ~DriveExitFault(si) /\ ~si.bspd_latched
  BY <1>1, StepToDrive DEF TypeOK
<1>3. Energized(si) /\ ~si.torque_cut_fault
  BY <1>2, Zenon DEF DriveExitFault
<1>4. ~TorqueCut(faults') /\ rx'.msg.hvc_state = "ENERGIZED" /\ rx'.msg.contactors
  BY <1>3 DEF si, StateInputsOf, Energized
<1>5. ComputeFaults(in)
  BY DEF ControlTick
<1>6. /\ ~\E a \in Adc : adc'[a] >= AdcStaleMs
      /\ ~AppsImplausible(pedals') /\ ~Bse1Fault(pedals') /\ ~Bse2Fault(pedals')
      /\ ~brake_latch'
      /\ LoopClosed(loop')
      /\ Fresh(rx', "contactor_status")
      /\ InverterFresh(rx')
      /\ Fresh(rx', "bse_3")
      /\ ~InverterFaulted(rx')
      /\ ~bspd'
      /\ ~motor'.value
  BY <1>4, <1>5, NoCutNoCause, Zenon
<1>7. ~AnyFlag(flags')
  BY <1>6, Zenon DEF ControlTick, UpdateBrakeLatch
<1>8. \A a \in Adc : adc'[a] < AdcStaleMs
  BY <1>6, ControlParams DEF TypeOK
<1>. QED  BY <1>4, <1>6, <1>7, <1>8, Zenon DEF VehicleReady

\* In every reachable state, DRIVE means that the HV contactors are reported
\* closed, every required frame is fresh, the loop is closed and no sensor,
\* brake flag, BSPD or inverter fault stands.
THEOREM DriveIsReady == Spec => []DriveOnlyWhenReady
<1>1. Init => DriveOnlyWhenReady
  BY DEF Init, DriveOnlyWhenReady
<1>2. TypeOK /\ TypeOK' /\ DriveOnlyWhenReady /\ [Next]_vars => DriveOnlyWhenReady'
  <2> SUFFICES ASSUME TypeOK, TypeOK', DriveOnlyWhenReady, [Next]_vars
               PROVE  DriveOnlyWhenReady'
    OBVIOUS
  <2>1. ASSUME NEW in \in Inputs, NEW dt \in TickMs, ControlTick(in, dt)
        PROVE  DriveOnlyWhenReady'
    BY <2>1, TickReady DEF DriveOnlyWhenReady
  <2>2. CASE OtherTask \/ UNCHANGED vars
    <3>1. UNCHANGED <<inputVars, latchVars, driveVars>>
      BY <2>2 DEF OtherTask, ModeCommand, RequestBootloader, EnterBootloader,
                  TelemetryTick, vars
    <3>. QED
      BY <3>1 DEF DriveOnlyWhenReady, VehicleReady, inputVars, latchVars, driveVars
  <2>3. CASE Reset
    BY <2>3 DEF Reset, DriveOnlyWhenReady
  <2>. QED  BY <2>1, <2>2, <2>3 DEF Next
<1>. QED  BY <1>1, <1>2, InitType, NextType, PTL DEF Spec

\* Torque of either sign and the line lock are commanded only in DRIVE, without
\* brake-over-throttle, and with the inverter enabled unless a bootloader request
\* has already disabled it.
THEOREM TorqueIsGated == Spec => []TorqueGate
<1>1. Init => TorqueGate
  BY DEF Init, TorqueGate
<1>2. TorqueGate /\ [Next]_vars => TorqueGate'
  <2> SUFFICES ASSUME TorqueGate, [Next]_vars
               PROVE  TorqueGate'
    OBVIOUS
  <2>1. ASSUME NEW in \in Inputs, NEW dt \in TickMs, ControlTick(in, dt)
        PROVE  TorqueGate'
    <3>1. ArbitrateTorque(in)
      BY <2>1 DEF ControlTick
    <3>2. /\ torque_command' # 0 => TorqueAllowed
          /\ linelock' => TorqueAllowed
          /\ inverter_enable' <=> InverterEnabled
      BY <3>1 DEF ArbitrateTorque
    <3>. QED  BY <3>2 DEF TorqueGate, TorqueAllowed, InverterEnabled
  <2>2. CASE OtherTask \/ UNCHANGED vars
    BY <2>2 DEF OtherTask, ModeCommand, RequestBootloader, EnterBootloader,
                TelemetryTick, vars, inputVars, driveVars, outputVars, sharedVars,
                TorqueGate
  <2>3. CASE Reset
    BY <2>3 DEF Reset, TorqueGate
  <2>. QED  BY <2>1, <2>2, <2>3 DEF Next
<1>. QED  BY <1>1, <1>2, PTL DEF Spec

-----------------------------------------------------------------------------
(* The BSPD latch *)

LEMMA StepOnBspd ==
  ASSUME NEW s \in VcuState, NEW si, NEW t, Step(s, si, t)
  PROVE  /\ si.bspd_latched => t = "BSPD_TRIPPED"
         /\ s = "BSPD_TRIPPED" => t = "BSPD_TRIPPED"
<1> DEFINE table == kTable(si)
           applies == {i \in 1 .. 14 : s \in table[i].from /\ table[i].guard}
<1>1. table[1] = Row(VcuState, si.bspd_latched, "BSPD_TRIPPED")
  BY DEF kTable
<1>2. /\ table[1].from = VcuState
      /\ table[1].guard = si.bspd_latched
      /\ table[1].to = "BSPD_TRIPPED"
  BY <1>1 DEF Row
<1> HIDE DEF table
<1>3. ASSUME si.bspd_latched PROVE 1 \in applies
  <2>1. s \in table[1].from /\ table[1].guard
    BY <1>2, <1>3, Zenon
  <2>. QED  BY <2>1
<1>4. ASSUME si.bspd_latched, NEW i \in applies, \A j \in applies : i <= j
      PROVE  i = 1
  BY <1>3, <1>4
<1>. QED  BY <1>2, <1>3, <1>4 DEF Step, table

\* A tripped BSPD takes the machine to BSPD_TRIPPED on the tick that reads it,
\* and nothing but a reset takes it out again.
THEOREM BspdStays == Spec => BspdIsTerminal
<1> DEFINE Inv == bspd => state = "BSPD_TRIPPED"
           Act == /\ bspd' => state' = "BSPD_TRIPPED"
                  /\ state = "BSPD_TRIPPED" => state' \in {"BSPD_TRIPPED", "INIT"}
<1>1. Init => Inv
  BY DEF Init
<1>2. TypeOK /\ Inv /\ [Next]_vars => Inv' /\ [Act]_vars
  <2> SUFFICES ASSUME TypeOK, Inv, [Next]_vars
               PROVE  Inv' /\ Act
    OBVIOUS
  <2>1. ASSUME NEW in \in Inputs, NEW dt \in TickMs, ControlTick(in, dt)
        PROVE  Inv' /\ Act
    <3> DEFINE si == StateInputsOf(in)
    <3>1. Step(state, si, state')
      BY <2>1, Zenon DEF ControlTick, UpdateState
    <3>2. si.bspd_latched = bspd'
      BY DEF StateInputsOf
    <3> HIDE DEF si
    <3>3. /\ si.bspd_latched => state' = "BSPD_TRIPPED"
          /\ state = "BSPD_TRIPPED" => state' = "BSPD_TRIPPED"
      BY <3>1, StepOnBspd DEF TypeOK
    <3>. QED  BY <3>2, <3>3
  <2>2. CASE OtherTask \/ UNCHANGED vars
    BY <2>2 DEF OtherTask, ModeCommand, RequestBootloader, EnterBootloader,
                TelemetryTick, vars, inputVars, driveVars
  <2>3. CASE Reset
    BY <2>3 DEF Reset
  <2>. QED  BY <2>1, <2>2, <2>3 DEF Next
<1>. QED  BY <1>1, <1>2, InitType, NextType, PTL DEF Spec, BspdIsTerminal

-----------------------------------------------------------------------------
(* The ready-to-drive sound *)

\* The buzzer sounds only in DRIVE, with the shutdown loop closed.
SoundInDrive == buzzer # Inactive => state = "DRIVE" /\ LoopClosed(loop)

\* What the state machine's tick and the buzzer's update add up to.
LEMMA TickSound ==
  ASSUME TypeOK, SoundInDrive, NEW in \in Inputs, NEW dt \in TickMs,
         ControlTick(in, dt)
  PROVE  /\ SoundInDrive'
         /\ state' = "DRIVE" /\ state # "DRIVE" => buzzer' = 0
         /\ state' = "DRIVE" /\ state = "DRIVE" /\ buzzer = Inactive =>
               buzzer' = Inactive
         /\ state' = "DRIVE" /\ buzzer # Inactive /\ buzzer' = Inactive =>
               buzzer + dt >= BuzzerMs
<1> USE ControlParams
<1>1. UpdateBuzzer(dt)
  BY DEF ControlTick
<1>2. ASSUME state' = "DRIVE" PROVE LoopClosed(loop')
  <2> DEFINE si == StateInputsOf(in)
  <2>1. Step(state, si, state')
    BY Zenon DEF ControlTick, UpdateState
  <2>2. si.loop_closed = LoopClosed(loop')
    BY DEF StateInputsOf
  <2> HIDE DEF si
  <2>3. ~DriveExitFault(si)
    BY <1>2, <2>1, StepToDrive DEF TypeOK
  <2>. QED  BY <2>2, <2>3, Zenon DEF DriveExitFault
<1>3. buzzer \in Timers(BuzzerMs) /\ dt \in Nat \ {0} /\ BuzzerMs \in Nat \ {0}
  BY DEF TypeOK
<1>4. CASE state' = "DRIVE" /\ state # "DRIVE"
  <2>1. buzzer' = 0
    BY <1>1, <1>2, <1>3, <1>4 DEF UpdateBuzzer, Inactive
  <2>. QED  BY <1>2, <1>4, <2>1 DEF SoundInDrive, Inactive
<1>5. CASE state' # "DRIVE" /\ state' # state
  <2>1. buzzer' = Inactive
    BY <1>1, <1>3, <1>5 DEF UpdateBuzzer, Inactive
  <2>. QED  BY <1>5, <2>1 DEF SoundInDrive
<1>6. CASE state' = state /\ buzzer = Inactive
  <2>1. buzzer' = Inactive
    BY <1>1, <1>3, <1>6 DEF UpdateBuzzer, Inactive
  <2>. QED  BY <1>6, <2>1 DEF SoundInDrive
<1>7. CASE state' = state /\ buzzer # Inactive
  <2>1. state = "DRIVE" /\ LoopClosed(loop')
    BY <1>2, <1>7 DEF SoundInDrive
  <2>2. buzzer' = IF Advance(buzzer, dt, BuzzerMs) < BuzzerMs
                  THEN Advance(buzzer, dt, BuzzerMs) ELSE Inactive
    BY <1>1, <1>7, <2>1 DEF UpdateBuzzer
  <2>3. buzzer' = Inactive => buzzer + dt >= BuzzerMs
    BY <1>3, <1>7, <2>2 DEF Advance, AtMost, Inactive, Timers
  <2>. QED  BY <1>7, <2>1, <2>3 DEF SoundInDrive
<1>. QED  BY <1>4, <1>5, <1>6, <1>7

\* Every drive is announced by one full ready-to-drive sound and by no other, and
\* the BSPD ends it for good.
THEOREM DriveIsAnnounced == Spec => DriveAnnouncedAndEnded
<1> DEFINE Act == /\ buzzer' # Inactive => state' = "DRIVE" /\ LoopClosed(loop')
                  /\ state' = "DRIVE" /\ state # "DRIVE" => buzzer' = 0
                  /\ state' = "DRIVE" /\ state = "DRIVE" /\ buzzer = Inactive =>
                        buzzer' = Inactive
                  /\ state' = "DRIVE" /\ buzzer # Inactive /\ buzzer' = Inactive =>
                        \E dt \in TickMs : buzzer + dt >= BuzzerMs
<1>1. Init => SoundInDrive
  BY DEF Init, SoundInDrive
<1>2. TypeOK /\ SoundInDrive /\ [Next]_vars => SoundInDrive' /\ [Act]_vars
  <2> SUFFICES ASSUME TypeOK, SoundInDrive, [Next]_vars
               PROVE  SoundInDrive' /\ Act
    OBVIOUS
  <2>1. ASSUME NEW in \in Inputs, NEW dt \in TickMs, ControlTick(in, dt)
        PROVE  SoundInDrive' /\ Act
    BY <2>1, TickSound, Zenon DEF SoundInDrive
  <2>2. CASE OtherTask \/ UNCHANGED vars
    <3>1. UNCHANGED <<buzzer, state, loop>>
      BY <2>2 DEF OtherTask, ModeCommand, RequestBootloader, EnterBootloader,
                  TelemetryTick, vars, inputVars, driveVars
    <3>. QED  BY <3>1 DEF SoundInDrive, LoopClosed
  <2>3. CASE Reset
    BY <2>3 DEF Reset, SoundInDrive
  <2>. QED  BY <2>1, <2>2, <2>3 DEF Next
<1>3. Spec => RtdSound
  BY <1>1, <1>2, InitType, NextType, PTL DEF Spec, RtdSound
<1>. QED  BY <1>3, BspdStays DEF DriveAnnouncedAndEnded

-----------------------------------------------------------------------------
(* Enabling the inverter *)

\* DRIVE is entered only out of RTD_WAIT, on a ready-to-drive request.
LEMMA StepIntoDrive ==
  ASSUME NEW s \in VcuState, NEW si, NEW t, Step(s, si, t),
         t = "DRIVE", s # "DRIVE"
  PROVE  s = "RTD_WAIT" /\ RtdRequest(si)
<1> DEFINE table == kTable(si)
           applies == {i \in 1 .. 14 : s \in table[i].from /\ table[i].guard}
<1>1. table[11] = Row({"RTD_WAIT"}, RtdRequest(si), "DRIVE")
  BY DEF kTable
<1>2. \A i \in 1 .. 14 : table[i].to = "DRIVE" => i = 11
  BY DEF kTable, Row
<1>3. table[11].from = {"RTD_WAIT"} /\ table[11].guard = RtdRequest(si)
  BY <1>1 DEF Row
<1>4. \E i \in applies : table[i].to = "DRIVE"
  BY DEF Step
<1> HIDE DEF table
<1>5. s \in table[11].from /\ table[11].guard
  BY <1>2, <1>4
<1>. QED  BY <1>3, <1>5, Zenon

\* In DRIVE the inverter is off only because of the bootloader, which is then
\* still asked for or was entered: it cannot come back on without leaving DRIVE.
OffForBootloader ==
    state = "DRIVE" => inverter_enable \/ bootloader_request \/ bootloader_entered

LEMMA OffForBootloaderStep ==
  TypeOK /\ OffForBootloader /\ [Next]_vars => OffForBootloader'
<1> SUFFICES ASSUME TypeOK, OffForBootloader, [Next]_vars
             PROVE  OffForBootloader'
  OBVIOUS
<1>1. ASSUME NEW in \in Inputs, NEW dt \in TickMs, ControlTick(in, dt)
      PROVE  OffForBootloader'
  <2> SUFFICES ASSUME state' = "DRIVE", ~bootloader_request', ~bootloader_entered
               PROVE  inverter_enable'
    BY <1>1 DEF ControlTick, OffForBootloader
  <2>1. ~TorqueCut(faults')
    <3> DEFINE si == StateInputsOf(in)
    <3>1. Step(state, si, state')
      BY <1>1, Zenon DEF ControlTick, UpdateState
    <3>2. si.torque_cut_fault = TorqueCut(faults')
      BY DEF StateInputsOf
    <3> HIDE DEF si
    <3>3. ~DriveExitFault(si)
      BY <3>1, StepToDrive DEF TypeOK
    <3>. QED  BY <3>2, <3>3, Zenon DEF DriveExitFault
  <2>2. inverter_enable' <=> InverterEnabled
    BY <1>1 DEF ControlTick, ArbitrateTorque
  <2>. QED  BY <2>1, <2>2 DEF InverterEnabled
<1>2. CASE OtherTask \/ UNCHANGED vars
  BY <1>2 DEF OtherTask, ModeCommand, RequestBootloader, EnterBootloader,
              TelemetryTick, vars, driveVars, outputVars, sharedVars, OffForBootloader
<1>3. CASE Reset
  BY <1>3 DEF Reset, OffForBootloader
<1>. QED  BY <1>1, <1>2, <1>3 DEF Next

\* The inverter is enabled only by a fresh press of the RTD switch in RTD_WAIT,
\* with the brake on and, when the pedal must be released, without torque.
THEOREM EnableIsDeliberate == Spec => EnableNeedsRtdSequence
<1> DEFINE Act == ~inverter_enable /\ inverter_enable' =>
                    /\ state = "RTD_WAIT"
                    /\ ~rtd_switch.last /\ rtd_switch'.last
                    /\ BrakeForRtd(pedals')
                    /\ RtdMaxPedal = 0 => torque_command' <= 0
<1>1. Init => OffForBootloader
  BY DEF Init, OffForBootloader
<1>2. TypeOK /\ TypeOK' /\ OffForBootloader /\ [Next]_vars => [Act]_vars
  <2> SUFFICES ASSUME TypeOK, TypeOK', OffForBootloader, Next,
                      ~inverter_enable, inverter_enable'
               PROVE  /\ state = "RTD_WAIT"
                      /\ ~rtd_switch.last /\ rtd_switch'.last
                      /\ BrakeForRtd(pedals')
                      /\ RtdMaxPedal = 0 => torque_command' <= 0
    OBVIOUS
  <2>1. PICK in \in Inputs, dt \in TickMs : ControlTick(in, dt)
    BY DEF Next, OtherTask, ModeCommand, RequestBootloader, EnterBootloader,
           TelemetryTick, Reset, outputVars
  <2>2. InverterEnabled
    BY <2>1 DEF ControlTick, ArbitrateTorque
  <2>3. state' = "DRIVE" /\ state # "DRIVE"
    <3>1. ~bootloader_request
      BY <2>1, <2>2 DEF ControlTick, RequestDuringTick, InverterEnabled
    <3>. QED  BY <2>2, <3>1 DEF InverterEnabled, OffForBootloader
  <2> DEFINE si == StateInputsOf(in)
  <2>4. Step(state, si, state')
    BY <2>1, Zenon DEF ControlTick, UpdateState
  <2>5. /\ si.rtd_edge = PressEdge(rtd_switch, rtd_switch')
        /\ si.brake_for_rtd = BrakeForRtd(pedals')
        /\ si.pedal_released = (PedalTravel(pedals') <= RtdMaxPedal)
    BY DEF StateInputsOf
  <2> HIDE DEF si
  <2>6. state = "RTD_WAIT" /\ RtdRequest(si)
    BY <2>3, <2>4, StepIntoDrive DEF TypeOK
  <2>7. /\ PressEdge(rtd_switch, rtd_switch')
        /\ BrakeForRtd(pedals')
        /\ PedalTravel(pedals') <= RtdMaxPedal
    BY <2>5, <2>6, Zenon DEF RtdRequest
  <2>8. ASSUME RtdMaxPedal = 0 PROVE torque_command' <= 0
    <3>1. pedals'.pedal \in Travel \cup {Unseeded}
      BY DEF TypeOK, PedalProcessor
    <3>2. PedalTravel(pedals') = 0
      BY <2>7, <2>8, <3>1, PedalParams, SMTT(40) DEF PedalTravel, Deadzone, Travel, Unseeded
    <3>3. PositiveTorque(PedalTravel(pedals')) = {0}
      BY <3>2 DEF PositiveTorque
    <3>4. RegenOf(in).torque_nm \in -TorqueLimit .. 0
      BY ControlParams DEF RegenOf, NoRegen, InputRecord, RegenResult
    <3>. QED  BY <2>1, <3>3, <3>4, ControlParams DEF ControlTick, ArbitrateTorque
  <2>. QED  BY <2>6, <2>7, <2>8 DEF PressEdge
<1>. QED
  BY <1>1, <1>2, OffForBootloaderStep, InitType, NextType, PTL
  DEF Spec, EnableNeedsRtdSequence

-----------------------------------------------------------------------------
(* Event modes *)

\* Parameters never change in DRIVE or on the way into it, and only DRIVE keeps a
\* mode request waiting.
THEOREM ModesWaitForDrive == Spec => ModeFixedInDrive
<1> DEFINE Inv == pending_mode # NoMode => state = "DRIVE"
           Act == /\ state' = "DRIVE" => mode' = mode
                  /\ pending_mode' # NoMode => state' = "DRIVE"
<1>1. Init => Inv
  BY DEF Init
<1>2. Inv /\ [Next]_vars => Inv' /\ [Act]_vars
  <2> SUFFICES ASSUME Inv, [Next]_vars
               PROVE  Inv' /\ Act
    OBVIOUS
  <2>1. ASSUME NEW in \in Inputs, NEW dt \in TickMs, ControlTick(in, dt)
        PROVE  Inv' /\ Act
    BY <2>1 DEF ControlTick, ApplyModeRequests
  <2>2. CASE OtherTask \/ UNCHANGED vars
    BY <2>2 DEF OtherTask, ModeCommand, RequestBootloader, EnterBootloader,
                TelemetryTick, vars, driveVars
  <2>3. CASE Reset
    BY <2>3 DEF Reset
  <2>. QED  BY <2>1, <2>2, <2>3 DEF Next
<1>. QED  BY <1>1, <1>2, PTL DEF Spec, ModeFixedInDrive

-----------------------------------------------------------------------------
(* The brake latch *)

\* What a tick does to the latch and to the save that telemetry has to make.
LEMMA TickLatch ==
  ASSUME TypeOK, NEW in, NEW dt, ControlTick(in, dt)
  PROVE  /\ stored' = stored
         /\ \/ brake_latch' = brake_latch /\ save' = save
            \/ /\ brake_latch' = ~brake_latch
               /\ save'.pending = TRUE /\ save'.value = brake_latch'
<1>1. UpdateBrakeLatch /\ stored' = stored
  BY DEF ControlTick
<1>2. brake_latch' \in BOOLEAN /\ brake_latch \in BOOLEAN
  BY <1>1, Zenon DEF UpdateBrakeLatch, TypeOK
<1>. QED  BY <1>1, <1>2 DEF UpdateBrakeLatch

LEMMA LatchStep == TypeOK /\ LatchReachesFlash /\ [Next]_vars => LatchReachesFlash'
<1> SUFFICES ASSUME TypeOK, LatchReachesFlash, [Next]_vars
             PROVE  LatchReachesFlash'
  OBVIOUS
<1>1. ASSUME NEW in \in Inputs, NEW dt \in TickMs, ControlTick(in, dt)
      PROVE  LatchReachesFlash'
  BY <1>1, TickLatch DEF LatchReachesFlash, TypeOK
<1>2. CASE TelemetryTick
  BY <1>2 DEF TelemetryTick, latchVars, LatchReachesFlash, TypeOK
<1>3. CASE \/ \E m \in ShellModes : ModeCommand(m)
           \/ \E c \in Console : RequestBootloader(c)
           \/ EnterBootloader
           \/ UNCHANGED vars
  BY <1>3 DEF ModeCommand, RequestBootloader, EnterBootloader, vars,
              latchVars, sharedVars, LatchReachesFlash
<1>4. CASE Reset
  BY <1>4 DEF Reset, LatchReachesFlash
<1>. QED  BY <1>1, <1>2, <1>3, <1>4 DEF Next, OtherTask

LEMMA LatchInit == Init => LatchReachesFlash
BY DEF Init, LatchReachesFlash

\* The save that is pending carries the latch as it is now, and without one the
\* journal holds it.
THEOREM LatchIsSaved == Spec => []LatchReachesFlash
BY LatchInit, LatchStep, InitType, NextType, PTL DEF Spec

\* Only the dash clears the latch, in a fresh message and with no flag active, or
\* a reset that finds it clear in flash.
THEOREM OnlyDashClears == Spec => LatchClearedByDashOnly
<1> DEFINE Act == brake_latch /\ ~brake_latch' =>
                    \/ /\ ~AnyFlag(flags')
                       /\ Fresh(rx', "dui_driver_inputs") /\ rx'.msg.fault_reset
                    \/ state' = "INIT" /\ ~stored
<1>1. [Next]_vars => [Act]_vars
  <2> SUFFICES ASSUME Next, brake_latch, ~brake_latch'
               PROVE  \/ /\ ~AnyFlag(flags')
                         /\ Fresh(rx', "dui_driver_inputs") /\ rx'.msg.fault_reset
                      \/ state' = "INIT" /\ ~stored
    OBVIOUS
  <2>1. ASSUME NEW in \in Inputs, NEW dt \in TickMs, ControlTick(in, dt)
        PROVE  /\ ~AnyFlag(flags')
               /\ Fresh(rx', "dui_driver_inputs") /\ rx'.msg.fault_reset
    BY <2>1, Zenon DEF ControlTick, UpdateBrakeLatch, ResetEdge, ResetLevel
  <2>2. CASE OtherTask
    BY <2>2 DEF OtherTask, ModeCommand, RequestBootloader, EnterBootloader,
                TelemetryTick, latchVars
  <2>3. CASE Reset
    BY <2>3 DEF Reset
  <2>. QED  BY <2>1, <2>2, <2>3 DEF Next
<1>. QED  BY <1>1, PTL DEF Spec, LatchClearedByDashOnly

\* The latch as the control task, the telemetry task and resets treat it is the
\* durable register that FaultStore is shown to implement down to flash records.
THEOREM ControlImplementsRegister == Spec => LatchIsRegister
<1>1. Init => Register!RInit
  BY DEF Init, Register!RInit
<1>2. TypeOK /\ LatchReachesFlash /\ [Next]_vars => [Register!RNext]_(Register!rvars)
  <2> SUFFICES ASSUME TypeOK, LatchReachesFlash, [Next]_vars
               PROVE  [Register!RNext]_(Register!rvars)
    OBVIOUS
  <2> USE DEF Register!rvars
  <2>1. ASSUME NEW in \in Inputs, NEW dt \in TickMs, ControlTick(in, dt)
        PROVE  [Register!RNext]_(Register!rvars)
    <3>1. CASE brake_latch' = brake_latch /\ save' = save
      BY <2>1, <3>1, TickLatch
    <3>2. CASE /\ brake_latch' = ~brake_latch
               /\ save'.pending = TRUE /\ save'.value = brake_latch'
      <4>1. Register!RChange
        BY <2>1, <3>2, TickLatch DEF Register!RChange
      <4>. QED  BY <4>1 DEF Register!RNext
    <3>. QED  BY <2>1, <3>1, <3>2, TickLatch
  <2>2. CASE TelemetryTick
    <3>1. Register!RWrite
      BY <2>2 DEF TelemetryTick, latchVars, LatchReachesFlash, TypeOK, Register!RWrite
    <3>. QED  BY <3>1 DEF Register!RNext
  <2>3. CASE \/ \E m \in ShellModes : ModeCommand(m)
             \/ \E c \in Console : RequestBootloader(c)
             \/ EnterBootloader
             \/ UNCHANGED vars
    BY <2>3 DEF ModeCommand, RequestBootloader, EnterBootloader, vars,
                latchVars, sharedVars
  <2>4. CASE Reset
    <3>1. Register!RPowerCycle
      BY <2>4 DEF Reset, TypeOK, Register!RPowerCycle
    <3>. QED  BY <3>1 DEF Register!RNext
  <2>. QED  BY <2>1, <2>2, <2>3, <2>4 DEF Next, OtherTask
<1>. QED
  BY <1>1, <1>2, LatchInit, LatchStep, InitType, NextType, PTL
  DEF Spec, LatchIsRegister, Register!RSpec

-----------------------------------------------------------------------------
(***************************************************************************)
(* The reaction to bad readings.  ObservedSpec is the control task with    *)
(* every other task and the observer of MCVcuControl beside it, over any   *)
(* inputs and any periods.                                                 *)
(***************************************************************************)
ObservedNext ==
    \/ \E in \in Inputs, dt \in TickMs : Observed(in, dt) /\ ControlTick(in, dt)
    \/ OtherTask /\ UNCHANGED bad
    \/ Reset /\ bad' = NothingBad

ObservedSpec == Init /\ bad = NothingBad /\ [][ObservedNext]_<<vars, bad>>

\* Debouncer d has followed a raw input that was at `level` for the time t, or has
\* been at it long enough to report it.
Follows(d, t, level, ms) ==
    t # Inactive =>
      /\ d.candidate = level
      /\ d.value = level \/ (t <= d.held /\ d.held < ms)

\* For every condition, what the code itself remembers of it is at least as old
\* as what the observer saw: a message's age, a timer, a debouncer.
Remembered ==
    /\ \A c \in Silent : bad[c] <= rx.age[c]
    /\ \A s \in {"inverter_speed", "inverter_status"} :
          AtMost(bad["speed"], Timeout[s]) <= rx.age[s]
    /\ bad["apps"] = pedals.apps_timer
    /\ bad["bse1"] = pedals.bse1_timer
    /\ bad["bse2"] = pedals.bse2_timer
    /\ Follows(loop.in_debounce, bad["tap_in"], FALSE, ShutdownMs)
    /\ Follows(loop.out_debounce, bad["tap_out"], FALSE, ShutdownMs)
    /\ Follows(motor, bad["motor"], TRUE, MotorMs)
    /\ \A a \in Adc : bad["adc"] <= adc[a]
    /\ \A b \in BrakeFlag : Follows(flags[b], bad["flag"], TRUE, BrakeFlagMs)

BadType == \A c \in Condition : bad[c] \in Timers(Allowed(c))

\* The time each condition is allowed, spelt out.
LEMMA AllowedTimes ==
  /\ \A c \in Silent : Allowed(c) = Timeout[c] /\ Timeout[c] \in Nat
  /\ \A s \in {"inverter_speed", "inverter_status"} :
        Timeout[s] \in Nat /\ Timeout[s] <= Allowed("speed")
  /\ \E s \in {"inverter_speed", "inverter_status"} : Allowed("speed") = Timeout[s]
  /\ Allowed("apps") = ImplausibleMs
  /\ Allowed("bse1") = RangeFaultMs /\ Allowed("bse2") = RangeFaultMs
  /\ Allowed("tap_in") = ShutdownMs /\ Allowed("tap_out") = ShutdownMs
  /\ Allowed("motor") = MotorMs
  /\ Allowed("adc") = AdcStaleMs
  /\ Allowed("flag") = BrakeFlagMs
<1>1. /\ \A c \in Silent : Timeout[c] \in Nat
      /\ Timeout["inverter_speed"] \in Nat /\ Timeout["inverter_status"] \in Nat
  BY ControlParams DEF Silent, Slot
<1>. QED  BY <1>1 DEF Allowed, Silent

LEMMA AllowedType == \A c \in Condition : Allowed(c) \in Nat
<1>1. Allowed("speed") \in Nat
  BY AllowedTimes
<1>. QED  BY <1>1, AllowedTimes, PedalParams, ControlParams DEF Condition

\* A tick's reading either shows a condition or does not.
LEMMA ShowsType ==
  ASSUME NEW in, NEW c \in Condition
  PROVE  /\ c \in Silent => (Shows(in, c) <=> c \notin in.arrived)
         /\ c = "speed" => (Shows(in, c) <=>
               in.arrived \cap {"inverter_speed", "inverter_status"} = {})
         /\ c = "apps" => (Shows(in, c) <=> \/ AppsMismatch(in.pedals)
                                            \/ in.pedals.apps1_out
                                            \/ in.pedals.apps2_out)
         /\ c = "bse1" => Shows(in, c) = in.pedals.bse1_out
         /\ c = "bse2" => Shows(in, c) = in.pedals.bse2_out
         /\ c = "tap_in" => (Shows(in, c) <=> in.tap_in = "low")
         /\ c = "tap_out" => (Shows(in, c) <=> in.tap_out = "low")
         /\ c = "motor" => Shows(in, c) = in.motor_disconnect
         /\ c = "adc" => (Shows(in, c) <=> in.adc = {})
         /\ c = "flag" => (Shows(in, c) <=> in.flags = BrakeFlag)
BY DEF Shows, Silent

\* A debouncer whose input is at the level whenever the condition shows keeps up
\* with the observer's clock of the condition.
LEMMA FollowsStep ==
  ASSUME NEW ms \in Nat, NEW d \in Debouncers(ms), NEW t \in Timers(ms),
         NEW level \in BOOLEAN, NEW raw \in BOOLEAN, NEW shows \in BOOLEAN,
         NEW dt \in Nat, shows => raw = level, Follows(d, t, level, ms)
  PROVE  Follows(Debounced(d, raw, dt, ms), TimerUpdated(t, shows, dt, ms), level, ms)
<1>1. CASE ~shows
  BY <1>1 DEF Follows, TimerUpdated
<1>2. CASE shows
  <2>1. /\ d.value \in BOOLEAN /\ d.candidate \in BOOLEAN /\ d.held \in 0 .. ms
    BY DEF Debouncers
  <2> DEFINE u == TimerUpdated(t, shows, dt, ms)
             e == Debounced(d, raw, dt, ms)
             held == IF raw # d.candidate THEN 0 ELSE Advance(d.held, dt, ms)
  <2>2. Advance(d.held, dt, ms) \in 0 .. ms
    BY <2>1, AdvanceType
  <2>3. held \in 0 .. ms
    <3>1. held = 0 \/ held = Advance(d.held, dt, ms)
      OBVIOUS
    <3> HIDE DEF held
    <3>. QED  BY <2>2, <3>1
  <2>4. /\ e.candidate = raw
        /\ e.value = IF raw # d.value /\ held >= ms THEN raw ELSE d.value
        /\ e.held = IF raw = e.value THEN 0 ELSE held
    BY DEF Debounced
  <2>5. raw = level
    BY <1>2
  <2> HIDE DEF e
  <2>6. e.value # level => e.held = held /\ held < ms
    BY <2>3, <2>4, <2>5, <2>1
  <2>7. CASE t = Inactive
    <3>1. u = 0
      BY <1>2, <2>7 DEF TimerUpdated
    <3>2. e.value # level => u <= e.held
      BY <2>3, <2>6, <3>1
    <3>. QED  BY <2>4, <2>5, <2>6, <3>2 DEF Follows, e
  <2>8. CASE t # Inactive
    <3>1. u = Advance(t, dt, ms)
      BY <1>2, <2>8 DEF TimerUpdated
    <3>2. held = Advance(d.held, dt, ms)
      BY <1>2, <2>8 DEF Follows
    <3>3. ASSUME e.value # level
          PROVE  u <= e.held
      <4>1. d.value # level
        BY <2>4, <2>5, <3>3
      <4>2. t <= d.held
        BY <2>8, <4>1 DEF Follows
      <4>3. u <= held
        BY <2>1, <2>8, <3>1, <3>2, <4>2 DEF Advance, AtMost, Timers, Inactive
      <4>. QED  BY <2>6, <3>3, <4>3
    <3>. QED  BY <2>4, <2>5, <2>6, <3>3 DEF Follows, e
  <2>. QED  BY <2>7, <2>8
<1>. QED  BY <1>1, <1>2

\* So does the age of something that did not come whenever the condition showed.
LEMMA AgeStep ==
  ASSUME NEW m \in Nat, NEW limit \in Nat, NEW e \in 0 .. limit, NEW t \in Timers(m),
         NEW shows \in BOOLEAN, NEW dt \in Nat, NEW later \in Nat, AtMost(t, limit) <= e,
         shows => later = Advance(e, dt, limit)
  PROVE  AtMost(TimerUpdated(t, shows, dt, m), limit) <= later
<1>1. CASE ~shows
  <2>1. TimerUpdated(t, shows, dt, m) = -1
    BY <1>1 DEF TimerUpdated, Inactive
  <2>. QED  BY <2>1 DEF AtMost
<1>2. CASE shows /\ t = Inactive
  <2>1. TimerUpdated(t, shows, dt, m) = 0
    BY <1>2 DEF TimerUpdated
  <2>. QED  BY <2>1 DEF AtMost
<1>3. CASE shows /\ t # Inactive
  <2>1. TimerUpdated(t, shows, dt, m) = Advance(t, dt, m)
    BY <1>3 DEF TimerUpdated
  <2>2. later = Advance(e, dt, limit)
    BY <1>3
  <2>3. t \in 0 .. m
    BY <1>3 DEF Timers, Inactive
  <2>4. AtMost(Advance(t, dt, m), limit) <= Advance(e, dt, limit)
    BY <2>3 DEF AtMost, Advance
  <2>. QED  BY <2>1, <2>2, <2>4
<1>. QED  BY <1>1, <1>2, <1>3

\* The observer's clocks never pass the time allowed.
LEMMA ObservedType ==
  ASSUME BadType, NEW in, NEW dt \in Nat, Observed(in, dt),
         \A c \in Condition : Shows(in, c) \in BOOLEAN
  PROVE  /\ BadType'
         /\ \A c \in Condition :
               bad'[c] = TimerUpdated(bad[c], Shows(in, c), dt, Allowed(c))
<1>1. ASSUME NEW c \in Condition
      PROVE  /\ bad'[c] = TimerUpdated(bad[c], Shows(in, c), dt, Allowed(c))
             /\ bad'[c] \in Timers(Allowed(c))
  <2>1. bad'[c] = TimerUpdated(bad[c], Shows(in, c), dt, Allowed(c))
    BY DEF Observed
  <2>2. TimerUpdated(bad[c], Shows(in, c), dt, Allowed(c)) \in Timers(Allowed(c))
    BY AllowedType, TimerType DEF BadType
  <2>. QED  BY <2>1, <2>2
<1>. QED  BY <1>1 DEF BadType

LEMMA ShowsBoolean ==
  ASSUME NEW in \in InputRecord, NEW c \in Condition
  PROVE  Shows(in, c) \in BOOLEAN
<1>1. /\ in.pedals.bse1_out \in BOOLEAN /\ in.pedals.bse2_out \in BOOLEAN
      /\ in.motor_disconnect \in BOOLEAN
  BY DEF InputRecord, PedalInputs
<1>2. CASE c \in Silent \cup {"speed", "apps", "tap_in", "tap_out", "adc", "flag"}
  BY <1>2, Zenon DEF Shows, Silent
<1>3. CASE c \in {"bse1", "bse2", "motor"}
  BY <1>1, <1>3, ShowsType
<1>. QED  BY <1>2, <1>3 DEF Condition

\* A tick keeps what the code remembers in step with what the observer sees.
LEMMA RememberedStep ==
  ASSUME TypeOK, BadType, Remembered, NEW in \in Inputs, NEW dt \in TickMs,
         Observed(in, dt), ControlTick(in, dt)
  PROVE  Remembered'
<1> USE ControlParams
<1>1. in \in InputRecord /\ dt \in Nat
  OBVIOUS
<1>2. \A c \in Condition :
        /\ Shows(in, c) \in BOOLEAN
        /\ bad'[c] = TimerUpdated(bad[c], Shows(in, c), dt, Allowed(c))
        /\ bad[c] \in Timers(Allowed(c))
  BY <1>1, ShowsBoolean, ObservedType DEF BadType
<1>3. DrainCan(in, dt) /\ ReadInputs(in, dt)
  BY DEF ControlTick
<1>4. \A s \in Slot : /\ rx'.age[s] = IF s \in in.arrived THEN 0
                                       ELSE Advance(rx.age[s], dt, Timeout[s])
                      /\ rx.age[s] \in 0 .. Timeout[s] /\ Timeout[s] \in Nat
  BY <1>3 DEF DrainCan, TypeOK, RxType
<1>5. ASSUME NEW c \in Silent PROVE bad'[c] <= rx'.age[c]
  <2>1. c \in Condition /\ c \in Slot /\ Allowed(c) = Timeout[c]
    BY AllowedTimes DEF Condition, Silent, Slot
  <2>2. /\ rx'.age[c] \in Nat
        /\ Shows(in, c) => rx'.age[c] = Advance(rx.age[c], dt, Timeout[c])
    <3>1. Advance(rx.age[c], dt, Timeout[c]) \in Nat
      BY <1>1, <1>4, <2>1 DEF Advance, AtMost
    <3>2. Shows(in, c) => c \notin in.arrived
      BY <1>1, <1>4, <2>1, ShowsType
    <3>. QED  BY <1>1, <1>4, <2>1, <3>1, <3>2
  <2>3. AtMost(bad[c], Timeout[c]) <= rx.age[c]
    BY <1>2, <1>4, <2>1 DEF Remembered, AtMost, Timers, Inactive
  <2>4. AtMost(bad'[c], Timeout[c]) <= rx'.age[c]
    BY ONLY <1>1, <1>2, <1>4, <2>1, <2>2, <2>3, AgeStep
  <2>5. bad'[c] \in Timers(Timeout[c])
    BY <1>1, <1>2, <1>4, <2>1, TimerType
  <2>. QED  BY <1>4, <2>1, <2>4, <2>5 DEF AtMost, Timers, Inactive
<1>6. ASSUME NEW s \in {"inverter_speed", "inverter_status"}
      PROVE  AtMost(bad'["speed"], Timeout[s]) <= rx'.age[s]
  <2>1. "speed" \in Condition /\ s \in Slot /\ Allowed("speed") \in Nat
    BY AllowedType DEF Condition, Slot
  <2>2. /\ rx'.age[s] \in Nat
        /\ Shows(in, "speed") => rx'.age[s] = Advance(rx.age[s], dt, Timeout[s])
    <3>1. Advance(rx.age[s], dt, Timeout[s]) \in Nat
      BY <1>1, <1>4, <2>1 DEF Advance, AtMost
    <3>2. Shows(in, "speed") => s \notin in.arrived
      BY <1>1, <1>4, <2>1, ShowsType
    <3>. QED  BY <1>1, <1>4, <2>1, <3>1, <3>2
  <2>3. AtMost(bad["speed"], Timeout[s]) <= rx.age[s]
    BY DEF Remembered
  <2>. QED  BY ONLY <1>1, <1>2, <1>4, <2>1, <2>2, <2>3, AgeStep
<1>7. /\ bad'["apps"] = pedals'.apps_timer
      /\ bad'["bse1"] = pedals'.bse1_timer
      /\ bad'["bse2"] = pedals'.bse2_timer
  <2>1. {"apps", "bse1", "bse2"} \subseteq Condition
    BY DEF Condition
  <2>2. pedals' = PedalsUpdated(pedals, in.pedals, dt)
    BY <1>3 DEF ReadInputs
  <2>3. /\ Shows(in, "apps") = (AppsMismatch(in.pedals) \/ in.pedals.apps1_out
                                  \/ in.pedals.apps2_out)
        /\ Shows(in, "bse1") = in.pedals.bse1_out
        /\ Shows(in, "bse2") = in.pedals.bse2_out
    <3>1. Shows(in, "apps") \in BOOLEAN
      BY <1>2, <2>1
    <3>. QED  BY <2>1, <3>1, ShowsType
  <2>. QED  BY <1>2, <2>1, <2>2, <2>3, AllowedTimes DEF PedalsUpdated, Remembered
<1>8. /\ Follows(loop'.in_debounce, bad'["tap_in"], FALSE, ShutdownMs)
      /\ Follows(loop'.out_debounce, bad'["tap_out"], FALSE, ShutdownMs)
  <2>1. {"tap_in", "tap_out"} \subseteq Condition /\ ShutdownMs \in Nat
    BY DEF Condition
  <2> DEFINE ih == Hysteresis(loop.in_high, in.tap_in)
             oh == Hysteresis(loop.out_high, in.tap_out)
  <2>2. /\ loop'.in_debounce = Debounced(loop.in_debounce, ih, dt, ShutdownMs)
        /\ loop'.out_debounce = Debounced(loop.out_debounce, oh, dt, ShutdownMs)
    BY <1>3 DEF ReadInputs, LoopUpdated
  <2>3. ih \in BOOLEAN /\ oh \in BOOLEAN
    BY DEF Hysteresis
  <2>4. /\ Shows(in, "tap_in") => ih = FALSE
        /\ Shows(in, "tap_out") => oh = FALSE
    BY <2>1, ShowsType DEF Hysteresis
  <2>5. /\ loop.in_debounce \in Debouncers(ShutdownMs)
        /\ loop.out_debounce \in Debouncers(ShutdownMs)
    BY DEF TypeOK, LoopType
  <2> HIDE DEF ih, oh
  <2>6. /\ Follows(loop.in_debounce, bad["tap_in"], FALSE, ShutdownMs)
        /\ Follows(loop.out_debounce, bad["tap_out"], FALSE, ShutdownMs)
    BY DEF Remembered
  <2>7. /\ bad["tap_in"] \in Timers(ShutdownMs) /\ Shows(in, "tap_in") \in BOOLEAN
        /\ bad'["tap_in"] = TimerUpdated(bad["tap_in"], Shows(in, "tap_in"), dt, ShutdownMs)
        /\ bad["tap_out"] \in Timers(ShutdownMs) /\ Shows(in, "tap_out") \in BOOLEAN
        /\ bad'["tap_out"] = TimerUpdated(bad["tap_out"], Shows(in, "tap_out"), dt, ShutdownMs)
    BY <1>2, <2>1, AllowedTimes
  <2>8. Follows(loop'.in_debounce, bad'["tap_in"], FALSE, ShutdownMs)
    BY ONLY <1>1, <2>1, <2>2, <2>3, <2>4, <2>5, <2>6, <2>7, FollowsStep, ZenonT(60)
  <2>9. Follows(loop'.out_debounce, bad'["tap_out"], FALSE, ShutdownMs)
    BY ONLY <1>1, <2>1, <2>2, <2>3, <2>4, <2>5, <2>6, <2>7, FollowsStep, ZenonT(60)
  <2>. QED  BY <2>8, <2>9
<1>9. Follows(motor', bad'["motor"], TRUE, MotorMs)
  <2>1. "motor" \in Condition /\ MotorMs \in Nat /\ motor \in Debouncers(MotorMs)
    BY DEF Condition, TypeOK
  <2>2. motor' = Debounced(motor, in.motor_disconnect, dt, MotorMs)
    BY <1>3 DEF ReadInputs
  <2>3. Shows(in, "motor") = in.motor_disconnect /\ in.motor_disconnect \in BOOLEAN
    BY <1>1, <2>1, ShowsType DEF InputRecord
  <2>4. Follows(motor, bad["motor"], TRUE, MotorMs)
    BY DEF Remembered
  <2>5. /\ bad["motor"] \in Timers(MotorMs)
        /\ bad'["motor"] = TimerUpdated(bad["motor"], in.motor_disconnect, dt, MotorMs)
    BY <1>2, <2>1, <2>3, AllowedTimes
  <2>. QED  BY ONLY <1>1, <2>1, <2>2, <2>3, <2>4, <2>5, FollowsStep
<1>10. ASSUME NEW a \in Adc PROVE bad'["adc"] <= adc'[a]
  <2>1. "adc" \in Condition /\ adc[a] \in 0 .. AdcStaleMs
    BY DEF Condition, TypeOK
  <2>2. adc'[a] = IF a \in in.adc THEN 0 ELSE Advance(adc[a], dt, AdcStaleMs)
    BY <1>3 DEF ReadInputs
  <2>3. /\ adc'[a] \in Nat /\ AdcStaleMs \in Nat
        /\ Shows(in, "adc") => adc'[a] = Advance(adc[a], dt, AdcStaleMs)
    <3>1. Advance(adc[a], dt, AdcStaleMs) \in Nat
      BY <1>1, <2>1, <2>2 DEF Advance, AtMost
    <3>2. Shows(in, "adc") => a \notin in.adc
      BY <1>1, <2>1, <2>2, ShowsType
    <3>. QED  BY <1>1, <2>1, <2>2, <3>1, <3>2
  <2>4. /\ bad["adc"] \in Timers(AdcStaleMs) /\ Shows(in, "adc") \in BOOLEAN
        /\ bad'["adc"] = TimerUpdated(bad["adc"], Shows(in, "adc"), dt, AdcStaleMs)
    BY <1>2, <2>1, AllowedTimes
  <2>5. AtMost(bad["adc"], AdcStaleMs) <= adc[a]
    BY <2>1, <2>4 DEF Remembered, AtMost, Timers, Inactive
  <2>6. AtMost(bad'["adc"], AdcStaleMs) <= adc'[a]
    BY ONLY <1>1, <2>1, <2>3, <2>4, <2>5, AgeStep
  <2>7. bad'["adc"] \in Timers(AdcStaleMs)
    BY <1>1, <2>4, TimerType
  <2>. QED  BY <2>2, <2>6, <2>7 DEF AtMost, Timers, Inactive
<1>11. ASSUME NEW b \in BrakeFlag
       PROVE  Follows(flags'[b], bad'["flag"], TRUE, BrakeFlagMs)
  <2>1. /\ "flag" \in Condition /\ BrakeFlagMs \in Nat
        /\ flags[b] \in Debouncers(BrakeFlagMs)
    BY DEF Condition, TypeOK
  <2> DEFINE raw == b \in in.flags
  <2>2. flags'[b] = Debounced(flags[b], raw, dt, BrakeFlagMs)
    BY <1>3 DEF ReadInputs
  <2>3. raw \in BOOLEAN /\ (Shows(in, "flag") => raw = TRUE)
    BY <2>1, ShowsType
  <2> HIDE DEF raw
  <2>4. Follows(flags[b], bad["flag"], TRUE, BrakeFlagMs)
    BY DEF Remembered
  <2>5. /\ bad["flag"] \in Timers(BrakeFlagMs) /\ Shows(in, "flag") \in BOOLEAN
        /\ bad'["flag"] = TimerUpdated(bad["flag"], Shows(in, "flag"), dt, BrakeFlagMs)
    BY <1>2, <2>1, AllowedTimes
  <2>. QED  BY ONLY <1>1, <2>1, <2>2, <2>3, <2>4, <2>5, FollowsStep
<1>. QED
  BY <1>5, <1>6, <1>7, <1>8, <1>9, <1>10, <1>11 DEF Remembered

\* A tick that leaves the inverter enabled found no cause to cut torque, so no
\* clock of the code had run out, and none of the observer's had.
LEMMA EnabledInTime ==
  ASSUME TypeOK', BadType', Remembered', NEW in, NEW dt, ControlTick(in, dt)
  PROVE  ReactionBound'
<1> SUFFICES ASSUME inverter_enable', NEW c \in Condition
             PROVE  bad'[c] < Allowed(c)
  BY DEF ReactionBound
<1> USE ControlParams, PedalParams
<1>1. ComputeFaults(in) /\ UpdateBrakeLatch /\ ~TorqueCut(faults')
  BY DEF ControlTick, ArbitrateTorque, InverterEnabled
<1>2. /\ ~\E a \in Adc : adc'[a] >= AdcStaleMs
      /\ ~AppsImplausible(pedals') /\ ~Bse1Fault(pedals') /\ ~Bse2Fault(pedals')
      /\ ~brake_latch'
      /\ LoopClosed(loop')
      /\ Fresh(rx', "contactor_status")
      /\ InverterFresh(rx')
      /\ Fresh(rx', "bse_3")
      /\ ~motor'.value
  BY <1>1, NoCutNoCause
<1>3. bad'[c] \in Timers(Allowed(c)) /\ Allowed(c) \in Nat
  BY AllowedType DEF BadType
<1>4. CASE c \in Silent
  <2>1. Fresh(rx', c)
    BY <1>2, <1>4 DEF InverterFresh, Silent
  <2>2. bad'[c] <= rx'.age[c] /\ rx'.age[c] \in Nat
    BY <1>4 DEF Remembered, TypeOK, RxType, Silent, Slot
  <2>. QED  BY <1>3, <1>4, <2>1, <2>2, AllowedTimes DEF Fresh, Timers, Inactive
<1>5. CASE c = "speed"
  <2>1. PICK s \in {"inverter_speed", "inverter_status"} : Fresh(rx', s)
    BY <1>2 DEF InverterFresh
  <2>2. AtMost(bad'["speed"], Timeout[s]) <= rx'.age[s] /\ rx'.age[s] \in Nat
    BY DEF Remembered, TypeOK, RxType, Slot
  <2>3. Timeout[s] \in Nat /\ Timeout[s] <= Allowed("speed")
    BY AllowedTimes
  <2>. QED  BY <1>3, <1>5, <2>1, <2>2, <2>3 DEF Fresh, AtMost, Timers, Inactive
<1>6. CASE c \in {"apps", "bse1", "bse2"}
  <2>1. /\ pedals'.apps_timer \in Timers(ImplausibleMs)
        /\ pedals'.bse1_timer \in Timers(RangeFaultMs)
        /\ pedals'.bse2_timer \in Timers(RangeFaultMs)
    BY DEF TypeOK, PedalProcessor
  <2>2. /\ bad'["apps"] = pedals'.apps_timer
        /\ bad'["bse1"] = pedals'.bse1_timer
        /\ bad'["bse2"] = pedals'.bse2_timer
    BY DEF Remembered
  <2>. QED
    BY <1>2, <1>6, <2>1, <2>2, AllowedTimes
    DEF AppsImplausible, Bse1Fault, Bse2Fault, Persisted, Timers, Inactive
<1>7. CASE c \in {"tap_in", "tap_out"}
  <2>1. loop'.in_debounce.value = TRUE /\ loop'.out_debounce.value = TRUE
    <3>1. PICK l, tap_in, tap_out, d : loop' = LoopUpdated(l, tap_in, tap_out, d)
      BY DEF ControlTick, ReadInputs
    <3>2. loop' \in LoopType
      BY DEF TypeOK
    <3>. QED  BY <1>2, <3>1, <3>2 DEF LoopClosed, LoopUpdated, LoopType, Debouncers
  <2>2. /\ Follows(loop'.in_debounce, bad'["tap_in"], FALSE, ShutdownMs)
        /\ Follows(loop'.out_debounce, bad'["tap_out"], FALSE, ShutdownMs)
    BY DEF Remembered
  <2>3. /\ loop'.in_debounce.held \in Nat /\ loop'.out_debounce.held \in Nat
    BY DEF TypeOK, LoopType, Debouncers
  <2>. QED
    BY <1>3, <1>7, <2>1, <2>2, <2>3, AllowedTimes DEF Follows, Timers, Inactive
<1>8. CASE c = "motor"
  <2>1. motor'.value = FALSE /\ motor'.held \in Nat
    BY <1>2 DEF TypeOK, Debouncers
  <2>2. Follows(motor', bad'["motor"], TRUE, MotorMs)
    BY DEF Remembered
  <2>. QED  BY <1>3, <1>8, <2>1, <2>2, AllowedTimes DEF Follows, Timers, Inactive
<1>9. CASE c = "adc"
  <2>1. PICK a \in Adc : TRUE
    OBVIOUS
  <2>2. bad'["adc"] <= adc'[a] /\ adc'[a] \in Nat /\ ~(adc'[a] >= AdcStaleMs)
    BY <1>2 DEF Remembered, TypeOK
  <2>. QED  BY <1>3, <1>9, <2>2, AllowedTimes DEF Timers, Inactive
<1>10. CASE c = "flag"
  <2>1. PICK b \in BrakeFlag : TRUE
    OBVIOUS
  <2>2. ~AnyFlag(flags')
    BY <1>1, <1>2, Zenon DEF UpdateBrakeLatch
  <2>3. flags'[b].value = FALSE /\ flags'[b].held \in Nat
    BY <2>2 DEF AnyFlag, TypeOK, Debouncers
  <2>4. Follows(flags'[b], bad'["flag"], TRUE, BrakeFlagMs)
    BY DEF Remembered
  <2>. QED  BY <1>3, <1>10, <2>3, <2>4, AllowedTimes DEF Follows, Timers, Inactive
<1>. QED  BY <1>4, <1>5, <1>6, <1>7, <1>8, <1>9, <1>10 DEF Condition

LEMMA NothingRemembered ==
  ASSUME bad = NothingBad, rx = NewRx, pedals = NewPedals,
         adc = [a \in Adc |-> AdcStaleMs], ~inverter_enable
  PROVE  BadType /\ Remembered /\ ReactionBound
<1>1. \A c \in Condition : bad[c] = Inactive
  BY DEF NothingBad
<1>2. BadType
  BY <1>1, AllowedType DEF BadType, Timers, Inactive
<1>3. \A s \in Slot : rx.age[s] \in Nat /\ Timeout[s] \in Nat
  BY ControlParams DEF NewRx
<1>. QED
  BY <1>1, <1>2, <1>3, ControlParams
  DEF Remembered, ReactionBound, Follows, NewPedals, Inactive, AtMost, Condition,
      Silent, Slot

\* No condition that cuts torque is on every reading for longer than the code's
\* own time for it while the inverter stays enabled, for all inputs, periods,
\* timeouts and calibrations and next to every other task.
THEOREM ReactionIsBounded == ObservedSpec => []ReactionBound
<1> DEFINE IInv == TypeOK /\ BadType /\ Remembered /\ ReactionBound
<1>1. Init /\ bad = NothingBad => IInv
  BY InitType, NothingRemembered DEF Init
<1>2. IInv /\ [ObservedNext]_<<vars, bad>> => IInv'
  <2> SUFFICES ASSUME IInv, [ObservedNext]_<<vars, bad>> PROVE IInv'
    OBVIOUS
  <2>0. [Next]_vars
    BY DEF ObservedNext, Next
  <2>1. TypeOK'
    BY <2>0, NextType
  <2>2. ASSUME NEW in \in Inputs, NEW dt \in TickMs,
               Observed(in, dt), ControlTick(in, dt)
        PROVE  IInv'
    <3>1. in \in InputRecord /\ dt \in Nat
      BY ControlParams
    <3>2. BadType'
      BY <2>2, <3>1, ShowsBoolean, ObservedType
    <3>3. Remembered'
      BY <2>2, RememberedStep
    <3>. QED  BY <2>1, <2>2, <3>2, <3>3, EnabledInTime
  <2>3. CASE (OtherTask /\ UNCHANGED bad) \/ UNCHANGED <<vars, bad>>
    <3>1. /\ UNCHANGED <<inputVars, bad>>
          /\ inverter_enable' => inverter_enable
      BY <2>3 DEF OtherTask, ModeCommand, RequestBootloader, EnterBootloader,
                  TelemetryTick, vars, outputVars
    <3>. QED
      BY <2>1, <3>1 DEF inputVars, BadType, Remembered, ReactionBound
  <2>4. CASE Reset /\ bad' = NothingBad
    <3>1. BadType' /\ Remembered' /\ ReactionBound'
      <4>1. \A c \in Condition : bad'[c] = Inactive
        BY <2>4 DEF NothingBad
      <4>2. BadType'
        BY <4>1, AllowedType DEF BadType, Timers, Inactive
      <4>3. /\ rx' = NewRx /\ pedals' = NewPedals
            /\ adc' = [a \in Adc |-> AdcStaleMs] /\ ~inverter_enable'
        BY <2>4 DEF Reset
      <4>4. \A s \in Slot : rx'.age[s] \in Nat /\ Timeout[s] \in Nat
        BY <4>3, ControlParams DEF NewRx
      <4>. QED
        BY <4>1, <4>2, <4>3, <4>4, ControlParams
        DEF Remembered, ReactionBound, Follows, NewPedals, Inactive, AtMost, Condition,
            Silent, Slot
    <3>. QED  BY <2>1, <3>1
  <2>. QED  BY <2>2, <2>3, <2>4 DEF ObservedNext
<1>. QED  BY <1>1, <1>2, PTL DEF ObservedSpec

=============================================================================
