--------------------------- MODULE VcuStateMachine ---------------------------
(***************************************************************************)
(* boards/VCU/App/safety/state_machine.{hpp,cpp}: the vehicle state, the   *)
(* conditions derived from one control tick's inputs and the transition    *)
(* table, whose rows are tried in order.                                   *)
(***************************************************************************)
EXTENDS Naturals, Sequences

VcuState == {"INIT", "IDLE", "PRECHARGE", "TS_ACTIVE", "RTD_WAIT", "DRIVE",
             "FAULT", "BSPD_TRIPPED"}

HvcState == {"NOT_ENERGIZED", "PRECHARGING", "ENERGIZED"}

StateInputs ==
    [bspd_latched : BOOLEAN, hvc_fresh : BOOLEAN, hvc_state : HvcState,
     contactors_closed : BOOLEAN, loop_closed : BOOLEAN,
     torque_cut_fault : BOOLEAN, inverter_ready : BOOLEAN,
     pdu_fresh : BOOLEAN, bse_valid : BOOLEAN, brake_for_rtd : BOOLEAN,
     pedal_released : BOOLEAN, rtd_edge : BOOLEAN, rtd_pressed : BOOLEAN,
     rtd_release_exits_drive : BOOLEAN]

-----------------------------------------------------------------------------
\* StateConditions
Energized(si) ==
    si.hvc_fresh /\ si.hvc_state = "ENERGIZED" /\ si.contactors_closed

Precharging(si) == si.hvc_fresh /\ si.hvc_state = "PRECHARGING"

ReadyForRtd(si) ==
    /\ Energized(si)
    /\ si.loop_closed
    /\ ~si.torque_cut_fault
    /\ si.inverter_ready
    /\ si.pdu_fresh

\* Slip: the switch's level instead of its edge.
SlipRtdRequest(si) ==
    si.rtd_pressed /\ si.bse_valid /\ si.brake_for_rtd /\ si.pedal_released

RtdRequest(si) ==
    si.rtd_edge /\ si.bse_valid /\ si.brake_for_rtd /\ si.pedal_released

DriveExitFault(si) ==
    \/ ~Energized(si)
    \/ ~si.loop_closed
    \/ si.torque_cut_fault
    \/ ~si.inverter_ready
    \/ ~si.pdu_fresh

RtdReleased(si) == si.rtd_release_exits_drive /\ ~si.rtd_pressed

-----------------------------------------------------------------------------
(***************************************************************************)
(* kTable.  A row is the states it applies in, whether its guard holds on  *)
(* these inputs, and the state it leads to.                                *)
(***************************************************************************)
Row(from, guard, to) == [from |-> from, guard |-> guard, to |-> to]

kTable(si) ==
    << Row(VcuState,      si.bspd_latched,       "BSPD_TRIPPED"),
       Row({"INIT"},      TRUE,                  "IDLE"),
       Row({"IDLE"},      Energized(si),         "TS_ACTIVE"),
       Row({"IDLE"},      Precharging(si),       "PRECHARGE"),
       Row({"PRECHARGE"}, Energized(si),         "TS_ACTIVE"),
       Row({"PRECHARGE"}, ~Precharging(si) /\ ~Energized(si), "IDLE"),
       Row({"TS_ACTIVE"}, ~Energized(si),        "IDLE"),
       Row({"TS_ACTIVE"}, ReadyForRtd(si),       "RTD_WAIT"),
       Row({"RTD_WAIT"},  ~Energized(si),        "IDLE"),
       Row({"RTD_WAIT"},  ~ReadyForRtd(si),      "TS_ACTIVE"),
       Row({"RTD_WAIT"},  RtdRequest(si),        "DRIVE"),
       Row({"DRIVE"},     DriveExitFault(si),    "FAULT"),
       Row({"DRIVE"},     RtdReleased(si),       "TS_ACTIVE"),
       Row({"FAULT"},     ~si.torque_cut_fault,  "IDLE") >>

(***************************************************************************)
(* StateMachine::Step: t is the state after s.  The first row that applies *)
(* is taken; BSPD_TRIPPED is terminal.                                     *)
(***************************************************************************)
Step(s, si, t) ==
    LET table   == kTable(si)
        applies == {i \in 1 .. 14 : s \in table[i].from /\ table[i].guard}
    IN  \/ /\ s = "BSPD_TRIPPED" \/ applies = {}
           /\ t = s
        \/ /\ s # "BSPD_TRIPPED"
           /\ \E i \in applies : /\ \A j \in applies : i <= j
                                /\ t = table[i].to

=============================================================================
