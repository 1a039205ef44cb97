----------------------------- MODULE PolledMotor -----------------------------
(***************************************************************************)
(* The motor sequencer under the assumption its author makes: checkMoto()  *)
(* is called at least every PollGap units of time.  control_moto.h states  *)
(* the contract "1 Open 2s, 2 Stop 10s, 3 Close 2s"; this module gives the *)
(* gap for which the contract holds, up to that gap.                       *)
(***************************************************************************)
EXTENDS Motor

CONSTANT PollGap    \* the longest time between two calls of checkMoto()

ASSUME PollGapAssumption == PollGap \in Nat /\ PollGap <= TIME_CLOSE_MOTOR

VARIABLE sincePoll  \* time since the last call of checkMoto()

polledVars == <<motorVars, sincePoll>>

PolledInit == MotorInit /\ sincePoll = 0

Poll == CheckMoto /\ sincePoll' = 0

(* Time passes, with or without a request, no further than the gap allows. *)
Wait(d) ==
    /\ sincePoll + d <= PollGap
    /\ sincePoll' = sincePoll + d
    /\ MotorRuns(motor_status, d) \/ RequestOpen(d)

Restart == MotorPowerUp /\ sincePoll' = 0

PolledNext ==
    \/ Poll
    \/ Restart
    \/ \E d \in Durations : Wait(d)

PolledSpec == PolledInit /\ [][PolledNext]_polledVars
-----------------------------------------------------------------------------
PolledTypeOK == MotorTypeOK /\ sincePoll \in 0..PollGap

(* "1 Open 2s, 2 Stop 10s": neither phase outlasts its time by more than   *)
(* the polling gap.                                                        *)
PhasesTimely ==
    /\ motor_status = 2 => elapsed <= OPEN_AT + PollGap
    /\ motor_status = 3 => elapsed <= CLOSE_AT + PollGap

(* "3 Close 2s": when a cycle ends, the bolt is shut again up to the time  *)
(* the closing phase started late.  It holds for a cycle interrupted by    *)
(* further requests too, and wherever the bolt was at power-up.            *)
CycleEndsShut ==
    [][Poll /\ motor_status # 0 /\ motor_status' = 0 => bolt' <= PollGap]_polledVars

=============================================================================
