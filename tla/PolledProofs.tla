---------------------------- MODULE PolledProofs ----------------------------
(***************************************************************************)
(* Proofs about the motor sequencer polled at least every PollGap, for     *)
(* every choice of the phase times and every gap up to the closing time,   *)
(* and about the clock that wraps, for every range of it.                  *)
(***************************************************************************)
EXTENDS MotorMillis, MotorProofs

(* The polled motor.  At the last call every phase was still within its    *)
(* time, so it is over by at most sincePoll now; and a bolt on its way     *)
(* back is at most as far out as the time the closing phase has left.      *)
PolledIInv ==
    /\ MotorIInv
    /\ sincePoll \in 0..PollGap
    /\ motor_status = 2 => elapsed <= OPEN_AT + sincePoll
    /\ motor_status = 3 => elapsed <= CLOSE_AT + sincePoll
    /\ motor_status = 4 => bolt = 0 \/ bolt + elapsed <= TRAVEL + CLOSE_AT + PollGap

LEMMA PolledInitIInv == PolledInit => PolledIInv
BY MotorInitIInv, PollGapAssumption DEF PolledInit, PolledIInv, MotorInit

LEMMA PollIInv ==
    ASSUME PolledIInv, Poll
    PROVE  PolledIInv'
<1> USE MotorAssumption, DurationsAssumption, PollGapAssumption
<1>1. MotorIInv'
  BY CheckMotoIInv DEF PolledIInv, Poll
<1>2. CASE StartOpening
  BY <1>1, <1>2 DEF StartOpening, Poll, PolledIInv, OPEN_AT
<1>3. CASE Sequence
  BY <1>1, <1>3 DEF Sequence, NextStatus, Over, Poll, PolledIInv, MotorIInv, MotorTypeOK,
     CYCLE, OPEN_AT, CLOSE_AT
<1>4. QED
  BY <1>2, <1>3 DEF Poll, CheckMoto

LEMMA WaitIInv ==
    ASSUME PolledIInv, NEW d \in Durations, Wait(d)
    PROVE  PolledIInv'
<1> USE MotorAssumption, DurationsAssumption, PollGapAssumption
<1>1. PICK s \in {motor_status, 1} : MotorRuns(s, d)
  BY DEF Wait, RequestOpen
<1>2. d \in Nat
  OBVIOUS
<1>3. MotorIInv'
  BY <1>1, <1>2, MotorRunsIInv DEF PolledIInv
<1>4. sincePoll' \in 0..PollGap /\ sincePoll' = sincePoll + d
  BY <1>2 DEF Wait, PolledIInv
<1>5. elapsed' <= elapsed + d /\ elapsed' \in Nat
  BY <1>1, <1>2 DEF MotorRuns, Later, PolledIInv, MotorIInv, MotorTypeOK, CYCLE
<1>6. motor_status' = 2 => elapsed' <= OPEN_AT + sincePoll'
  BY <1>1, <1>2, <1>4, <1>5 DEF MotorRuns, PolledIInv, MotorIInv, MotorTypeOK, OPEN_AT, CYCLE
<1>7. motor_status' = 3 => elapsed' <= CLOSE_AT + sincePoll'
  BY <1>1, <1>2, <1>4, <1>5 DEF MotorRuns, PolledIInv, MotorIInv, MotorTypeOK, CLOSE_AT, CYCLE
<1>8. motor_status' = 4 => bolt' = 0 \/ bolt' + elapsed' <= TRAVEL + CLOSE_AT + PollGap
  <2>1. SUFFICES ASSUME motor_status' = 4
                 PROVE  bolt' = 0 \/ bolt' + elapsed' <= TRAVEL + CLOSE_AT + PollGap
    OBVIOUS
  <2>2. motor_status = 4 /\ in1 = 0 /\ in2 = 1
    BY <2>1, <1>1 DEF MotorRuns, PolledIInv, MotorIInv, PinsFollowStatus
  <2>3. bolt' = 0 \/ bolt' = bolt - d
    BY <2>2, <1>1, <1>2, DrivenType DEF MotorRuns, PolledIInv, MotorIInv, MotorTypeOK
  <2>4. bolt \in Nat /\ elapsed \in Nat /\ bolt' \in Nat
    BY <1>3 DEF PolledIInv, MotorIInv, MotorTypeOK
  <2>5. TRAVEL + CLOSE_AT + PollGap \in Nat
    BY DEF CLOSE_AT
  <2>6. bolt = 0 \/ bolt + elapsed <= TRAVEL + CLOSE_AT + PollGap
    BY <2>2 DEF PolledIInv
  <2>7. QED
    BY <2>3, <2>4, <2>5, <2>6, <1>2, <1>5
<1>9. QED
  BY <1>3, <1>4, <1>6, <1>7, <1>8 DEF PolledIInv

LEMMA RestartIInv ==
    ASSUME PolledIInv, Restart
    PROVE  PolledIInv'
BY MotorPowerUpIInv, PollGapAssumption DEF Restart, MotorPowerUp, PolledIInv

LEMMA PolledStepIInv ==
    ASSUME PolledIInv, [PolledNext]_polledVars
    PROVE  PolledIInv'
<1>1. CASE Poll
  BY <1>1, PollIInv
<1>2. CASE Restart
  BY <1>2, RestartIInv
<1>3. ASSUME NEW d \in Durations, Wait(d)
      PROVE  PolledIInv'
  BY <1>3, WaitIInv
<1>4. CASE UNCHANGED polledVars
  BY <1>4 DEF polledVars, motorVars, PolledIInv, MotorIInv, MotorTypeOK,
     PinsFollowStatus, OpensFully
<1>5. QED
  BY <1>1, <1>2, <1>3, <1>4 DEF PolledNext

(* A call that ends a cycle finds the bolt within PollGap of shut.         *)
LEMMA CycleEnd ==
    ASSUME PolledIInv, Poll, motor_status # 0, motor_status' = 0
    PROVE  bolt' <= PollGap
<1> USE MotorAssumption, DurationsAssumption, PollGapAssumption
<1>1. Sequence
  BY DEF Poll, CheckMoto, StartOpening
<1>2. elapsed > CYCLE
  BY <1>1 DEF Sequence, NextStatus, Over
<1>3. motor_status = 4
  BY <1>1, <1>2 DEF Sequence, NextStatus, Over, PolledIInv, MotorIInv, MotorTypeOK,
     CYCLE, OPEN_AT, CLOSE_AT
<1>4. QED
  BY <1>1, <1>2, <1>3 DEF Sequence, PolledIInv, MotorIInv, MotorTypeOK, CYCLE, CLOSE_AT

(* Polled at least every PollGap, each phase keeps its time up to PollGap. *)
THEOREM PolledTimely == PolledSpec => [](PolledTypeOK /\ PhasesTimely)
<1>1. PolledInit => PolledIInv
  BY PolledInitIInv
<1>2. PolledIInv /\ [PolledNext]_polledVars => PolledIInv'
  BY PolledStepIInv
<1>3. PolledIInv => PolledTypeOK /\ PhasesTimely
  BY MotorAssumption, DurationsAssumption, PollGapAssumption
     DEF PolledIInv, MotorIInv, MotorTypeOK, PolledTypeOK, PhasesTimely, OPEN_AT, CLOSE_AT, CYCLE
<1>4. QED
  BY <1>1, <1>2, <1>3, PTL DEF PolledSpec

(* Polled at least every PollGap, with PollGap within the closing time,    *)
(* every cycle ends with the bolt shut up to PollGap.                      *)
THEOREM PolledEndsShut == PolledSpec => CycleEndsShut
<1>1. PolledInit => PolledIInv
  BY PolledInitIInv
<1>2. PolledIInv /\ [PolledNext]_polledVars => PolledIInv'
  BY PolledStepIInv
<1>3. PolledIInv /\ [PolledNext]_polledVars
      => [Poll /\ motor_status # 0 /\ motor_status' = 0 => bolt' <= PollGap]_polledVars
  BY CycleEnd
<1>4. QED
  BY <1>1, <1>2, <1>3, PTL DEF PolledSpec, CycleEndsShut
-----------------------------------------------------------------------------
(* The wrapping clock.  Unsigned numbers a range apart are not confused.   *)
LEMMA DifferenceValue ==
    ASSUME NEW a \in 0..(RANGE - 1), NEW b \in 0..(RANGE - 1)
    PROVE  Difference(a, b) = IF a >= b THEN a - b ELSE a - b + RANGE
<1>1. RANGE \in Nat \ {0}
  BY RangeAssumption, MotorAssumption, PollGapAssumption DEF CYCLE
<1>2. QED
  BY <1>1, SMTT(30) DEF Difference

LEMMA TickValue ==
    ASSUME NEW a \in 0..(RANGE - 1), NEW d \in 0..(RANGE - 1)
    PROVE  (a + d) % RANGE = IF a + d >= RANGE THEN a + d - RANGE ELSE a + d
<1>1. RANGE \in Nat \ {0}
  BY RangeAssumption, MotorAssumption, PollGapAssumption DEF CYCLE
<1>2. QED
  BY <1>1, SMTT(30)

Stamp == Difference(now, timer_check_motor)

(* While a cycle is under way its stamp is younger than one turn of the    *)
(* clock, so the difference is its age.                                    *)
MillisIInv ==
    /\ PolledIInv
    /\ now \in 0..(RANGE - 1)
    /\ timer_check_motor \in 0..(RANGE - 1)
    /\ motor_status \in 2..4 =>
            /\ Stamp <= CYCLE + sincePoll
            /\ elapsed = IF Stamp > CYCLE THEN CYCLE + 1 ELSE Stamp

LEMMA MillisInitIInv == MillisInit => MillisIInv
BY PolledInitIInv, RangeAssumption, MotorAssumption, PollGapAssumption
   DEF MillisInit, PolledInit, MotorInit, MillisIInv, CYCLE

(* checkMoto() with the unsigned difference does what it does with the age.*)
LEMMA MillisPollIsPoll ==
    ASSUME MillisIInv, MillisPoll
    PROVE  Poll
<1> USE MotorAssumption, DurationsAssumption, PollGapAssumption
<1>1. CASE motor_status = 1
  <2>1. Clock!StartOpening
    BY <1>1 DEF MillisPoll, Clock!CheckMoto, Clock!Sequence
  <2>2. StartOpening
    BY <1>1, <2>1 DEF MillisPoll, Clock!StartOpening, StartOpening
  <2>3. QED
    BY <2>2 DEF MillisPoll, Poll, CheckMoto
<1>2. CASE motor_status # 1
  <2>1. Clock!Sequence
    BY <1>2 DEF MillisPoll, Clock!CheckMoto, Clock!StartOpening
  <2>2. Stamp \in Int
    BY DifferenceValue, RangeAssumption DEF MillisIInv, Stamp, CYCLE
  <2>3. motor_status' = NextStatus(motor_status, Stamp)
    BY <2>1 DEF Clock!Sequence, Clock!NextStatus, Clock!Over, Clock!OPEN_AT, Clock!CLOSE_AT,
       Clock!CYCLE, NextStatus, Over, OPEN_AT, CLOSE_AT, CYCLE, Stamp
  <2>4. NextStatus(motor_status, Stamp) = NextStatus(motor_status, elapsed)
    BY <1>2, <2>2 DEF NextStatus, Over, OPEN_AT, CLOSE_AT, CYCLE, MillisIInv, PolledIInv,
       MotorIInv, MotorTypeOK
  <2>5. Sequence
    BY <1>2, <2>1, <2>3, <2>4 DEF MillisPoll, Clock!Sequence, Sequence
  <2>6. QED
    BY <2>5 DEF MillisPoll, Poll, CheckMoto
<1>3. QED
  BY <1>1, <1>2

LEMMA MillisPollIInv ==
    ASSUME MillisIInv, MillisPoll
    PROVE  MillisIInv'
<1> USE MotorAssumption, DurationsAssumption, PollGapAssumption, RangeAssumption
<1>1. Poll /\ PolledIInv'
  BY MillisPollIsPoll, PollIInv DEF MillisIInv
<1>2. now' \in 0..(RANGE - 1) /\ timer_check_motor' \in 0..(RANGE - 1)
  BY DEF MillisPoll, MillisIInv
<1>3. CASE motor_status = 1
  <2>1. Stamp' = 0
    BY <1>2, <1>3, DifferenceValue DEF MillisPoll, Stamp, MillisIInv
  <2>2. elapsed' = 0 /\ sincePoll' = 0 /\ CYCLE \in Nat
    BY <1>3 DEF MillisPoll, CYCLE
  <2>3. QED
    BY <1>1, <1>2, <2>1, <2>2 DEF MillisIInv
<1>4. CASE motor_status # 1
  <2>1. Sequence
    BY <1>1, <1>4 DEF Poll, CheckMoto, StartOpening
  <2>2. Stamp' = Stamp /\ elapsed' = elapsed /\ sincePoll' = 0
    BY <1>4 DEF MillisPoll, Stamp
  <2>3. motor_status' \in 2..4 => motor_status \in 2..4 /\ elapsed <= CYCLE
    BY <1>4, <2>1 DEF Sequence, NextStatus, Over, MillisIInv, PolledIInv, MotorIInv,
       MotorTypeOK, OPEN_AT, CLOSE_AT, CYCLE
  <2>4. CYCLE \in Nat /\ Stamp \in Int
    BY DifferenceValue DEF MillisIInv, Stamp, CYCLE
  <2>5. motor_status' \in 2..4 =>
          Stamp' <= CYCLE + sincePoll' /\ elapsed' = IF Stamp' > CYCLE THEN CYCLE + 1 ELSE Stamp'
    BY <2>2, <2>3, <2>4 DEF MillisIInv
  <2>6. QED
    BY <1>1, <1>2, <2>5 DEF MillisIInv
<1>5. QED
  BY <1>3, <1>4

LEMMA MillisWaitIInv ==
    ASSUME MillisIInv, NEW d \in Durations, MillisWait(d)
    PROVE  MillisIInv'
<1> USE MotorAssumption, DurationsAssumption, PollGapAssumption, RangeAssumption
<1>1. PolledIInv'
  BY WaitIInv DEF MillisIInv, MillisWait
<1>2. d \in 0..(RANGE - 1) /\ RANGE \in Nat
  OBVIOUS
<1>3. now' = IF now + d >= RANGE THEN now + d - RANGE ELSE now + d
  BY <1>2, TickValue DEF MillisIInv, MillisWait
<1>4. now' \in 0..(RANGE - 1) /\ timer_check_motor' = timer_check_motor
  BY <1>2, <1>3 DEF MillisIInv, MillisWait
<1>5. ASSUME motor_status' \in 2..4
      PROVE  /\ Stamp' <= CYCLE + sincePoll'
             /\ elapsed' = IF Stamp' > CYCLE THEN CYCLE + 1 ELSE Stamp'
  <2>1. motor_status' = motor_status /\ elapsed' = Later(elapsed, d, CYCLE)
    BY <1>5 DEF MillisWait, Wait, RequestOpen, MotorRuns
  <2>2. sincePoll' = sincePoll + d /\ sincePoll' <= PollGap /\ sincePoll \in Nat
    BY DEF MillisWait, Wait, MillisIInv, PolledIInv
  <2>3. /\ Stamp <= CYCLE + sincePoll
        /\ elapsed = IF Stamp > CYCLE THEN CYCLE + 1 ELSE Stamp
    BY <1>5, <2>1 DEF MillisIInv
  <2>4. Stamp = IF now >= timer_check_motor THEN now - timer_check_motor
                ELSE now - timer_check_motor + RANGE
    BY DifferenceValue DEF MillisIInv, Stamp
  <2>5. Stamp' = IF now' >= timer_check_motor THEN now' - timer_check_motor
                 ELSE now' - timer_check_motor + RANGE
    BY <1>4, DifferenceValue DEF MillisIInv, Stamp
  <2>6. CYCLE \in Nat /\ Stamp + d < RANGE
    BY <1>2, <2>2, <2>3, <2>4 DEF CYCLE, MillisIInv
  <2>7. Stamp' = Stamp + d
    BY <1>2, <1>3, <2>4, <2>5, <2>6 DEF MillisIInv
  <2>8. Stamp \in Nat
    BY <2>4 DEF MillisIInv
  <2>9. QED
    BY <1>2, <2>1, <2>2, <2>3, <2>6, <2>7, <2>8 DEF Later
<1>6. QED
  BY <1>1, <1>4, <1>5 DEF MillisIInv

LEMMA MillisStepIInv ==
    ASSUME MillisIInv, [MillisNext]_millisVars
    PROVE  MillisIInv'
<1>1. CASE MillisPoll
  BY <1>1, MillisPollIInv
<1>2. CASE MillisRestart
  <2>1. PolledIInv'
    BY <1>2, RestartIInv DEF MillisRestart, MillisIInv
  <2>2. QED
    BY <1>2, <2>1, RangeAssumption, MotorAssumption, PollGapAssumption
       DEF MillisRestart, Restart, MotorPowerUp, MillisIInv, CYCLE
<1>3. ASSUME NEW d \in Durations, MillisWait(d)
      PROVE  MillisIInv'
  BY <1>3, MillisWaitIInv
<1>4. CASE UNCHANGED millisVars
  BY <1>4 DEF millisVars, polledVars, motorVars, MillisIInv, PolledIInv, MotorIInv,
     MotorTypeOK, PinsFollowStatus, OpensFully, Stamp
<1>5. QED
  BY <1>1, <1>2, <1>3, <1>4 DEF MillisNext

(* For every range of the clock longer than a cycle and the polling gap,   *)
(* the motor with wrapping time stamps implements the polled motor.        *)
THEOREM MillisImplementsPolled == MillisSpec => WrapUnseen
<1>1. MillisInit => MillisIInv /\ PolledInit
  BY MillisInitIInv DEF MillisInit
<1>2. MillisIInv /\ [MillisNext]_millisVars => MillisIInv'
  BY MillisStepIInv
<1>3. MillisIInv /\ [MillisNext]_millisVars => [PolledNext]_polledVars
  BY MillisPollIsPoll DEF MillisNext, MillisRestart, MillisWait, PolledNext, millisVars
<1>4. QED
  BY <1>1, <1>2, <1>3, PTL DEF MillisSpec, PolledSpec, WrapUnseen

=============================================================================
