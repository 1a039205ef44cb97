----------------------------- MODULE MotorProofs -----------------------------
(***************************************************************************)
(* Proofs about the motor sequencer, for every choice of the phase times.  *)
(***************************************************************************)
EXTENDS Motor, TLAPS

(* A timer's age stays in its range whatever amount of time passes.        *)
LEMMA LaterType ==
    ASSUME NEW limit \in Nat, NEW age \in 0..(limit + 1), NEW d \in Nat
    PROVE  Later(age, d, limit) \in 0..(limit + 1)
BY DEF Later

(* The opening drive moves the bolt towards TRAVEL, the closing drive      *)
(* towards 0, and it never leaves the range in between.                    *)
LEMMA DrivenType ==
    ASSUME bolt \in 0..TRAVEL, in1 \in 0..1, in2 \in 0..1, NEW d \in Nat
    PROVE  /\ Driven(d) \in 0..TRAVEL
           /\ in1 = 1 /\ in2 = 0 => Driven(d) = TRAVEL \/ Driven(d) = bolt + d
           /\ in1 = 0 /\ in2 = 1 => Driven(d) = 0 \/ Driven(d) = bolt - d
           /\ in1 = in2 => Driven(d) = bolt
BY MotorAssumption, DurationsAssumption DEF Driven
-----------------------------------------------------------------------------
(* What every step preserves about the pins and the bolt.  While the       *)
(* opening drive is on, the bolt has moved for as long as the timer says.  *)
MotorIInv ==
    /\ MotorTypeOK
    /\ PinsFollowStatus
    /\ motor_status = 2 => bolt = TRAVEL \/ bolt >= elapsed
    /\ OpensFully

LEMMA MotorInitIInv == MotorInit => MotorIInv
BY MotorAssumption, DurationsAssumption DEF MotorInit, MotorIInv, MotorTypeOK, PinsFollowStatus, OpensFully, CYCLE

LEMMA CheckMotoIInv ==
    ASSUME MotorIInv, CheckMoto
    PROVE  MotorIInv'
<1> USE MotorAssumption, DurationsAssumption DEF MotorIInv, MotorTypeOK, PinsFollowStatus, OpensFully,
        CYCLE, OPEN_AT, CLOSE_AT
<1>1. CASE StartOpening
  BY <1>1 DEF StartOpening
<1>2. CASE Sequence
  BY <1>2 DEF Sequence, NextStatus, Over
<1>3. QED
  BY <1>1, <1>2 DEF CheckMoto

LEMMA MotorRunsIInv ==
    ASSUME MotorIInv, NEW d \in Nat, NEW s \in {motor_status, 1}, MotorRuns(s, d)
    PROVE  MotorIInv'
<1> USE MotorAssumption, DurationsAssumption
<1>1. elapsed' \in 0..(CYCLE + 1)
  <2>1. CYCLE \in Nat
    BY DEF CYCLE
  <2>2. elapsed \in 0..(CYCLE + 1)
    BY DEF MotorIInv, MotorTypeOK
  <2>3. Later(elapsed, d, CYCLE) \in 0..(CYCLE + 1)
    BY <2>1, <2>2, LaterType
  <2>4. QED
    BY <2>3 DEF MotorRuns
<1>2. /\ bolt' \in 0..TRAVEL
      /\ in1 = 1 /\ in2 = 0 => bolt' = TRAVEL \/ bolt' = bolt + d
      /\ in1 = in2 => bolt' = bolt
  BY DrivenType DEF MotorRuns, MotorIInv, MotorTypeOK
<1>3. MotorTypeOK'
  BY <1>1, <1>2 DEF MotorRuns, MotorIInv, MotorTypeOK
<1>4. PinsFollowStatus'
  BY DEF MotorRuns, MotorIInv, PinsFollowStatus
<1>5. motor_status' = 2 => bolt' = TRAVEL \/ bolt' >= elapsed'
  BY <1>2 DEF MotorRuns, MotorIInv, MotorTypeOK, PinsFollowStatus, Later, CYCLE
<1>6. OpensFully'
  BY <1>2 DEF MotorRuns, MotorIInv, PinsFollowStatus, OpensFully
<1>7. QED
  BY <1>3, <1>4, <1>5, <1>6 DEF MotorIInv

LEMMA MotorPowerUpIInv ==
    ASSUME MotorIInv, MotorPowerUp
    PROVE  MotorIInv'
BY MotorAssumption, DurationsAssumption
   DEF MotorPowerUp, MotorIInv, MotorTypeOK, PinsFollowStatus, OpensFully, CYCLE

LEMMA MotorStepIInv ==
    ASSUME MotorIInv, [MotorNext]_motorVars
    PROVE  MotorIInv'
<1>1. CASE CheckMoto
  BY <1>1, CheckMotoIInv
<1>2. CASE MotorPowerUp
  BY <1>2, MotorPowerUpIInv
<1>3. ASSUME NEW d \in Durations \cup {0}, MotorRuns(motor_status, d) \/ RequestOpen(d)
      PROVE  MotorIInv'
  BY <1>3, MotorRunsIInv, MotorAssumption, DurationsAssumption DEF RequestOpen
<1>4. CASE UNCHANGED motorVars
  BY <1>4 DEF motorVars, MotorIInv, MotorTypeOK, PinsFollowStatus, OpensFully
<1>5. QED
  BY <1>1, <1>2, <1>3, <1>4 DEF MotorNext

(* Types, and OpensFully: when checkMoto() has stopped the opening drive   *)
(* the bolt is fully drawn back, however irregularly it is called.         *)
THEOREM MotorSafety == MotorSpec => [](MotorTypeOK /\ PinsFollowStatus /\ OpensFully)
<1>1. MotorInit => MotorIInv
  BY MotorInitIInv
<1>2. MotorIInv /\ [MotorNext]_motorVars => MotorIInv'
  BY MotorStepIInv
<1>3. MotorIInv => MotorTypeOK /\ PinsFollowStatus /\ OpensFully
  BY DEF MotorIInv
<1>4. QED
  BY <1>1, <1>2, <1>3, PTL DEF MotorSpec

=============================================================================
