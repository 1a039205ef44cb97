--------------------------- MODULE SmartLockCycle ---------------------------
(***************************************************************************)
(* A door cycle while nobody uses the keypad.  The lock does not call      *)
(* checkMoto() at any regular time: a prompt keeps loop() away from it for *)
(* as long as somebody types.  This module says when the times announced   *)
(* in control_moto.h are kept all the same: in a cycle that starts with no *)
(* digits held and during which no key is pressed, whatever fingers come.  *)
(***************************************************************************)
EXTENDS SmartLock

CONSTANT Round  \* the longest time loop() takes with nobody at the keypad

(* One turn is a scan of the sensor, with its message, and at most one     *)
(* iteration of checkNum().  The closing drive outlasts it.                *)
ASSUME RoundAssumption ==
    /\ Round \in Nat
    /\ Round <= TIME_CLOSE_MOTOR
    /\ \A s \in ScanTimes : s <= Round /\ \A p \in PollTimes : s + p <= Round

VARIABLE undisturbed    \* no key since the opening drive was started

cycleVars == <<vars, undisturbed>>

CycleInit == LockInit /\ undisturbed = FALSE

(* checkMoto() is the only step that takes motor_status from 1 to 2.       *)
Runs ==
    undisturbed' = IF motor_status = 1 /\ motor_status' = 2 THEN numberCount = 0
                   ELSE undisturbed

Disturbed == undisturbed' = FALSE

CycleNext ==
    \/ (Program \/ EnrollStep) /\ Runs
    \/ (UserKey \/ Reset) /\ Disturbed

CycleSpec == CycleInit /\ [][CycleNext]_cycleVars
-----------------------------------------------------------------------------
(* "1 Open 2s, 2 Stop 10s" (control_moto.h:4): undisturbed, neither phase  *)
(* outlasts its time by more than a turn of loop(), although checkNum() is *)
(* called in every turn.  It needs a build whose checkNum() returns.       *)
UndisturbedTimely ==
    ReturnAtEnd /\ undisturbed =>
        /\ motor_status = 2 => elapsed <= OPEN_AT + Round
        /\ motor_status = 3 => elapsed <= CLOSE_AT + Round

(* "3 Close 2s": an undisturbed cycle ends with the bolt shut, up to the   *)
(* time its closing phase started late.  Fingers that match meanwhile and  *)
(* restart it do no harm, nor does a user who types and leaves before it.  *)
UndisturbedEndsShut ==
    [][ReturnAtEnd /\ undisturbed /\ CallCheckMoto /\ motor_status # 0 /\ motor_status' = 0
       => bolt' <= Round]_cycleVars

=============================================================================
