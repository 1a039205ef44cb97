----------------------------- MODULE MotorMillis -----------------------------
(***************************************************************************)
(* The polled motor with the clock it really reads: millis(), which wraps  *)
(* after 2^32 ms (49.7 days), and the time stamp timer_check_motor.        *)
(* checkMoto() sees only the unsigned difference of the two.  A door that  *)
(* is not used for weeks has a stamp of any age, and a cycle may be under  *)
(* way when the clock wraps.                                               *)
(*                                                                         *)
(* elapsed, the age the other motor modules reason with, is here a history *)
(* variable that nothing reads.                                            *)
(***************************************************************************)
EXTENDS PolledMotor

CONSTANT RANGE      \* 2^32, the values of an unsigned long

ASSUME RangeAssumption ==
    /\ RANGE \in Nat
    /\ RANGE > CYCLE + PollGap
    /\ \A d \in Durations : d < RANGE

VARIABLES
    now,                \* millis()
    timer_check_motor   \* its value when the cycle was started

millisVars == <<polledVars, now, timer_check_motor>>

MillisInit ==
    /\ PolledInit
    /\ now = 0
    /\ timer_check_motor = 0

(* Variant of Difference: the time stamps are compared as if they never    *)
(* wrapped.                                                                *)
DifferenceSigned(a, b) == a - b

(* a - b of two unsigned longs.                                            *)
Difference(a, b) == (a - b) % RANGE

(* checkMoto() with millis() - timer_check_motor for the age of the timer. *)
Clock == INSTANCE Motor WITH elapsed <- Difference(now, timer_check_motor)

MillisPoll ==
    /\ UNCHANGED now
    /\ timer_check_motor' = IF motor_status = 1 THEN now ELSE timer_check_motor
    /\ Clock!CheckMoto
    /\ elapsed' = IF motor_status = 1 THEN 0 ELSE elapsed
    /\ sincePoll' = 0

MillisWait(d) ==
    /\ Wait(d)
    /\ now' = (now + d) % RANGE
    /\ UNCHANGED timer_check_motor

MillisRestart ==
    /\ Restart
    /\ now' = 0
    /\ timer_check_motor' = 0

MillisNext ==
    \/ MillisPoll
    \/ MillisRestart
    \/ \E d \in Durations : MillisWait(d)

MillisSpec == MillisInit /\ [][MillisNext]_millisVars
-----------------------------------------------------------------------------
(* The wrap of millis() is never seen: every step is one of the motor that *)
(* knows how old its timer is, so a phase keeps its length when the clock  *)
(* wraps in it (control_moto.h, the tests of millis() - timer_check_motor).*)
WrapUnseen == PolledSpec

=============================================================================
