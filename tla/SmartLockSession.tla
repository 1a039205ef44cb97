-------------------------- MODULE SmartLockSession --------------------------
(***************************************************************************)
(* The lock with a user who presses at most MaxKeys keys.  Once the keys   *)
(* are used up nobody is at the keypad, and the program has to come back   *)
(* by itself to loop(), where the motor and the sensor are served.         *)
(*                                                                         *)
(* Fairness: the sketch is the only task, so a step it can always take by  *)
(* itself is taken.  Nothing is assumed of the user, of the finger an      *)
(* enrollment waits for, of the sensor's answers or of power: where they   *)
(* decide which step is taken, any may be.                                 *)
(***************************************************************************)
EXTENDS SmartLockCycle

CONSTANT MaxKeys    \* bound: keys pressed in a behaviour

ASSUME MaxKeysAssumption == MaxKeys \in Nat

VARIABLE keysLeft

sessionVars == <<cycleVars, keysLeft>>

SessionInit == CycleInit /\ keysLeft = MaxKeys

SessionProgram == Program /\ Runs /\ UNCHANGED keysLeft

SessionKey ==
    /\ keysLeft > 0
    /\ keysLeft' = keysLeft - 1
    /\ UserKey /\ Disturbed

SessionEnroll == EnrollStep /\ Runs /\ UNCHANGED keysLeft

SessionReset == Reset /\ Disturbed /\ UNCHANGED keysLeft

SessionNext == SessionProgram \/ SessionEnroll \/ SessionKey \/ SessionReset

SessionSpec == SessionInit /\ [][SessionNext]_sessionVars /\ WF_sessionVars(SessionProgram)
-----------------------------------------------------------------------------
(* With nobody at the keypad the program comes back to loop(), again and   *)
(* again, from every prompt, however the last key left ackKeypad, the      *)
(* digits and exitMode.  The exceptions are a missing sensor and the waits *)
(* for a finger to enroll, which have no time-out.                         *)
ReturnsToLoop == keysLeft = 0 ~> pc \in {"loop", "halt"} \cup Enrolling

(* A door that was told to open is opened: checkMoto() gets to see the     *)
(* request, unless power fails or an enrollment waits for ever.            *)
RequestServed == motor_status = 1 ~> motor_status # 1 \/ pc \in Enrolling

(* Choosing "change password" leads to its prompt, even when an earlier    *)
(* time-out left exitMode true.                                            *)
ChangeReached == pc = "dispatch" /\ chooseMode = 1 ~> pc \in {"oldPw", "setup"}

(* The opening drive does not stay on (control_moto.h:4, "1 Open 2s"),     *)
(* unless an enrollment waits for ever: then nobody calls checkMoto().     *)
OpeningEnds == <>[](motor_status = 2) => <>[](pc \in Enrolling)

(* Once a scan has found no finger every loop() gives the keypad its turn, *)
(* whatever fingers come after it: checkFinger is never 1 again (161, 894).*)
KeypadServed == checkFinger = 0 /\ pc = "loop" ~> pc \in {"home", "setup"}
-----------------------------------------------------------------------------
(* Sketch, line 213: "Sau 10s khong nhap vao ban phim, auto thoat ve       *)
(* homescreen" (after 10 s without input, back to the home screen).  A run *)
(* named in the README shows it violated in a build with ReturnAtEnd FALSE.*)
LoginTimesOut == pc = "login" /\ keysLeft = 0 ~> pc # "login"

=============================================================================
