-------------------------------- MODULE Motor --------------------------------
(***************************************************************************)
(* The door motor sequencer, checkMoto() of control_moto.h.                *)
(*                                                                         *)
(* Other code asks for a cycle by storing 1 in motor_status; checkMoto(),  *)
(* called once per loop(), then walks the status 1 -> 2 -> 3 -> 4 -> 0 by  *)
(* comparing the age of timer_check_motor with three limits and sets the   *)
(* two pins of the H-bridge.  All four tests are made in one call, so a    *)
(* call that comes late can take several of the transitions at once.       *)
(*                                                                         *)
(* This module says nothing about how often checkMoto() is called: see     *)
(* PolledMotor for a bounded polling gap and SmartLock for the gaps of the *)
(* real program.                                                           *)
(***************************************************************************)
EXTENDS Timers

CONSTANTS
    TIME_OPEN_MOTOR,    \* how long the opening drive lasts (2000 ms)
    TIME_OPEN_DOOR,     \* how long the door then stays open (10000 ms)
    TIME_CLOSE_MOTOR,   \* how long the closing drive lasts (2000 ms)
    TRAVEL              \* drive time the bolt needs from end to end

(* The mechanism is built so that either drive time covers the bolt's      *)
(* travel.                                                                 *)
ASSUME MotorAssumption ==
    /\ TIME_OPEN_MOTOR \in Nat
    /\ TIME_OPEN_DOOR \in Nat
    /\ TIME_CLOSE_MOTOR \in Nat
    /\ TRAVEL \in Nat
    /\ TRAVEL <= TIME_OPEN_MOTOR
    /\ TRAVEL <= TIME_CLOSE_MOTOR

VARIABLES
    motor_status,   \* 0 stopped, 1 requested, 2 opening, 3 open, 4 closing
    elapsed,        \* age of timer_check_motor
    in1, in2,       \* the pins IN1 and IN2: 1 for HIGH
    bolt            \* external: position of the bolt, 0 shut .. TRAVEL open

motorVars == <<motor_status, elapsed, in1, in2, bolt>>

OPEN_AT == TIME_OPEN_MOTOR
CLOSE_AT == TIME_OPEN_MOTOR + TIME_OPEN_DOOR
CYCLE == TIME_OPEN_MOTOR + TIME_OPEN_DOOR + TIME_CLOSE_MOTOR

MotorTypeOK ==
    /\ motor_status \in 0..4
    /\ elapsed \in 0..(CYCLE + 1)
    /\ in1 \in 0..1
    /\ in2 \in 0..1
    /\ bolt \in 0..TRAVEL

(* Power is applied with the bolt wherever the last run left it.           *)
MotorInit ==
    /\ motor_status = 0
    /\ elapsed = 0
    /\ in1 = 0
    /\ in2 = 0
    /\ bolt \in 0..TRAVEL
-----------------------------------------------------------------------------
(* Variant of NextStatus: the motor is not stopped between the two drives. *)
NextStatusNoStop(s, e) ==
    IF s = 2 /\ Over(e, CLOSE_AT) THEN 4
    ELSE IF s = 4 /\ Over(e, CYCLE) THEN 0 ELSE s

(* Variant of NextStatus: the closing drive is timed by its own limit      *)
(* alone, without the phases before it.                                    *)
NextStatusShortClose(s, e) ==
    LET stopped == IF s = 2 /\ Over(e, OPEN_AT) THEN 3 ELSE s
        closing == IF stopped = 3 /\ Over(e, CLOSE_AT) THEN 4 ELSE stopped
    IN  IF closing = 4 /\ Over(e, TIME_CLOSE_MOTOR) THEN 0 ELSE closing

(* Variant of NextStatus: the opening drive is stopped only by a call that  *)
(* comes before the closing drive is due.                                  *)
NextStatusInWindow(s, e) ==
    LET stopped == IF s = 2 /\ Over(e, OPEN_AT) /\ ~Over(e, CLOSE_AT) THEN 3 ELSE s
        closing == IF stopped = 3 /\ Over(e, CLOSE_AT) THEN 4 ELSE stopped
    IN  IF closing = 4 /\ Over(e, CYCLE) THEN 0 ELSE closing

(* The status one call of checkMoto() leaves behind, for a call that found *)
(* status s (not 1) and a timer of age e.  The three tests fall through.   *)
NextStatus(s, e) ==
    LET stopped == IF s = 2 /\ Over(e, OPEN_AT) THEN 3 ELSE s
        closing == IF stopped = 3 /\ Over(e, CLOSE_AT) THEN 4 ELSE stopped
    IN  IF closing = 4 /\ Over(e, CYCLE) THEN 0 ELSE closing

(* Where the bolt is after being driven by the current pins for d.         *)
Driven(d) ==
    CASE in1 = 1 /\ in2 = 0 -> IF bolt + d > TRAVEL THEN TRAVEL ELSE bolt + d
      [] in1 = 0 /\ in2 = 1 -> IF bolt < d THEN 0 ELSE bolt - d
      [] OTHER -> bolt

(* Variant of StartOpening: the timer is not restarted.                    *)
StartOpeningKeepsTimer ==
    /\ motor_status = 1
    /\ motor_status' = 2
    /\ in1' = 1
    /\ in2' = 0
    /\ UNCHANGED <<elapsed, bolt>>

(* A request starts the opening drive and the timer.                       *)
StartOpening ==
    /\ motor_status = 1
    /\ motor_status' = 2
    /\ elapsed' = 0
    /\ in1' = 1
    /\ in2' = 0
    /\ UNCHANGED bolt

(* Variant of Sequence: stopping sets IN2 only.                            *)
SequenceLeavesIn1 ==
    /\ motor_status # 1
    /\ motor_status' = NextStatus(motor_status, elapsed)
    /\ in2' = IF motor_status' = 4 THEN 1 ELSE 0
    /\ UNCHANGED <<elapsed, in1, bolt>>

(* Every other call: as many transitions as are due.  Entering 3 or 0      *)
(* stops the motor, entering 4 drives it back.                             *)
Sequence ==
    /\ motor_status # 1
    /\ motor_status' = NextStatus(motor_status, elapsed)
    /\ IF motor_status' = motor_status
       THEN UNCHANGED <<in1, in2>>
       ELSE /\ in1' = 0
            /\ in2' = IF motor_status' = 4 THEN 1 ELSE 0
    /\ UNCHANGED <<elapsed, bolt>>

CheckMoto == StartOpening \/ Sequence

(* The motor during d units of time in which the program leaves status s.  *)
MotorRuns(s, d) ==
    /\ motor_status' = s
    /\ elapsed' = Later(elapsed, d, CYCLE)
    /\ bolt' = Driven(d)
    /\ UNCHANGED <<in1, in2>>

(* motor_status = 1, set by a matching finger or password, followed by the *)
(* delay that shows the result.                                            *)
RequestOpen(d) == MotorRuns(1, d)

(* setup() after a reset: the status is 0 and the pins are low, but the    *)
(* bolt stays where it is.                                                 *)
MotorPowerUp ==
    /\ motor_status' = 0
    /\ elapsed' = 0
    /\ in1' = 0
    /\ in2' = 0
    /\ UNCHANGED bolt

MotorNext ==
    \/ CheckMoto
    \/ MotorPowerUp
    \/ \E d \in Durations \cup {0} : MotorRuns(motor_status, d) \/ RequestOpen(d)

MotorSpec == MotorInit /\ [][MotorNext]_motorVars
-----------------------------------------------------------------------------
(* However late checkMoto() is called, when it has stopped the opening     *)
(* drive and is waiting with the door open, the bolt is fully drawn back:  *)
(* the person who was let in is never facing a half-open bolt              *)
(* (control_moto.h, the transition 2 -> 3).                                *)
OpensFully == motor_status = 3 => bolt = TRAVEL

(* The pins agree with the status checkMoto() will next look at: the motor *)
(* is never driven in a direction no phase asked for.  A status of 1 keeps *)
(* the pins of the phase it interrupted.                                   *)
PinsFollowStatus ==
    /\ motor_status \in {0, 3} => in1 = 0 /\ in2 = 0
    /\ motor_status = 2 => in1 = 1 /\ in2 = 0
    /\ motor_status = 4 => in1 = 0 /\ in2 = 1

=============================================================================
