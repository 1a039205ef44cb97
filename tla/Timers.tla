------------------------------- MODULE Timers -------------------------------
(***************************************************************************)
(* Software timers of the firmware.  The sketch measures time by storing   *)
(* millis() in a variable and comparing millis() - variable with a limit,  *)
(* always with ">".  What such a comparison can observe is the age of the  *)
(* stored value, so a timer is modelled by its age, and an age past the    *)
(* largest limit it is compared with is kept at limit + 1.                 *)
(***************************************************************************)
EXTENDS Integers

CONSTANT Durations  \* the amounts of time one step may take

ASSUME DurationsAssumption == Durations \subseteq Nat

(* The age of a timer after d more units of time.                          *)
Later(age, d, limit) == IF age + d > limit THEN limit + 1 ELSE age + d

(* millis() - timer > limit                                                *)
Over(age, limit) == age > limit

=============================================================================
