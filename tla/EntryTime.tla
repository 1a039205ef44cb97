----------------------------- MODULE EntryTime -----------------------------
(***************************************************************************)
(* How long one call of checkNum() lasts.  loop() does nothing else during *)
(* the call, so this is how long the motor and the sensor are left alone.  *)
(***************************************************************************)
EXTENDS CheckNum

CONSTANT MaxStep    \* the longest single iteration

ASSUME MaxStepAssumption == MaxStep \in Nat /\ \A d \in Durations : d <= MaxStep

VARIABLE callAge    \* history: how long the current or last call has taken

timedVars == <<entryVars, callAge>>

(* The longest a call should take.                                         *)
LongestCall == ENTRY_TIMEOUT + 2 * MaxStep

TimedInit == EntryInit /\ callAge = 0

TimedIteration(d) ==
    /\ NoKey(d) \/ \E digitNumber \in {1, MAX_DIGITS} : Key(digitNumber, d)
    /\ callAge' = Later(callAge, d, LongestCall)

TimedCaller(n, again, d) == Caller(n, again, d) /\ callAge' = 0

TimedPowerUp == EntryPowerUp /\ callAge' = 0

TimedNext ==
    \/ \E d \in Durations : TimedIteration(d)
    \/ \E d \in Durations \cup {0}, n \in {0, numberKeypad}, again \in BOOLEAN :
           TimedCaller(n, again, d)
    \/ TimedPowerUp

TimedSpec == TimedInit /\ [][TimedNext]_timedVars

(* Nothing else runs while checkNum() polls, so its loop always goes on,   *)
(* with or without a key: nothing is assumed of the user.                  *)
FairTimedSpec ==
    TimedSpec /\ WF_timedVars(\E d \in Durations : TimedIteration(d) /\ NoKey(d))
-----------------------------------------------------------------------------
TimedTypeOK == EntryTypeOK /\ callAge \in 0..(LongestCall + 1)

(* In a build where the loop ends, a call lasts ENTRY_TIMEOUT and two      *)
(* iterations at most, however the user types and whatever digits an       *)
(* earlier call left behind.                                               *)
CallBounded == ReturnAtEnd => callAge <= LongestCall

(* Whatever keys are pressed, or none, checkNum() comes back to its        *)
(* caller: loop() depends on it to run the motor and the sensor.           *)
CallReturns == call = "polling" ~> call # "polling"

=============================================================================
