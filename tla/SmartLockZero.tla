--------------------------- MODULE SmartLockZero ---------------------------
(***************************************************************************)
(* The lock with a history variable that tells an entry of 0 from an empty *)
(* one: 'D' with no digit held reads as 0 too, but nobody entered it.      *)
(***************************************************************************)
EXTENDS SmartLock

VARIABLE digitsEntered  \* history: digits were held when 'D' was last pressed

zeroVars == <<vars, digitsEntered>>

ZeroInit == LockInit /\ digitsEntered = FALSE

ZeroNext ==
    /\ LockNext
    /\ digitsEntered' = IF call = "polling" /\ call' = "D" THEN numberCount > 0
                        ELSE digitsEntered

ZeroSpec == ZeroInit /\ [][ZeroNext]_zeroVars
-----------------------------------------------------------------------------
(* Sketch, line 467: "Choose "0" to delete all fingerprint templates!".  A *)
(* user at the delete prompt enters 0, and the step the code takes next    *)
(* with that entry empties the sensor.  The run named in the README shows  *)
(* it violated.                                                            *)
ZeroDeletesAll ==
    [][/\ Returned("delId") /\ ~TimedOut(Limit)
       /\ call = "D" /\ digitsEntered /\ numberKeypad = 0
       => templates' = {} \/ pc' = "setup"]_zeroVars

=============================================================================
