------------------------------- MODULE MCZero -------------------------------
(* Constants for checking SmartLockZero: those of MCSmartLock.             *)
EXTENDS MCSmartLock, SmartLockZero
=============================================================================
