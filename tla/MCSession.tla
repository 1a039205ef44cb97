---------------------------- MODULE MCSession ----------------------------
(* Constants for checking SmartLockSession: those of MCSmartLock.           *)
EXTENDS MCSmartLock, SmartLockSession
=============================================================================
