---------------------------- MODULE MCSmartLock ----------------------------
(***************************************************************************)
(* Constants for checking SmartLock.                                       *)
(***************************************************************************)
EXTENDS SmartLock

(* A device that was set up with 88, and one whose flash is all zero.  An  *)
(* erased flash (0xFF) differs from both in that no entry can match it.    *)
UsedFlash == {<<0, 0, 0, 88>>}
OneDigitFlash == {<<0, 0, 0, 1>>}
AnyFlash == UsedFlash \cup {<<0, 0, 0, 0>>, <<255, 255, 255, 255>>}

TwoDigitNumbers == 0..99

=============================================================================
