---------------------------- MODULE MCEnrollment ----------------------------
(***************************************************************************)
(* Constants for checking Enrollment.  Nothing tells one finger from       *)
(* another but that they differ, so that permuting them is a symmetry; all *)
(* the properties checked with it are safety properties.                   *)
(***************************************************************************)
EXTENDS Enrollment, TLC

FingersSymmetry == Permutations(Fingers)

=============================================================================
