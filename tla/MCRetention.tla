---------------------------- MODULE MCRetention ----------------------------
(***************************************************************************)
(* Instances of Retention for TLC.  Results are alike.                     *)
(***************************************************************************)
EXTENDS Retention, TLC

ResultSymmetry == Permutations(Results)
=============================================================================
