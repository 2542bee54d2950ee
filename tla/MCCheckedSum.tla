---------------------------- MODULE MCCheckedSum ----------------------------
(***************************************************************************)
(* An instance of CheckedSum for TLC: two lanes of two bits, a state twice *)
(* as wide and a declared type in between.  Accumulators are alike.        *)
(***************************************************************************)
EXTENDS CheckedSum, TLC

Values == {-2, -1, 1}
MinusTwo == -2
SumSymmetry == Permutations(Accs) \cup Permutations(Grouped)
=============================================================================
