--------------------------- MODULE MCJobExecution ---------------------------
(***************************************************************************)
(* Instances of JobExecution for TLC.  Jobs and workers are alike.         *)
(***************************************************************************)
EXTENDS JobExecution, TLC

AnyKind == [j \in Jobs |-> Kinds]
Plain == [j \in Jobs |-> {"plain"}]

QueryOrExport == [j \in Jobs |-> {"plain", "export"}]

AllSymmetry == Permutations(Workers) \cup Permutations(Jobs)
=============================================================================
