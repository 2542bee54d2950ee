------------------------------ MODULE MCScanJob ------------------------------
(***************************************************************************)
(* An instance of ScanJob for TLC: a file outside the workspace, and       *)
(* managed ones, one of which is also opened as if it were outside.  One   *)
(* file has no row group, and one has values whose sum is too large.       *)
(***************************************************************************)
EXTENDS ScanJob

CONSTANTS e, p, q, large

Outside(f) == [file |-> f, digest |-> "none", source |-> TRUE]
Dataset(f) == [file |-> f, digest |-> "frozen", source |-> TRUE]
Part(f) == [file |-> f, digest |-> "frozen", source |-> FALSE]
Wrong(f) == [file |-> f, digest |-> "changed", source |-> FALSE]

Sizes == [f \in Files |-> IF f = e THEN 2 ELSE 1]
GivenManifests ==
    { <<Outside(e), Part(p), Outside(p)>>, <<Part(p), Part(q)>>, <<Part(p), Wrong(p)>>,
      <<Outside(e), Dataset(q)>>, <<Dataset(large)>> }
GivenGroups ==
    [f \in Files |->
        CASE f = e -> << <<-3, 0, 1>>, <<Null>> >>
          [] f = large -> << <<5>>, <<6>> >>
          [] f \in {p, q} -> <<>>]
=============================================================================
