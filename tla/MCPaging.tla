------------------------------- MODULE MCPaging -------------------------------
(* An instance of Paging for TLC: a part of one row, and one of two of     *)
(* different length.                                                       *)
EXTENDS Paging

GivenParts == {<<1>>, <<4, 1>>}
=============================================================================
