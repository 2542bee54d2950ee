---------------------------- MODULE MCService ----------------------------
(***************************************************************************)
(* Instances of Service for TLC: two clients use one key.                  *)
(***************************************************************************)
EXTENDS Service

CONSTANTS c1, c2, k1, b1

Request(method) == [key |-> k1, method |-> method, body |-> b1]

\* One client queries, the other inspects; or the same client does either.
OneEach == [c \in {c1, c2} |-> {Request(IF c = c1 THEN "query" ELSE "inspect")}]
QueryAndEither ==
    [c \in {c1, c2} |-> {Request(m) : m \in IF c = c1 THEN {"query"} ELSE {"query", "inspect"}}]
=============================================================================
