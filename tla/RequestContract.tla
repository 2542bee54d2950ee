--------------------------- MODULE RequestContract ---------------------------
(***************************************************************************)
(* What a client may rely on about a request with an idempotency key,      *)
(* whatever processes, connections and tasks are behind it: it is executed *)
(* in one step, between the question and the answer, and at most once      *)
(* under its key.  Service implements it.                                  *)
(***************************************************************************)

CONSTANTS Clients, Keys, Asks, None

VARIABLES want,     \* the request a client has no answer to yet
          taken,    \* the hash of the request executed under a key
          expired,  \* what the requests read has expired
          answer    \* the answer on its way to a client, or "none"

vars == <<want, taken, expired, answer>>

Hash(r) == [method |-> r.method, body |-> r.body]

Init ==
    /\ want = [c \in Clients |-> None]
    /\ taken = [k \in Keys |-> None]
    /\ expired = FALSE
    /\ answer = [c \in Clients |-> "none"]

Ask(c, r) ==
    /\ want[c] = None
    /\ want' = [want EXCEPT ![c] = r]
    /\ UNCHANGED <<taken, expired, answer>>

\* Nobody had the key, and somebody waits for the request: never for one that was
\* answered or that nobody asked.
Execute(c) ==
    /\ want[c] # None
    /\ taken[want[c].key] = None /\ ~expired
    /\ taken' = [taken EXCEPT ![want[c].key] = Hash(want[c])]
    /\ \/ UNCHANGED answer
       \/ answer[c] = "none" /\ answer' = [answer EXCEPT ![c] = "accepted"]
    /\ UNCHANGED <<want, expired>>

\* What may be said of a request when this was executed under its key.
Truthful(a, r, entry) ==
    \/ a = "accepted" /\ entry = Hash(r)
    \/ a = "conflict" /\ entry \notin {None, Hash(r)}
    \/ a = "refused" /\ expired

Tell(c, a) ==
    /\ want[c] # None /\ answer[c] = "none"
    /\ Truthful(a, want[c], taken[want[c].key])
    /\ answer' = [answer EXCEPT ![c] = a]
    /\ UNCHANGED <<want, taken, expired>>

\* The client goes on waiting, and asks the same again.
Lose(c) ==
    /\ answer[c] # "none"
    /\ answer' = [answer EXCEPT ![c] = "none"]
    /\ UNCHANGED <<want, taken, expired>>

Receive(c) ==
    /\ answer[c] # "none"
    /\ want' = [want EXCEPT ![c] = None]
    /\ answer' = [answer EXCEPT ![c] = "none"]
    /\ UNCHANGED <<taken, expired>>

Expire ==
    /\ ~expired /\ expired' = TRUE
    /\ UNCHANGED <<want, taken, answer>>

Next ==
    \/ \E c \in Clients :
          \/ \E r \in Asks[c] : Ask(c, r)
          \/ Execute(c) \/ Lose(c) \/ Receive(c)
          \/ \E a \in {"accepted", "conflict", "refused"} : Tell(c, a)
    \/ Expire

Spec == Init /\ [][Next]_vars
=============================================================================
