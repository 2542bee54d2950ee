----------------------------- MODULE JobContract -----------------------------
(***************************************************************************)
(* What a client may rely on about a job, whatever processes, files and    *)
(* transactions are behind it: the state it polls and the revisions it     *)
(* reads.  JobExecution implements it.                                     *)
(*                                                                         *)
(* A revision is [cutoff, final, coverage]: how many parts it shows,       *)
(* whether it answers the request completely, and how much input it has    *)
(* covered.                                                                *)
(***************************************************************************)
EXTENDS Naturals, Sequences

CONSTANTS Jobs

VARIABLES life,    \* the job's state
          asked,   \* the reason it was first asked to stop, or "none"
          shown    \* its revisions

vars == <<life, asked, shown>>

Reasons == {"cancelled", "budget_exhausted"}
Over == {"completed", "failed", "interrupted"} \cup Reasons

Init ==
    /\ life = [j \in Jobs |-> "absent"]
    /\ asked = [j \in Jobs |-> "none"]
    /\ shown = [j \in Jobs |-> <<>>]

Accept(j) ==
    /\ life[j] = "absent"
    /\ life' = [life EXCEPT ![j] = "queued"]
    /\ UNCHANGED <<asked, shown>>

Begin(j) ==
    /\ life[j] = "queued"
    /\ life' = [life EXCEPT ![j] = "running"]
    /\ UNCHANGED <<asked, shown>>

\* A waiting job stops at once, a running one when it can.
Ask(j, reason) ==
    /\ life[j] \in {"queued", "running"}
    /\ asked' = [asked EXCEPT ![j] = reason]
    /\ life' = [life EXCEPT ![j] = IF @ = "queued" THEN reason ELSE "stopping"]
    /\ UNCHANGED shown

\* One more revision: it never shows less than the one before.
Extends(before, after, final) ==
    /\ after = Append(before, after[Len(after)])
    /\ after[Len(after)].final = final
    /\ before # <<>> =>
          /\ ~before[Len(before)].final
          /\ before[Len(before)].cutoff <= after[Len(after)].cutoff
          /\ before[Len(before)].coverage <= after[Len(after)].coverage

Preview(j) ==
    /\ life[j] = "running"
    /\ Len(shown'[j]) > Len(shown[j])
    /\ Extends(shown[j], shown'[j], FALSE)
    /\ shown' = [shown EXCEPT ![j] = shown'[j]]
    /\ UNCHANGED <<life, asked>>

\* The reason it was asked with is the reason it ends with, and only a
\* completed job can show a final revision.
End(j) ==
    /\ life[j] \in {"running", "stopping"}
    /\ life'[j] \in Over
    /\ life' = [life EXCEPT ![j] = life'[j]]
    /\ asked[j] # "none" => life'[j] = asked[j]
    /\ \/ UNCHANGED shown
       \/ /\ Extends(shown[j], shown'[j], life'[j] = "completed")
          /\ shown' = [shown EXCEPT ![j] = shown'[j]]
    /\ UNCHANGED asked

Next ==
    \E j \in Jobs :
        Accept(j) \/ Begin(j) \/ Preview(j) \/ End(j) \/ \E r \in Reasons : Ask(j, r)

Spec == Init /\ [][Next]_vars
=============================================================================
