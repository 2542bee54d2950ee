-------------------------- MODULE Retention_proofs --------------------------
(***************************************************************************)
(* Theorems about what a workspace keeps.  What collection protects enters *)
(* through two lemmas about the closures of the dependencies (AboveClosed, *)
(* BelowMeetsAbove); everything else is one invariant, step by step.       *)
(***************************************************************************)
EXTENDS Retention, SumTheorems, FiniteSetTheorems, TLAPS

USE DEF jobRows, resultRows, retention, disk

LEMMA ConstantsTyped ==
    /\ \A b \in Budgets \cup {0} : b \in Nat
    /\ Asked \subseteq Kinds
<1>1. SetsAssumption /\ BoundsAssumption
  BY SetsAssumption, BoundsAssumption
<1> QED
  BY <1>1 DEF SetsAssumption, BoundsAssumption, Kinds

-----------------------------------------------------------------------------
(* References: three kinds of pairs that are never the same.               *)

LEMMA RefsDiffer ==
    /\ \A r, q \in Results : /\ ResultRef(r) = ResultRef(q) => r = q
                             /\ DatasetRef(r) = DatasetRef(q) => r = q
                             /\ ResultRef(r) # DatasetRef(q)
    /\ \A r \in Results, s \in Sources : /\ ResultRef(r) # SourceRef(s)
                                         /\ DatasetRef(r) # SourceRef(s)
    /\ \A r \in Results : ResultRef(r)[2] = r /\ DatasetRef(r)[2] = r
    /\ \A r \in Results : ResultRef(r) \in Refs /\ DatasetRef(r) \in Refs
    /\ \A s \in Sources : SourceRef(s) \in Refs
BY DEF ResultRef, DatasetRef, SourceRef, Refs, Managed, ResultRefs, DatasetRefs

LEMMA ManagedRefs ==
    /\ Managed \subseteq Refs /\ ResultRefs \subseteq Managed
    /\ \A n \in Managed : \E r \in Results : n \in {ResultRef(r), DatasetRef(r)} /\ n[2] = r
    /\ \A r \in Results : /\ ResultRef(r) \in Managed /\ DatasetRef(r) \in Managed
                          /\ ResultRef(r) \in ResultRefs /\ DatasetRef(r) \notin ResultRefs
BY RefsDiffer DEF Refs, Managed, ResultRefs, DatasetRefs

-----------------------------------------------------------------------------
(* Dependencies.                                                           *)

\* What something is built from is closed under one more dependency.
LEMMA AboveClosed ==
    ASSUME NEW refs
    PROVE  /\ refs \subseteq Above(refs)
           /\ \A d \in deps : d[1] \in Above(refs) => d[2] \in Above(refs)
BY DEF Above

LEMMA BelowClosed ==
    ASSUME NEW refs
    PROVE  /\ refs \subseteq Below(refs)
           /\ \A d \in deps : d[2] \in Below(refs) => d[1] \in Below(refs)
BY DEF Below

\* What is built from refs, and is used by others, makes those use a member of refs.
LEMMA BelowMeetsAbove ==
    ASSUME NEW refs, NEW users, NEW n \in Below(refs), n \in Above(users)
    PROVE  \E m \in refs : m \in Above(users)
<1> SUFFICES ASSUME \A m \in refs : m \notin Above(users)
             PROVE  FALSE
  OBVIOUS
<1> DEFINE near == refs \cup {d[1] : d \in deps}
           T == near \ Above(users)
<1>1. refs \subseteq T
  OBVIOUS
<1>2. ASSUME NEW d \in deps, d[2] \in T
      PROVE  d[1] \in T
  BY <1>2, AboveClosed
<1>3. T \in SUBSET near
  OBVIOUS
<1>4. n \in T
  <2> HIDE DEF T
  <2> QED BY <1>1, <1>2, <1>3 DEF Below
<1> QED
  BY <1>4

-----------------------------------------------------------------------------
(***************************************************************************)
(* The inductive invariant, beyond the types.                              *)
(***************************************************************************)

\* What a result has, at each stage of its job, and what its dataset tells.
ResultOK(r) ==
    /\ job[r] = "absent" => rows[r] = 0 /\ cutoff[r] = 0 /\ store[r] = {}
    /\ job[r] # "over" => validity[ResultRef(r)] # "expired" /\ validity[DatasetRef(r)] = "absent"
    /\ job[r] = "active" => cutoff[r] <= rows[r] /\ \A p \in 1 .. rows[r] : Available(r, p)
    /\ validity[ResultRef(r)] # "expired" => \A p \in 1 .. cutoff[r] : Available(r, p)
    /\ released[r] = 2 =>
          validity[ResultRef(r)] = "expired" /\ store[r] = {} /\ rows[r] = 0

\* A dataset hangs on the result that stores it and expires with it.
DatasetOK(r) ==
    validity[DatasetRef(r)] # "absent" =>
       /\ <<DatasetRef(r), ResultRef(r)>> \in deps
       /\ validity[ResultRef(r)] = "expired" => validity[DatasetRef(r)] = "expired"

\* An active job hangs on its inputs, and they have not expired.
InputsOK(r) ==
    job[r] = "active" => \A n \in inputs[r] :
       <<ResultRef(r), n>> \in deps /\ validity[n] \notin {"absent", "expired"}

\* A page holds what its result shows, and no collection runs.
ClientOK(c) ==
    client[c].at = "page" =>
       /\ gc = GcIdle
       /\ client[c].result \in Results
       /\ client[c].parts \subseteq 1 .. cutoff[client[c].result]
       /\ validity[ResultRef(client[c].result)] # "expired"

\* A collection works on expired results; how far it is with the present one.
CollectionOK ==
    /\ gc # GcIdle => \A r \in gc.left : validity[ResultRef(r)] = "expired"
    /\ gc.at \in {"forget", "mark"} =>
          validity[ResultRef(gc.result)] = "expired" /\ store[gc.result] = {}
    /\ gc.at = "mark" => rows[gc.result] = 0

\* It has, or has done with, every expired result that is out of use.
Done(r) ==
    \/ r \in gc.left
    \/ gc.at \in {"forget", "mark"} /\ r = gc.result
    \/ store[r] = {} /\ rows[r] = 0
AllTaken ==
    gc # GcIdle /\ Cardinality(Results) <= Batch =>
       \A r \in Results :
          job[r] = "over" /\ validity[ResultRef(r)] = "expired" /\ ResultRef(r) \notin Protected
          => Done(r)

RowsOK ==
    /\ \A r \in Results : ResultOK(r)
    /\ \A r \in Results : DatasetOK(r)
    /\ \A r \in Results : InputsOK(r)
IInv == TypeOK /\ RowsOK /\ (\A c \in Clients : ClientOK(c)) /\ CollectionOK /\ AllTaken

LEMMA InitHolds == Init => IInv
<1> SUFFICES ASSUME Init PROVE IInv
  OBVIOUS
<1>1. TypeOK
  BY ConstantsTyped
  DEF TypeOK, Init, Collections, Validity, Kinds, Bounded
<1>2. RowsOK
  BY RefsDiffer DEF RowsOK, ResultOK, DatasetOK, InputsOK, Init
<1>3. \A c \in Clients : ClientOK(c)
  BY DEF ClientOK, Init, Idle
<1>4. CollectionOK /\ AllTaken
  BY DEF CollectionOK, AllTaken, Init, GcIdle
<1> QED
  BY <1>1, <1>2, <1>3, <1>4 DEF IInv

-----------------------------------------------------------------------------
(* What steps have in common.                                              *)

LEMMA FreeMeansIdle ==
    ASSUME TypeOK
    PROVE  Free <=> gc = GcIdle
BY DEF TypeOK, Collections, Free, GcIdle

\* While no collection runs, a step that does not start one is none of its
\* business.
LEMMA NoCollection ==
    ASSUME TypeOK, Free, UNCHANGED gc
    PROVE  CollectionOK' /\ AllTaken'
BY FreeMeansIdle DEF CollectionOK, AllTaken, GcIdle

\* Steps that only ever show more of a result leave the callers alone.
ShowsMore ==
    \A r \in Results :
       /\ cutoff[r] \in Nat /\ cutoff'[r] \in Nat /\ cutoff[r] <= cutoff'[r]
       /\ validity[ResultRef(r)] # "expired" => validity'[ResultRef(r)] # "expired"

LEMMA PagesGrow ==
    ASSUME ShowsMore
    PROVE  Pages \subseteq Pages'
BY DEF ShowsMore, Pages

LEMMA ClientsKept ==
    ASSUME IInv, ShowsMore, UNCHANGED <<client, gc>>
    PROVE  /\ client' \in [Clients -> {Idle} \cup Pages' \cup Requests]
           /\ \A c \in Clients : ClientOK(c)'
<1>1. client \in [Clients -> {Idle} \cup Pages \cup Requests]
  BY DEF IInv, TypeOK
<1>2. client' \in [Clients -> {Idle} \cup Pages' \cup Requests]
  BY <1>1, PagesGrow
<1>3. ASSUME NEW c \in Clients PROVE ClientOK(c)'
  <2>1. ClientOK(c)
    BY DEF IInv
  <2> QED
    BY <2>1 DEF ClientOK, ShowsMore
<1> QED
  BY <1>2, <1>3

\* Steps that neither move parts nor make a reference of a job expire.
SameStanding ==
    /\ UNCHANGED <<job, kind, inputs, rows, cutoff, deps, store>>
    /\ \A r \in Results : released'[r] = 2 => released[r] = 2
    /\ \A n \in Refs : /\ validity'[n] = "expired" <=> validity[n] = "expired"
                       /\ validity[n] # "absent" => validity'[n] # "absent"
    /\ \A n \in Managed : validity[n] = "absent" => validity'[n] = "absent"

LEMMA RowsKept ==
    ASSUME IInv, SameStanding
    PROVE  RowsOK'
<1> USE RefsDiffer, ManagedRefs
<1>1. ASSUME NEW r \in Results PROVE ResultOK(r)'
  BY DEF IInv, RowsOK, ResultOK, SameStanding, Available, InSqlite
<1>2. ASSUME NEW r \in Results PROVE DatasetOK(r)'
  BY DEF IInv, RowsOK, DatasetOK, SameStanding
<1>3. ASSUME NEW r \in Results PROVE InputsOK(r)'
  BY DEF IInv, TypeOK, RowsOK, InputsOK, SameStanding
<1> QED
  BY <1>1, <1>2, <1>3 DEF RowsOK

LEMMA StandingShows ==
    ASSUME IInv, SameStanding
    PROVE  ShowsMore
<1>1. ASSUME NEW r \in Results
      PROVE  validity[ResultRef(r)] # "expired" => validity'[ResultRef(r)] # "expired"
  BY RefsDiffer DEF SameStanding
<1>2. ASSUME NEW r \in Results
      PROVE  cutoff[r] \in Nat /\ cutoff'[r] \in Nat /\ cutoff[r] <= cutoff'[r]
  BY DEF SameStanding, IInv, TypeOK
<1> QED
  BY <1>1, <1>2 DEF ShowsMore

\* A step beside collection that changes neither rows nor callers.
LEMMA StandingHolds ==
    ASSUME IInv, SameStanding, Free, UNCHANGED <<client, gc>>, TypeOK'
    PROVE  IInv'
<1>1. \A c \in Clients : ClientOK(c)'
  BY StandingShows, ClientsKept
<1>2. CollectionOK' /\ AllTaken'
  BY NoCollection DEF IInv
<1> QED
  BY <1>1, <1>2, RowsKept DEF IInv

-----------------------------------------------------------------------------
(* Beginning, changing and retaining references.                           *)

LEMMA OpenHolds ==
    ASSUME IInv, NEW s \in Sources, Open(s)
    PROVE  IInv'
<1>1. SourceRef(s) \in Refs \ Managed
  BY RefsDiffer, ManagedRefs
<1>2. validity \in [Refs -> Validity] /\ Managed \subseteq Refs
  BY ManagedRefs DEF IInv, TypeOK
<1>3. SameStanding
  BY <1>1, <1>2 DEF SameStanding, Open
<1>4. TypeOK'
  BY <1>3, StandingShows, ClientsKept DEF IInv, TypeOK, Bounded, Open, Validity
<1> QED
  BY <1>3, <1>4, StandingHolds DEF Open

LEMMA InvalidateHolds ==
    ASSUME IInv, NEW s \in Sources, Invalidate(s)
    PROVE  IInv'
<1>1. PICK below : validity' = Invalidated(below)
  BY DEF Invalidate
<1>2. validity \in [Refs -> Validity]
  BY DEF IInv, TypeOK
<1>3. /\ validity' \in [Refs -> Validity]
      /\ \A n \in Refs :
            \/ validity'[n] = validity[n]
            \/ validity'[n] = "source_changed" /\ validity[n] \notin {"absent", "expired"}
  <2>1. validity' = [n \in Refs |-> IF n \in below /\ validity[n] \notin {"absent", "expired"}
                                    THEN "source_changed" ELSE validity[n]]
    BY <1>1 DEF Invalidated
  <2>2. validity' \in [Refs -> Validity]
    BY <2>1, <1>2 DEF Validity
  <2> QED
    BY <2>1, <2>2
<1>4. SameStanding
  BY <1>3, ManagedRefs DEF SameStanding, Invalidate
<1>5. /\ Free
      /\ UNCHANGED <<jobRows, rows, shown, cutoff, deps, retention, disk, client, gc>>
  BY DEF Invalidate
<1>6. client' \in [Clients -> {Idle} \cup Pages' \cup Requests]
  BY <1>4, <1>5, StandingShows, ClientsKept
<1>7. TypeOK'
  BY <1>3, <1>5, <1>6 DEF IInv, TypeOK, Bounded
<1> QED
  BY <1>4, <1>5, <1>7, StandingHolds

LEMMA RetainHolds ==
    ASSUME IInv, NEW r \in Results, NEW pin \in BOOLEAN, Retain(r, pin)
    PROVE  IInv'
<1>1. SameStanding
  BY DEF SameStanding, Retain, IInv, TypeOK
<1>2. TypeOK'
  BY <1>1, StandingShows, ClientsKept DEF IInv, TypeOK, Bounded, Retain
<1> QED
  BY <1>1, <1>2, StandingHolds DEF Retain

LEMMA ConfigureHolds ==
    ASSUME IInv, NEW q \in Quotas, Configure(q)
    PROVE  IInv'
<1>1. SameStanding
  BY DEF SameStanding, Configure
<1>2. TypeOK'
  BY <1>1, StandingShows, ClientsKept DEF IInv, TypeOK, Bounded, Configure
<1> QED
  BY <1>1, <1>2, StandingHolds DEF Configure

LEMMA BudgetsAreNumbers ==
    ASSUME TypeOK, NEW r \in Results
    PROVE  budget[r] \in Nat
<1>1. budget[r] \in Budgets \cup {0}
  BY DEF TypeOK
<1> QED
  BY <1>1, ConstantsTyped

-----------------------------------------------------------------------------
(* Submissions.                                                            *)

LEMMA ResolveHolds ==
    ASSUME IInv, NEW c \in Clients, NEW k \in Kinds, NEW refs \in SUBSET Refs,
           NEW b \in Budgets \cup {0}, Resolve(c, k, refs, b)
    PROVE  IInv'
<1>1. SameStanding
  BY DEF SameStanding, Resolve
<1>2. Request(k, refs, b) \in Requests /\ Request(k, refs, b).at = "resolved"
  BY DEF Requests, Request
<1>3. TypeOK'
  <2>1. Pages' = Pages
    BY DEF Pages, Resolve
  <2>2. client' = [client EXCEPT ![c] = Request(k, refs, b)]
    BY DEF Resolve
  <2> QED
    BY <1>2, <2>1, <2>2 DEF IInv, TypeOK, Bounded, Resolve
<1>4. ASSUME NEW d \in Clients PROVE ClientOK(d)'
  BY <1>2 DEF IInv, TypeOK, ClientOK, Resolve
<1> QED
  BY <1>1, <1>3, <1>4, RowsKept, NoCollection DEF IInv, Resolve

\* A request that is done with, whatever became of it.
LEMMA ClientsLeft ==
    ASSUME IInv, ShowsMore, NEW c \in Clients, client' = [client EXCEPT ![c] = Idle],
           UNCHANGED gc
    PROVE  /\ client' \in [Clients -> {Idle} \cup Pages' \cup Requests]
           /\ \A d \in Clients : ClientOK(d)'
<1>1. client' \in [Clients -> {Idle} \cup Pages' \cup Requests]
  BY PagesGrow DEF IInv, TypeOK
<1>2. ASSUME NEW d \in Clients PROVE ClientOK(d)'
  <2>1. client'[d] \in {client[d], Idle} /\ ClientOK(d)
    BY DEF IInv, TypeOK
  <2>2. CASE client'[d] = Idle
    BY <2>2 DEF ClientOK, Idle
  <2>3. CASE client'[d] = client[d]
    BY <2>1, <2>3 DEF ClientOK, ShowsMore
  <2> QED
    BY <2>1, <2>2, <2>3
<1> QED
  BY <1>1, <1>2

LEMMA RefuseHolds ==
    ASSUME IInv, NEW c \in Clients, Refuse(c)
    PROVE  IInv'
<1>1. SameStanding
  BY DEF SameStanding, Refuse
<1>2. /\ client' \in [Clients -> {Idle} \cup Pages' \cup Requests]
      /\ \A d \in Clients : ClientOK(d)'
  BY <1>1, StandingShows, ClientsLeft DEF Refuse
<1>3. TypeOK'
  BY <1>2 DEF IInv, TypeOK, Bounded, Refuse
<1> QED
  BY <1>1, <1>2, <1>3, RowsKept, NoCollection DEF IInv, Refuse

LEMMA SubmitHolds ==
    ASSUME IInv, NEW c \in Clients, NEW r \in Results, Submit(c, r)
    PROVE  IInv'
<1> DEFINE request == client[c]
<1>1. /\ request.kind \in Kinds /\ request.inputs \in SUBSET Refs
      /\ request.budget \in Budgets \cup {0}
  <2>1. request \in {Idle} \cup Pages \cup Requests /\ request.at = "resolved"
    BY DEF IInv, TypeOK, Submit
  <2>2. request \in Requests
    BY <2>1 DEF Idle, Pages, Page
  <2> QED
    BY <2>2 DEF Requests, Request
<1> HIDE DEF request
<1>2. /\ job[r] = "absent" /\ rows[r] = 0 /\ cutoff[r] = 0 /\ store[r] = {}
      /\ validity[ResultRef(r)] # "expired" /\ validity[DatasetRef(r)] = "absent"
      /\ released[r] # 2
  BY DEF IInv, RowsOK, ResultOK, Submit
<1>3. /\ Free /\ UNCHANGED <<rows, shown, cutoff, retention, disk, gc>>
      /\ \A n \in request.inputs : validity[n] = "valid"
      /\ job' = [job EXCEPT ![r] = "active"]
      /\ kind' = [kind EXCEPT ![r] = request.kind]
      /\ inputs' = [inputs EXCEPT ![r] = request.inputs]
      /\ budget' = [budget EXCEPT ![r] = request.budget]
      /\ validity' = [validity EXCEPT ![ResultRef(r)] = "valid"]
      /\ deps' = deps \cup {<<ResultRef(r), n>> : n \in request.inputs}
      /\ client' = [client EXCEPT ![c] = Idle]
  BY DEF Submit, StillValid, request
<1>4. /\ validity' \in [Refs -> Validity]
      /\ \A n \in Refs : validity'[n] = IF n = ResultRef(r) THEN "valid" ELSE validity[n]
  BY <1>3, RefsDiffer DEF IInv, TypeOK, Validity
<1>5. ShowsMore
  <2>1. ASSUME NEW q \in Results
        PROVE  validity[ResultRef(q)] # "expired" => validity'[ResultRef(q)] # "expired"
    BY <1>4, RefsDiffer
  <2>2. ASSUME NEW q \in Results
        PROVE  cutoff[q] \in Nat /\ cutoff'[q] \in Nat /\ cutoff[q] <= cutoff'[q]
    BY <1>3 DEF IInv, TypeOK
  <2> QED
    BY <2>1, <2>2 DEF ShowsMore
<1>6. /\ client' \in [Clients -> {Idle} \cup Pages' \cup Requests]
      /\ \A d \in Clients : ClientOK(d)'
  BY <1>3, <1>5, ClientsLeft
<1>7. TypeOK'
  <2>1. deps' \subseteq Managed \X Refs
    BY <1>1, <1>3, ManagedRefs DEF IInv, TypeOK
  <2>2. budget' \in [Results -> Budgets \cup {0}] /\ budget'[r] = request.budget
    BY <1>1, <1>3 DEF IInv, TypeOK
  <2> budget'[r] \in Nat
    BY <2>2, <1>1, ConstantsTyped
  <2>3. ASSUME NEW q \in Results PROVE Bounded(q)'
    <3>1. CASE q = r
      BY <3>1, <2>2, <1>2, <1>3 DEF Bounded
    <3>2. CASE q # r
      BY <3>2, <1>3 DEF IInv, TypeOK, Bounded
    <3> QED
      BY <3>1, <3>2
  <2> QED
    BY <1>1, <1>3, <1>4, <1>6, <2>1, <2>2, <2>3 DEF IInv, TypeOK
<1>8. ASSUME NEW q \in Results PROVE ResultOK(q)'
  <2>1. CASE q = r
    BY <2>1, <1>2, <1>3, <1>4, RefsDiffer DEF ResultOK, IInv, TypeOK
  <2>2. CASE q # r
    BY <2>2, <1>3, <1>4, RefsDiffer DEF IInv, TypeOK, RowsOK, ResultOK, Available, InSqlite
  <2> QED
    BY <2>1, <2>2
<1>9. ASSUME NEW q \in Results PROVE DatasetOK(q)'
  <2>1. CASE q = r
    BY <2>1, <1>2, <1>4, RefsDiffer DEF DatasetOK
  <2>2. CASE q # r
    BY <2>2, <1>3, <1>4, RefsDiffer DEF IInv, RowsOK, DatasetOK
  <2> QED
    BY <2>1, <2>2
<1>10. ASSUME NEW q \in Results PROVE InputsOK(q)'
  <2>1. CASE q = r
    BY <2>1, <1>1, <1>3, <1>4 DEF InputsOK, IInv, TypeOK
  <2>2. CASE q # r
    BY <2>2, <1>3, <1>4 DEF IInv, TypeOK, RowsOK, InputsOK
  <2> QED
    BY <2>1, <2>2
<1> QED
  BY <1>3, <1>6, <1>7, <1>8, <1>9, <1>10, NoCollection DEF IInv, RowsOK

-----------------------------------------------------------------------------
(* Execution.  A step of a job changes its own result and nothing else.    *)

Beside(r) ==
    /\ Free /\ UNCHANGED <<kind, inputs, budget, retention, client, gc>>
    /\ \A q \in Results \ {r} : /\ job'[q] = job[q] /\ rows'[q] = rows[q]
                                /\ cutoff'[q] = cutoff[q] /\ store'[q] = store[q]

LEMMA OthersKept ==
    ASSUME IInv, NEW r \in Results, Beside(r), validity' = validity, deps' = deps,
           NEW q \in Results, q # r
    PROVE  ResultOK(q)' /\ DatasetOK(q)' /\ InputsOK(q)'
BY DEF Beside, IInv, RowsOK, ResultOK, DatasetOK, InputsOK, Available, InSqlite

LEMMA StageHolds ==
    ASSUME IInv, NEW r \in Results, Stage(r)
    PROVE  IInv'
<1>1. SameStanding
  BY DEF SameStanding, Stage
<1>2. TypeOK'
  BY <1>1, StandingShows, ClientsKept DEF IInv, TypeOK, Bounded, Stage
<1>3. CollectionOK' /\ AllTaken'
  BY DEF IInv, CollectionOK, AllTaken, Done, Protected, Above, Roots, Retained, Stage
<1> QED
  BY <1>1, <1>2, <1>3, StandingShows, ClientsKept, RowsKept DEF IInv, Stage

LEMMA PublishHolds ==
    ASSUME IInv, NEW r \in Results, NEW preview \in BOOLEAN, Publish(r, preview)
    PROVE  IInv'
<1>p. PICK p : p = rows[r] + 1
  OBVIOUS
<1>1. /\ job[r] = "active" /\ r \in staging /\ p <= budget[r]
      /\ rows' = [rows EXCEPT ![r] = p]
      /\ store' = IF InSqlite(r, p) THEN store ELSE [store EXCEPT ![r] = @ \cup {p}]
      /\ cutoff' = IF preview THEN [cutoff EXCEPT ![r] = p] ELSE cutoff
      /\ shown' = IF preview THEN [shown EXCEPT ![r] = "partial"] ELSE shown
      /\ UNCHANGED <<jobRows, validity, deps, retention, staging, client, gc>>
      /\ Free
  BY <1>p DEF Publish
<1>2. /\ budget[r] \in Nat /\ rows[r] \in Nat /\ rows[r] <= budget[r] /\ cutoff[r] \in Nat
      /\ cutoff[r] <= rows[r] /\ \A i \in 1 .. rows[r] : Available(r, i)
      /\ validity[ResultRef(r)] # "expired" /\ validity[DatasetRef(r)] = "absent"
  BY <1>1, BudgetsAreNumbers DEF IInv, TypeOK, RowsOK, ResultOK, Bounded
<1>3. p \in Nat /\ p = rows[r] + 1
  BY <1>2, <1>p
<1>4. /\ rows'[r] = p /\ cutoff'[r] \in {cutoff[r], p}
      /\ store[r] \subseteq store'[r] /\ store'[r] \subseteq store[r] \cup {p}
      /\ p \notin store'[r] => InSqlite(r, p)
  BY <1>1 DEF IInv, TypeOK
<1>5. Beside(r)
  BY <1>1 DEF Beside, IInv, TypeOK
<1>6. ShowsMore
  BY <1>1, <1>2, <1>3 DEF IInv, TypeOK, ShowsMore
<1>7. \A i \in 1 .. p : Available(r, i)'
  <2>1. kind' = kind
    BY <1>1
  <2>2. ASSUME NEW i \in 1 .. rows[r] PROVE Available(r, i)'
    <3>1. Available(r, i)
      BY <1>2
    <3>2. rows'[r] = rows[r] + 1 /\ rows[r] \in Nat /\ store[r] \subseteq store'[r]
      BY <1>2, <1>3, <1>4
    <3> QED
      BY <3>1, <3>2, <2>1 DEF Available, InSqlite
  <2>3. Available(r, p)'
    BY <2>1, <1>3, <1>4 DEF Available, InSqlite
  <2> QED
    BY <2>2, <2>3, <1>2, <1>3
<1>8. TypeOK'
  <2>1. ASSUME NEW q \in Results PROVE Bounded(q)'
    <3>1. CASE q = r
      BY <3>1, <1>1, <1>2, <1>3, <1>4 DEF IInv, TypeOK, Bounded
    <3>2. CASE q # r
      BY <3>2, <1>1, <1>5 DEF Beside, IInv, TypeOK, Bounded
    <3> QED
      BY <3>1, <3>2
  <2>3. /\ rows' \in [Results -> Nat] /\ cutoff' \in [Results -> Nat]
        /\ store' \in [Results -> SUBSET Nat]
    BY <1>1, <1>3 DEF IInv, TypeOK
  <2>2. shown' \in [Results -> {"none", "partial", "final"}]
    BY <1>1 DEF IInv, TypeOK
  <2> QED
    BY <2>1, <2>2, <2>3, <1>1, <1>6, ClientsKept DEF IInv, TypeOK
<1>9. ResultOK(r)'
  BY <1>1, <1>2, <1>3, <1>4, <1>7 DEF IInv, RowsOK, ResultOK
<1>10. DatasetOK(r)' /\ InputsOK(r)'
  BY <1>1 DEF IInv, RowsOK, DatasetOK, InputsOK
<1>11. RowsOK'
  BY <1>1, <1>5, <1>9, <1>10, OthersKept DEF RowsOK
<1> QED
  BY <1>1, <1>6, <1>8, <1>11, ClientsKept, NoCollection DEF IInv

\* What the three ends of a job have in common.
Ends(r) ==
    /\ job[r] = "active" /\ job' = [job EXCEPT ![r] = "over"]
    /\ staging' \in SUBSET staging
    /\ cutoff' \in {cutoff, [cutoff EXCEPT ![r] = rows[r]]}
    /\ shown' \in [Results -> {"none", "partial", "final"}]
    /\ UNCHANGED <<rows, store, kind, inputs, budget, retention, client, gc>>
    /\ Free

LEMMA TidyRemoves ==
    ASSUME IInv, NEW r \in Results, Tidy(r)
    PROVE  staging' \in SUBSET staging
BY DEF Tidy

LEMMA EndsCommon ==
    ASSUME IInv, NEW r \in Results, Ends(r),
           \A q \in Results : validity[ResultRef(q)] # "expired" => validity'[ResultRef(q)] # "expired"
    PROVE  /\ ShowsMore
           /\ cutoff' \in [Results -> Nat] /\ \A q \in Results : Bounded(q)'
           /\ validity[ResultRef(r)] # "expired" /\ validity[DatasetRef(r)] = "absent"
           /\ \A i \in 1 .. cutoff'[r] : Available(r, i)'
<1>1. /\ rows[r] \in Nat /\ cutoff[r] \in Nat /\ cutoff[r] <= rows[r] /\ rows[r] <= budget[r]
      /\ \A i \in 1 .. rows[r] : Available(r, i)
      /\ validity[ResultRef(r)] # "expired" /\ validity[DatasetRef(r)] = "absent"
  BY DEF Ends, IInv, TypeOK, RowsOK, ResultOK, Bounded
<1>2. /\ cutoff' \in [Results -> Nat] /\ cutoff'[r] \in {cutoff[r], rows[r]}
      /\ \A q \in Results : q # r => cutoff'[q] = cutoff[q]
  BY DEF Ends, IInv, TypeOK
<1>3. ASSUME NEW q \in Results
      PROVE  Bounded(q)' /\ cutoff[q] <= cutoff'[q] /\ cutoff[q] \in Nat
  <2>1. Bounded(q) /\ cutoff[q] \in Nat
    BY DEF IInv, TypeOK
  <2>2. CASE q = r
    BY <2>1, <2>2, <1>1, <1>2 DEF Bounded, Ends
  <2>3. CASE q # r
    BY <2>1, <2>3, <1>2 DEF Bounded, Ends
  <2> QED
    BY <2>2, <2>3
<1>4. \A i \in 1 .. cutoff'[r] : Available(r, i)'
  BY <1>1, <1>2, BudgetsAreNumbers DEF Available, InSqlite, Ends, IInv
<1> QED
  BY <1>1, <1>2, <1>3, <1>4 DEF ShowsMore

LEMMA EndHolds ==
    ASSUME IInv, NEW r \in Results, Ends(r), UNCHANGED <<validity, deps>>
    PROVE  IInv'
<1>1. /\ ShowsMore
      /\ cutoff' \in [Results -> Nat] /\ \A q \in Results : Bounded(q)'
      /\ validity[ResultRef(r)] # "expired" /\ validity[DatasetRef(r)] = "absent"
      /\ \A i \in 1 .. cutoff'[r] : Available(r, i)'
  BY EndsCommon
<1>2. TypeOK'
  BY <1>1, ClientsKept DEF IInv, TypeOK, Ends
<1>3. Beside(r)
  BY DEF Beside, Ends, IInv, TypeOK
<1>4. job'[r] = "over"
  BY DEF Ends, IInv, TypeOK
<1>5. ResultOK(r)' /\ DatasetOK(r)' /\ InputsOK(r)'
  BY <1>1, <1>4 DEF Ends, IInv, RowsOK, ResultOK, DatasetOK, InputsOK
<1>6. RowsOK'
  BY <1>3, <1>5, OthersKept DEF RowsOK
<1> QED
  BY <1>1, <1>2, <1>6, ClientsKept, NoCollection DEF IInv, Ends

LEMMA CompleteQueryHolds ==
    ASSUME IInv, NEW r \in Results, CompleteQuery(r)
    PROVE  IInv'
<1>1. Ends(r)
  BY TidyRemoves DEF Ends, CompleteQuery, IInv, TypeOK
<1> QED
  BY <1>1, EndHolds DEF CompleteQuery

LEMMA EndOtherwiseHolds ==
    ASSUME IInv, NEW r \in Results, EndOtherwise(r)
    PROVE  IInv'
<1>1. Ends(r)
  BY TidyRemoves DEF Ends, EndOtherwise, IInv, TypeOK
<1> QED
  BY <1>1, EndHolds DEF EndOtherwise

LEMMA CompletePrepareHolds ==
    ASSUME IInv, NEW r \in Results, CompletePrepare(r)
    PROVE  IInv'
<1>1. Ends(r)
  BY TidyRemoves DEF Ends, CompletePrepare, IInv, TypeOK
<1>2. /\ validity' \in [Refs -> Validity]
      /\ \A n \in Refs : validity'[n] = IF n = DatasetRef(r) THEN "valid" ELSE validity[n]
  BY RefsDiffer DEF CompletePrepare, IInv, TypeOK, Validity
<1>3. deps' = {d \in deps : d[1] # ResultRef(r)} \cup {<<DatasetRef(r), ResultRef(r)>>}
  BY DEF CompletePrepare
<1>4. /\ ShowsMore
      /\ cutoff' \in [Results -> Nat] /\ \A q \in Results : Bounded(q)'
      /\ validity[ResultRef(r)] # "expired" /\ validity[DatasetRef(r)] = "absent"
      /\ \A i \in 1 .. cutoff'[r] : Available(r, i)'
  BY <1>1, <1>2, EndsCommon, RefsDiffer
<1>5. TypeOK'
  <2>1. deps' \subseteq Managed \X Refs
    BY <1>3, RefsDiffer, ManagedRefs DEF IInv, TypeOK
  <2> QED
    BY <1>1, <1>2, <1>4, <2>1, ClientsKept DEF IInv, TypeOK, Ends
<1>6. Beside(r)
  BY <1>1 DEF Beside, Ends, IInv, TypeOK
<1>7. job'[r] = "over"
  BY <1>1 DEF Ends, IInv, TypeOK
<1>8. ASSUME NEW q \in Results PROVE ResultOK(q)'
  <2>1. CASE q = r
    BY <2>1, <1>1, <1>2, <1>4, <1>7, RefsDiffer DEF Ends, IInv, RowsOK, ResultOK
  <2>2. CASE q # r
    BY <2>2, <1>2, <1>6, RefsDiffer
    DEF Beside, IInv, RowsOK, ResultOK, Available, InSqlite
  <2> QED
    BY <2>1, <2>2
<1>9. ASSUME NEW q \in Results PROVE DatasetOK(q)'
  <2>1. CASE q = r
    BY <2>1, <1>2, <1>3, <1>4, RefsDiffer DEF DatasetOK
  <2>2. CASE q # r
    <3>1. DatasetOK(q) /\ DatasetRef(q) # ResultRef(r)
      BY RefsDiffer DEF IInv, RowsOK
    <3>2. validity'[DatasetRef(q)] = validity[DatasetRef(q)]
          /\ validity'[ResultRef(q)] = validity[ResultRef(q)]
      BY <2>2, <1>2, RefsDiffer
    <3> QED
      BY <3>1, <3>2, <1>3 DEF DatasetOK
  <2> QED
    BY <2>1, <2>2
<1>10. ASSUME NEW q \in Results PROVE InputsOK(q)'
  <2>1. CASE q = r
    BY <2>1, <1>7 DEF InputsOK
  <2>2. CASE q # r
    <3>1. job'[q] = job[q] /\ inputs' = inputs /\ InputsOK(q) /\ inputs[q] \subseteq Refs
      BY <2>2, <1>6 DEF Beside, IInv, TypeOK, RowsOK
    <3>2. ResultRef(q) # ResultRef(r)
      BY <2>2, RefsDiffer
    <3> QED
      BY <3>1, <3>2, <1>2, <1>3 DEF InputsOK
  <2> QED
    BY <2>1, <2>2
<1> QED
  BY <1>1, <1>4, <1>5, <1>8, <1>9, <1>10, ClientsKept, NoCollection DEF IInv, RowsOK, Ends

-----------------------------------------------------------------------------
(* Pages.                                                                  *)

LEMMA StartPageHolds ==
    ASSUME IInv, NEW c \in Clients, NEW r \in Results, StartPage(c, r)
    PROVE  IInv'
<1>1. SameStanding
  BY DEF SameStanding, StartPage
<1>2. /\ Free /\ gc' = gc /\ client' = [client EXCEPT ![c] = Page(r, 1 .. cutoff[r])]
      /\ cutoff' = cutoff /\ validity' = validity /\ validity[ResultRef(r)] = "valid"
      /\ UNCHANGED <<jobRows, resultRows, retention, disk, gc>>
  BY DEF StartPage
<1>3. cutoff[r] \in Nat
  BY DEF IInv, TypeOK
<1>4. client' \in [Clients -> {Idle} \cup Pages' \cup Requests]
  <2>1. Pages' = Pages
    BY <1>2 DEF Pages
  <2>2. Page(r, 1 .. cutoff[r]) \in Pages
    <3>1. cutoff[r] \in 0 .. cutoff[r]
      BY <1>3
    <3> QED
      BY <3>1 DEF Pages
  <2> QED
    BY <1>2, <2>1, <2>2 DEF IInv, TypeOK
<1>5. TypeOK'
  BY <1>2, <1>4 DEF IInv, TypeOK, Bounded
<1>6. ASSUME NEW d \in Clients PROVE ClientOK(d)'
  <2>1. CASE d = c
    <3>1. client'[d] = Page(r, 1 .. cutoff[r])
      BY <2>1, <1>2 DEF IInv, TypeOK
    <3>2. gc' = GcIdle
      BY <1>2, FreeMeansIdle DEF IInv
    <3> QED
      BY <3>1, <3>2, <1>2 DEF ClientOK, Page
  <2>2. CASE d # c
    BY <2>2, <1>2 DEF IInv, TypeOK, ClientOK
  <2> QED
    BY <2>1, <2>2
<1> QED
  BY <1>1, <1>2, <1>5, <1>6, RowsKept, NoCollection DEF IInv

LEMMA EndPageHolds ==
    ASSUME IInv, NEW c \in Clients, EndPage(c)
    PROVE  IInv'
<1>1. SameStanding
  BY DEF SameStanding, EndPage
<1>2. /\ client' \in [Clients -> {Idle} \cup Pages' \cup Requests]
      /\ \A d \in Clients : ClientOK(d)'
  BY <1>1, StandingShows, ClientsLeft DEF EndPage
<1>3. Free /\ gc' = gc
  BY FreeMeansIdle DEF IInv, ClientOK, EndPage
<1>4. TypeOK'
  BY <1>2 DEF IInv, TypeOK, Bounded, EndPage
<1> QED
  BY <1>1, <1>2, <1>3, <1>4, RowsKept, NoCollection DEF IInv

-----------------------------------------------------------------------------
(* Collection.                                                             *)

LEMMA ProtectedKept ==
    ASSUME UNCHANGED <<deps, pins, job>>,
           \A r \in Results :
              validity'[ResultRef(r)] \notin {"absent", "expired"} /\ released'[r] = 0
              <=> validity[ResultRef(r)] \notin {"absent", "expired"} /\ released[r] = 0
    PROVE  Roots' = Roots /\ Protected' = Protected
<1>1. Roots' = Roots
  BY DEF Roots, Retained
<1> QED
  BY <1>1 DEF Protected, Above

\* What is chosen is out of use, and so is everything that is built from it.
LEMMA ChosenAreFree ==
    ASSUME NEW chosen \in Batches
    PROVE  /\ chosen \subseteq Results
           /\ \A r \in chosen : Collectible(r) /\ ResultRef(r) \notin Protected
           /\ \A n \in Below({ResultRef(r) : r \in chosen}) : n \notin Protected
<1>1. chosen \subseteq Eligible
  BY DEF Batches
<1>2. /\ chosen \subseteq Results
      /\ \A r \in chosen : Collectible(r) /\ ResultRef(r) \notin Protected
  BY <1>1 DEF Eligible
<1>3. ASSUME NEW n \in Below({ResultRef(r) : r \in chosen}), n \in Protected PROVE FALSE
  <2>1. \E m \in {ResultRef(r) : r \in chosen} : m \in Protected
    BY <1>3, BelowMeetsAbove DEF Protected
  <2> QED
    BY <2>1, <1>2
<1> QED
  BY <1>2, <1>3

\* A batch that is large enough takes all that can be taken.
LEMMA AllChosen ==
    ASSUME NEW chosen \in Batches, Cardinality(Results) <= Batch
    PROVE  chosen = Eligible
<1>1. IsFiniteSet(Results)
  <2>1. SetsAssumption
    BY SetsAssumption
  <2> QED
    BY <2>1 DEF SetsAssumption
<1>2. Batch \in Nat
  <2>1. BoundsAssumption
    BY BoundsAssumption
  <2> QED
    BY <2>1 DEF BoundsAssumption
<1>3. Eligible \subseteq Results
  BY DEF Eligible
<1>4. /\ IsFiniteSet(Eligible) /\ Cardinality(Eligible) \in Nat /\ Cardinality(Results) \in Nat
      /\ Cardinality(Eligible) <= Cardinality(Results)
  BY <1>1, <1>3, FS_Subset, FS_CardinalityType
<1>5. Cardinality(Eligible) <= Batch
  BY <1>2, <1>4
<1>6. chosen \subseteq Eligible /\ Cardinality(chosen) = Cardinality(Eligible)
  BY <1>5 DEF Batches
<1> QED
  BY <1>4, <1>6, FS_Subset

LEMMA GcSelectHolds ==
    ASSUME IInv, GcSelect
    PROVE  IInv'
<1>1. PICK chosen \in Batches : validity' = Tombstoned(chosen) /\ gc' = GcAt("unlink", chosen)
  BY DEF GcSelect
<1>2. /\ NoReader
      /\ UNCHANGED <<jobRows, rows, shown, cutoff, deps, retention, disk, client>>
  BY DEF GcSelect
<1> DEFINE selected == {ResultRef(r) : r \in chosen}
<1>3. /\ chosen \subseteq Results
      /\ \A r \in chosen : Collectible(r) /\ ResultRef(r) \notin Protected
      /\ \A n \in Below(selected) : n \notin Protected
  BY ChosenAreFree
<1>4. validity' = [n \in Refs |->
                     IF n \in selected \/ (n \in Below(selected) \ ResultRefs /\ validity[n] # "absent")
                     THEN "expired" ELSE validity[n]]
  BY <1>1 DEF Tombstoned
<1>5. /\ validity' \in [Refs -> Validity]
      /\ \A n \in Refs : validity'[n] \in {validity[n], "expired"}
      /\ \A n \in Refs : validity[n] = "absent" /\ n \notin selected => validity'[n] = "absent"
      /\ \A n \in Refs : n \in Protected => validity'[n] = validity[n]
  <2>1. \A n \in selected : n \notin Protected
    BY <1>3
  <2> HIDE DEF selected
  <2>2. validity \in [Refs -> Validity] /\ "expired" \in Validity
    BY DEF IInv, TypeOK, Validity
  <2>3. validity' \in [Refs -> Validity]
    BY <1>4, <2>2
  <2> QED
    BY <1>3, <1>4, <2>1, <2>2, <2>3
<1>6. \A r \in Results : /\ r \in chosen => validity'[ResultRef(r)] = "expired"
                         /\ r \notin chosen => validity'[ResultRef(r)] = validity[ResultRef(r)]
  <2>1. \A r \in Results : ResultRef(r) \in selected <=> r \in chosen
    BY <1>3, RefsDiffer
  <2> HIDE DEF selected
  <2> QED
    BY <2>1, <1>4, RefsDiffer, ManagedRefs
<1>7. ASSUME NEW r \in Results PROVE ResultOK(r)'
  <2>1. validity'[DatasetRef(r)] = "absent" \/ validity[DatasetRef(r)] # "absent"
    BY <1>3, <1>5, RefsDiffer
  <2> QED
    BY <2>1, <1>2, <1>3, <1>5, <1>6, RefsDiffer
    DEF IInv, RowsOK, ResultOK, Collectible, Available, InSqlite
<1>8. ASSUME NEW r \in Results PROVE DatasetOK(r)'
  <2>1. validity[DatasetRef(r)] = "absent" => validity'[DatasetRef(r)] = "absent"
    BY <1>3, <1>5, RefsDiffer
  <2>2. CASE r \in chosen /\ validity[DatasetRef(r)] # "absent"
    <3>1. <<DatasetRef(r), ResultRef(r)>> \in deps
      BY <2>2 DEF IInv, RowsOK, DatasetOK
    <3>2. DatasetRef(r) \in Below(selected)
      <4>1. ResultRef(r) \in selected
        BY <2>2
      <4> HIDE DEF selected
      <4> QED
        BY <3>1, <4>1, BelowClosed
    <3>3. validity'[DatasetRef(r)] = "expired"
      <4> HIDE DEF selected
      <4> QED
        BY <2>2, <3>2, <1>4, RefsDiffer, ManagedRefs
    <3> QED
      BY <1>2, <3>1, <3>3 DEF DatasetOK
  <2>3. CASE r \notin chosen
    BY <2>1, <2>3, <1>2, <1>5, <1>6, RefsDiffer DEF IInv, RowsOK, DatasetOK
  <2> QED
    BY <2>1, <2>2, <2>3 DEF DatasetOK
<1>9. ASSUME NEW r \in Results PROVE InputsOK(r)'
  <2>1. SUFFICES ASSUME job[r] = "active", NEW n \in inputs[r]
                 PROVE  <<ResultRef(r), n>> \in deps /\ validity'[n] \notin {"absent", "expired"}
    BY <1>2 DEF InputsOK
  <2>2. <<ResultRef(r), n>> \in deps /\ validity[n] \notin {"absent", "expired"} /\ n \in Refs
    BY <2>1 DEF IInv, TypeOK, RowsOK, InputsOK
  <2>3. r \in Roots
    BY <2>1 DEF Roots, Retained
  <2>4. ResultRef(r) \in Protected
    BY <2>3, AboveClosed DEF Protected
  <2>5. n \in Protected
    BY <2>2, <2>4, AboveClosed DEF Protected
  <2> QED
    BY <2>2, <2>5, <1>5
<1>10. \A c \in Clients : ClientOK(c)'
  BY <1>2 DEF ClientOK, NoReader
<1>11. CollectionOK'
  BY <1>1, <1>6, <1>3 DEF CollectionOK, GcAt, GcIdle
<1>12. AllTaken'
  <2>1. \A r \in Results :
           validity'[ResultRef(r)] \notin {"absent", "expired"} /\ released[r] = 0
           <=> validity[ResultRef(r)] \notin {"absent", "expired"} /\ released[r] = 0
    BY <1>3, <1>6 DEF Collectible
  <2>2. Protected' = Protected
    BY <2>1, <1>2, ProtectedKept
  <2>3. ASSUME Cardinality(Results) <= Batch, NEW r \in Results, job[r] = "over",
               validity'[ResultRef(r)] = "expired", ResultRef(r) \notin Protected, r \notin chosen
        PROVE  store[r] = {} /\ rows[r] = 0
    <3>1. r \notin Eligible
      BY <2>3, AllChosen
    <3>2. validity[ResultRef(r)] = "expired"
      BY <2>3, <1>6
    <3>3. released[r] = 2
      BY <3>1, <3>2, <2>3 DEF Eligible, Collectible
    <3> QED
      BY <3>3 DEF IInv, RowsOK, ResultOK
  <2>4. gc'.left = chosen
    BY <1>1 DEF GcAt
  <2> QED
    BY <2>2, <2>3, <2>4, <1>2 DEF AllTaken, Done
<1>13. TypeOK'
  <2>1. client' \in [Clients -> {Idle} \cup Pages' \cup Requests]
    BY <1>2 DEF IInv, TypeOK, Pages
  <2>2. gc' \in Collections
    BY <1>1, <1>3 DEF Collections, GcAt
  <2> QED
    BY <2>1, <2>2, <1>2, <1>5 DEF IInv, TypeOK, Bounded
<1> QED
  BY <1>7, <1>8, <1>9, <1>10, <1>11, <1>12, <1>13 DEF IInv, RowsOK

LEMMA GcTyped ==
    ASSUME TypeOK
    PROVE  /\ gc.at \in {"idle", "unlink", "forget", "mark"}
           /\ gc.at = "idle" => gc = GcIdle
           /\ gc.at # "idle" => gc # GcIdle /\ gc.left \in SUBSET Results
           /\ gc.at \in {"forget", "mark"} => gc.result \in Results
BY DEF TypeOK, Collections, GcIdle

\* Nobody reads while a collection runs.
LEMMA NobodyReads ==
    ASSUME IInv, gc.at # "idle", UNCHANGED client
    PROVE  \A c \in Clients : ClientOK(c)'
BY GcTyped DEF IInv, ClientOK, GcIdle

\* A step that takes rows, files or the mark of one expired result.
Removes(r) ==
    /\ UNCHANGED <<jobRows, shown, cutoff, validity, deps, pins>>
    /\ \A q \in Results \ {r} :
          rows'[q] = rows[q] /\ store'[q] = store[q] /\ released'[q] = released[q]
    /\ store'[r] \subseteq store[r] /\ rows'[r] \in {0, rows[r]}
    /\ released'[r] = 2 => store'[r] = {} /\ rows'[r] = 0
    /\ store' \in [Results -> SUBSET Nat] /\ rows' \in [Results -> Nat]
    /\ released' \in [Results -> {0, 1, 2}]

LEMMA RemovesHolds ==
    ASSUME IInv, NEW r \in Results, validity[ResultRef(r)] = "expired", Removes(r)
    PROVE  /\ RowsOK'
           /\ \A q \in Results : Bounded(q)'
           /\ Protected' = Protected
<1>1. ASSUME NEW q \in Results PROVE ResultOK(q)'
  <2>1. ResultOK(q)
    BY DEF IInv, RowsOK
  <2>2. CASE q = r
    BY <2>1, <2>2 DEF Removes, ResultOK
  <2>3. CASE q # r
    BY <2>1, <2>3 DEF Removes, ResultOK, Available, InSqlite
  <2> QED
    BY <2>2, <2>3
<1>2. ASSUME NEW q \in Results PROVE DatasetOK(q)' /\ InputsOK(q)'
  BY DEF IInv, RowsOK, DatasetOK, InputsOK, Removes
<1>3. ASSUME NEW q \in Results PROVE Bounded(q)'
  <2>1. Bounded(q) /\ rows[q] \in Nat
    BY DEF IInv, TypeOK
  <2>2. budget[q] \in Nat
    BY BudgetsAreNumbers DEF IInv
  <2>3. CASE q = r
    BY <2>1, <2>2, <2>3 DEF Bounded, Removes
  <2>4. CASE q # r
    BY <2>1, <2>4 DEF Bounded, Removes
  <2> QED
    BY <2>3, <2>4
<1>4. Protected' = Protected
  <2>1. \A q \in Results :
           validity'[ResultRef(q)] \notin {"absent", "expired"} /\ released'[q] = 0
           <=> validity[ResultRef(q)] \notin {"absent", "expired"} /\ released[q] = 0
    BY DEF Removes
  <2> QED
    BY <2>1, ProtectedKept DEF Removes
<1> QED
  BY <1>1, <1>2, <1>3, <1>4 DEF RowsOK

LEMMA GcUnlinkHolds ==
    ASSUME IInv, NEW r \in Results, GcUnlink(r)
    PROVE  IInv'
<1>1. /\ gc.at = "unlink" /\ r \in gc.left
      /\ store' = [store EXCEPT ![r] = {}]
      /\ gc' = [at |-> "forget", left |-> gc.left \ {r}, result |-> r]
      /\ UNCHANGED <<jobRows, resultRows, retention, staging, client>>
  BY DEF GcUnlink
<1>2. gc # GcIdle /\ gc.left \in SUBSET Results
  BY <1>1, GcTyped DEF IInv
<1>3. \A q \in gc.left : validity[ResultRef(q)] = "expired"
  BY <1>2 DEF IInv, CollectionOK
<1>4. Removes(r)
  BY <1>1 DEF Removes, IInv, TypeOK, RowsOK, ResultOK
<1>5. /\ RowsOK' /\ Protected' = Protected
      /\ \A q \in Results : Bounded(q)'
  BY <1>1, <1>3, <1>4, RemovesHolds
<1>6. \A c \in Clients : ClientOK(c)'
  BY <1>1, NobodyReads
<1>7. /\ store' \in [Results -> SUBSET Nat] /\ store'[r] = {}
      /\ \A q \in Results : store'[q] = store[q] \/ store'[q] = {}
  BY <1>1 DEF IInv, TypeOK
<1>8. CollectionOK'
  BY <1>1, <1>3, <1>7 DEF CollectionOK
<1>9. AllTaken'
  <2>1. ASSUME NEW q \in Results, Done(q) PROVE Done(q)'
    BY <2>1, <1>1, <1>7 DEF Done
  <2> QED
    BY <2>1, <1>1, <1>2, <1>5 DEF IInv, AllTaken
<1>10. TypeOK'
  <2>1. gc' \in Collections
    BY <1>1, <1>2 DEF Collections
  <2>2. Pages' = Pages
    BY <1>1 DEF Pages
  <2> QED
    BY <2>1, <2>2, <1>1, <1>5, <1>7 DEF IInv, TypeOK
<1> QED
  BY <1>5, <1>6, <1>8, <1>9, <1>10 DEF IInv

LEMMA GcFailsHolds ==
    ASSUME IInv, NEW r \in Results, GcFails(r)
    PROVE  IInv'
<1>1. PICK remaining \in (SUBSET store[r]) \ {{}} : store' = [store EXCEPT ![r] = remaining]
  BY DEF GcFails
<1>2. /\ gc.at = "unlink" /\ r \in gc.left /\ gc' = GcIdle
      /\ UNCHANGED <<jobRows, resultRows, retention, staging, client>>
  BY DEF GcFails
<1>3. gc # GcIdle
  BY <1>2, GcTyped DEF IInv
<1>4. validity[ResultRef(r)] = "expired"
  BY <1>2, <1>3 DEF IInv, CollectionOK
<1>5. released[r] # 2
  BY <1>1 DEF IInv, RowsOK, ResultOK
<1>6. store' \in [Results -> SUBSET Nat]
  BY <1>1 DEF IInv, TypeOK
<1>7. Removes(r)
  BY <1>1, <1>2, <1>5, <1>6 DEF Removes, IInv, TypeOK
<1>8. RowsOK' /\ \A q \in Results : Bounded(q)'
  BY <1>4, <1>7, RemovesHolds
<1>9. \A c \in Clients : ClientOK(c)'
  BY <1>2, NobodyReads
<1>10. CollectionOK' /\ AllTaken'
  BY <1>2 DEF CollectionOK, AllTaken, GcIdle
<1>11. TypeOK'
  <2>1. gc' \in Collections
    BY <1>2 DEF Collections
  <2>2. Pages' = Pages
    BY <1>2 DEF Pages
  <2> QED
    BY <2>1, <2>2, <1>2, <1>6, <1>8 DEF IInv, TypeOK
<1> QED
  BY <1>8, <1>9, <1>10, <1>11 DEF IInv

LEMMA GcForgetHolds ==
    ASSUME IInv, GcForget
    PROVE  IInv'
<1>1. PICK r : r = gc.result
  OBVIOUS
<1>2. /\ gc.at = "forget" /\ rows' = [rows EXCEPT ![r] = 0] /\ gc' = [gc EXCEPT !.at = "mark"]
      /\ UNCHANGED <<jobRows, shown, cutoff, validity, deps, retention, disk, client>>
  BY <1>1 DEF GcForget
<1>3. gc # GcIdle /\ r \in Results /\ gc.left \in SUBSET Results
  BY <1>1, <1>2, GcTyped DEF IInv
<1>4. gc' = [at |-> "mark", left |-> gc.left, result |-> r]
  BY <1>1, <1>2 DEF IInv, TypeOK, Collections, GcIdle
<1>5. /\ validity[ResultRef(r)] = "expired" /\ store[r] = {}
      /\ \A q \in gc.left : validity[ResultRef(q)] = "expired"
  BY <1>1, <1>2, <1>3 DEF IInv, CollectionOK
<1>6. rows' \in [Results -> Nat] /\ rows'[r] = 0
  BY <1>2, <1>3 DEF IInv, TypeOK
<1>7. Removes(r)
  BY <1>2, <1>5, <1>6 DEF Removes, IInv, TypeOK
<1>8. RowsOK' /\ Protected' = Protected /\ \A q \in Results : Bounded(q)'
  BY <1>3, <1>5, <1>7, RemovesHolds
<1>9. \A c \in Clients : ClientOK(c)'
  BY <1>2, NobodyReads
<1>10. CollectionOK'
  BY <1>2, <1>4, <1>5, <1>6 DEF CollectionOK
<1>11. AllTaken'
  <2>1. ASSUME NEW q \in Results, Done(q) PROVE Done(q)'
    BY <2>1, <1>1, <1>2, <1>4, <1>6 DEF Done, IInv, TypeOK
  <2> QED
    BY <2>1, <1>2, <1>3, <1>8 DEF IInv, AllTaken
<1>12. TypeOK'
  <2>1. gc' \in Collections
    BY <1>3, <1>4 DEF Collections
  <2>2. Pages' = Pages
    BY <1>2 DEF Pages
  <2> QED
    BY <2>1, <2>2, <1>2, <1>6, <1>8 DEF IInv, TypeOK
<1> QED
  BY <1>8, <1>9, <1>10, <1>11, <1>12 DEF IInv

LEMMA GcMarkHolds ==
    ASSUME IInv, GcMark
    PROVE  IInv'
<1>1. PICK r : r = gc.result
  OBVIOUS
<1>2. /\ gc.at = "mark" /\ released' = [released EXCEPT ![r] = 2]
      /\ gc' = [at |-> "unlink", left |-> gc.left]
      /\ UNCHANGED <<jobRows, resultRows, pins, quota, disk, client>>
  BY <1>1 DEF GcMark, GcAt
<1>3. gc # GcIdle /\ r \in Results /\ gc.left \in SUBSET Results
  BY <1>1, <1>2, GcTyped DEF IInv
<1>4. /\ validity[ResultRef(r)] = "expired" /\ store[r] = {} /\ rows[r] = 0
      /\ \A q \in gc.left : validity[ResultRef(q)] = "expired"
  BY <1>1, <1>2, <1>3 DEF IInv, CollectionOK
<1>5. released' \in [Results -> {0, 1, 2}]
  BY <1>2 DEF IInv, TypeOK
<1>6. Removes(r)
  BY <1>2, <1>4, <1>5 DEF Removes, IInv, TypeOK
<1>7. RowsOK' /\ Protected' = Protected /\ \A q \in Results : Bounded(q)'
  BY <1>3, <1>4, <1>6, RemovesHolds
<1>8. \A c \in Clients : ClientOK(c)'
  BY <1>2, NobodyReads
<1>9. CollectionOK'
  BY <1>2, <1>4 DEF CollectionOK
<1>10. AllTaken'
  <2>1. ASSUME NEW q \in Results, Done(q) PROVE Done(q)'
    BY <2>1, <1>1, <1>2, <1>4 DEF Done
  <2> QED
    BY <2>1, <1>2, <1>3, <1>7 DEF IInv, AllTaken
<1>11. TypeOK'
  <2>1. gc' \in Collections
    BY <1>2, <1>3 DEF Collections
  <2>2. Pages' = Pages
    BY <1>2 DEF Pages
  <2> QED
    BY <2>1, <2>2, <1>2, <1>5, <1>7 DEF IInv, TypeOK
<1> QED
  BY <1>7, <1>8, <1>9, <1>10, <1>11 DEF IInv

\* The end of a collection and the end of a coordinator leave the rows alone.
LEMMA StopsHolds ==
    ASSUME IInv, GcSweep \/ Crash
    PROVE  IInv'
<1>1. /\ UNCHANGED <<jobRows, resultRows, retention, store>> /\ gc' = GcIdle
      /\ staging' \in SUBSET Results
  BY DEF GcSweep, Crash, IInv, TypeOK
<1>2. /\ client' \in [Clients -> {Idle} \cup Pages \cup Requests]
      /\ \A c \in Clients : client'[c].at # "page"
  <2>1. CASE GcSweep
    <3>1. client' = client /\ gc # GcIdle
      BY <2>1 DEF GcSweep, GcIdle
    <3> QED
      BY <3>1 DEF IInv, TypeOK, ClientOK
  <2>2. CASE Crash
    BY <2>2 DEF Crash, Idle
  <2> QED
    BY <2>1, <2>2
<1>3. \A c \in Clients : ClientOK(c)'
  BY <1>2 DEF ClientOK
<1>4. SameStanding
  BY <1>1 DEF SameStanding
<1>5. CollectionOK' /\ AllTaken'
  BY <1>1 DEF CollectionOK, AllTaken, GcIdle
<1>6. TypeOK'
  <2>1. gc' \in Collections
    BY <1>1 DEF Collections
  <2>2. Pages' = Pages
    BY <1>1 DEF Pages
  <2> QED
    BY <2>1, <2>2, <1>1, <1>2 DEF IInv, TypeOK, Bounded
<1> QED
  BY <1>3, <1>4, <1>5, <1>6, RowsKept DEF IInv

-----------------------------------------------------------------------------
(* The invariant of the specification.                                     *)

LEMMA NextHolds == IInv /\ [Next]_vars => IInv'
<1> SUFFICES ASSUME IInv, [Next]_vars PROVE IInv'
  OBVIOUS
<1>1. CASE Submission
  <2>1. ASSUME NEW s \in Sources, Open(s) PROVE IInv'
    BY <2>1, OpenHolds
  <2>2. ASSUME NEW s \in Sources, Invalidate(s) PROVE IInv'
    BY <2>2, InvalidateHolds
  <2>3. ASSUME NEW c \in Clients, NEW refs \in SUBSET {n \in Refs : Bindable(n)},
               NEW b \in Budgets, NEW k \in Asked \ {"export"}, Resolve(c, k, refs, b)
        PROVE  IInv'
    BY <2>3, ResolveHolds, ConstantsTyped
  <2>4. ASSUME NEW c \in Clients, NEW refs \in SUBSET {n \in Refs : Bindable(n)},
               Resolve(c, "export", refs, 0)
        PROVE  IInv'
    BY <2>4, ResolveHolds DEF Kinds
  <2>5. ASSUME NEW c \in Clients, Refuse(c) PROVE IInv'
    BY <2>5, RefuseHolds
  <2>6. ASSUME NEW c \in Clients, NEW r \in Results, Submit(c, r) PROVE IInv'
    BY <2>6, SubmitHolds
  <2> QED
    BY <1>1, <2>1, <2>2, <2>3, <2>4, <2>5, <2>6 DEF Submission
<1>2. CASE Execution
  BY <1>2, StageHolds, PublishHolds, CompleteQueryHolds, CompletePrepareHolds,
     EndOtherwiseHolds
  DEF Execution
<1>3. CASE Reading
  BY <1>3, EndPageHolds, StartPageHolds DEF Reading
<1>4. CASE Keeping
  BY <1>4, RetainHolds, ConfigureHolds DEF Keeping
<1>5. CASE Collection
  BY <1>5, GcSelectHolds, GcForgetHolds, GcMarkHolds, StopsHolds, GcUnlinkHolds, GcFailsHolds
  DEF Collection
<1>6. CASE Crash
  BY <1>6, StopsHolds
<1>7. CASE UNCHANGED vars
  <2>1. SameStanding
    BY <1>7 DEF vars, SameStanding
  <2>2. TypeOK'
    BY <1>7 DEF vars, IInv, TypeOK, Bounded, Pages
  <2>3. (\A c \in Clients : ClientOK(c)') /\ CollectionOK'
    BY <1>7 DEF vars, IInv, ClientOK, CollectionOK
  <2>4. AllTaken'
    BY <1>7 DEF vars, IInv, AllTaken, Done, Protected, Above, Roots, Retained
  <2> QED
    BY <2>1, <2>2, <2>3, <2>4, RowsKept DEF IInv
<1> QED
  BY <1>1, <1>2, <1>3, <1>4, <1>5, <1>6, <1>7 DEF Next

\* Every reachable state satisfies the invariant.
THEOREM RetentionInductive == Spec => []IInv
<1>1. Init => IInv
  BY InitHolds
<1>2. IInv /\ [Next]_vars => IInv'
  BY NextHolds
<1> QED
  BY <1>1, <1>2, PTL DEF Spec

\* The types, and the bytes of a result within what its job was given.
THEOREM TypeCorrect == Spec => []TypeOK
<1>1. IInv => TypeOK
  BY DEF IInv
<1> QED
  BY <1>1, RetentionInductive, PTL

\* Whatever does not read as expired has all its parts, in the middle of a
\* collection and after a crash in one (storage::workspace, Db::object).
THEOREM TombstonesFirst == Spec => []TombstoneFirst
<1>1. IInv => TombstoneFirst
  BY DEF IInv, RowsOK, ResultOK, DatasetOK, TombstoneFirst
<1> QED
  BY <1>1, RetentionInductive, PTL

\* Collection never takes what an active job reads (api::submit,
\* storage::workspace), in any order of submissions, releases and collections.
THEOREM InputsStay == Spec => []ActiveInputsKept
<1>1. IInv => ActiveInputsKept
  <2> SUFFICES ASSUME IInv, NEW r \in Results, job[r] = "active", NEW n \in inputs[r],
                      n \in Managed
               PROVE  /\ validity[n] # "expired"
                      /\ \A p \in 1 .. cutoff[n[2]] : Available(n[2], p)
    BY DEF ActiveInputsKept, ActiveJobs
  <2>1. validity[n] \notin {"absent", "expired"}
    BY DEF IInv, RowsOK, InputsOK
  <2>2. PICK q \in Results : n \in {ResultRef(q), DatasetRef(q)} /\ n[2] = q
    BY ManagedRefs
  <2>3. validity[ResultRef(q)] # "expired"
    BY <2>1, <2>2 DEF IInv, RowsOK, DatasetOK
  <2> QED
    BY <2>1, <2>2, <2>3 DEF IInv, RowsOK, ResultOK
<1> QED
  BY <1>1, RetentionInductive, PTL

\* The parts of a page outlive the read of it (results::read).
THEOREM PagesStay == Spec => []PageStaysReadable
<1>1. IInv => PageStaysReadable
  BY DEF IInv, RowsOK, ResultOK, ClientOK, PageStaysReadable
<1> QED
  BY <1>1, RetentionInductive, PTL

-----------------------------------------------------------------------------
(* What steps never do.                                                    *)

\* Expired for ever: neither a changed source, nor a retention, nor a job
\* brings back what was collected.
LEMMA StepExpires ==
    ASSUME IInv, Next, NEW n \in Refs, validity[n] = "expired"
    PROVE  validity'[n] = "expired"
<1>0. validity \in [Refs -> Validity]
  BY DEF IInv, TypeOK
<1>1. ASSUME NEW refs, validity' = Invalidated(refs) PROVE validity'[n] = "expired"
  BY <1>1, <1>0 DEF Invalidated
<1>2. ASSUME NEW chosen, validity' = Tombstoned(chosen) PROVE validity'[n] = "expired"
  BY <1>2, <1>0 DEF Tombstoned
<1>3. ASSUME NEW s \in Sources, Open(s) PROVE validity'[n] = "expired"
  BY <1>3, <1>0 DEF Open
<1>4. ASSUME NEW c \in Clients, NEW r \in Results, Submit(c, r)
      PROVE  validity'[n] = "expired"
  <2>1. validity[ResultRef(r)] # "expired"
    BY <1>4 DEF Submit, IInv, RowsOK, ResultOK
  <2> QED
    BY <2>1, <1>4, <1>0 DEF Submit
<1>5. ASSUME NEW r \in Results, CompletePrepare(r) PROVE validity'[n] = "expired"
  <2>1. validity[DatasetRef(r)] # "expired"
    BY <1>5 DEF CompletePrepare, IInv, RowsOK, ResultOK
  <2> QED
    BY <2>1, <1>5, <1>0 DEF CompletePrepare
<1>6. CASE Submission
  BY <1>6, <1>1, <1>3, <1>4 DEF Submission, Invalidate, Resolve, Refuse
<1>7. CASE Execution
  BY <1>7, <1>5 DEF Execution, Stage, Publish, CompleteQuery, EndOtherwise
<1>8. CASE Reading \/ Keeping \/ Crash
  BY <1>8 DEF Reading, StartPage, EndPage, Keeping, Retain, Configure, Crash
<1>9. CASE Collection
  BY <1>9, <1>2 DEF Collection, GcSelect, GcUnlink, GcFails, GcForget, GcMark, GcSweep
<1> QED
  BY <1>6, <1>7, <1>8, <1>9 DEF Next

\* Nothing turns an expired reference into another (Db::invalidate,
\* storage::retain).
THEOREM ExpiryIsFinal == Spec => ExpiredForever
<1>1. IInv /\ [Next]_vars =>
         [\A n \in Refs : validity[n] = "expired" => validity'[n] = "expired"]_vars
  BY StepExpires
<1> QED
  BY <1>1, RetentionInductive, PTL DEF Spec, ExpiredForever

\* Only a collection makes a result expire.
LEMMA OnlyCollectionExpires ==
    ASSUME IInv, Next, NEW r \in Results,
           validity[ResultRef(r)] # "expired", validity'[ResultRef(r)] = "expired"
    PROVE  GcSelect
<1>0. validity \in [Refs -> Validity] /\ ResultRef(r) \in Refs
  BY RefsDiffer DEF IInv, TypeOK
<1>1. CASE Submission
  <2>1. ASSUME NEW refs, validity' = Invalidated(refs) PROVE FALSE
    BY <2>1, <1>0 DEF Invalidated
  <2>2. ASSUME NEW s \in Sources, Open(s) PROVE FALSE
    BY <2>2, <1>0, RefsDiffer DEF Open
  <2>3. ASSUME NEW c \in Clients, NEW q \in Results, Submit(c, q) PROVE FALSE
    BY <2>3, <1>0 DEF Submit
  <2> QED
    BY <1>1, <2>1, <2>2, <2>3 DEF Submission, Invalidate, Resolve, Refuse
<1>2. CASE Execution
  <2>1. ASSUME NEW q \in Results, CompletePrepare(q) PROVE FALSE
    BY <2>1, <1>0 DEF CompletePrepare
  <2> QED
    BY <1>2, <2>1 DEF Execution, Stage, Publish, CompleteQuery, EndOtherwise
<1>3. CASE Reading \/ Keeping \/ Crash
  BY <1>3 DEF Reading, StartPage, EndPage, Keeping, Retain, Configure, Crash
<1>4. CASE Collection
  BY <1>4 DEF Collection, GcUnlink, GcFails, GcForget, GcMark, GcSweep
<1> QED
  BY <1>1, <1>2, <1>3, <1>4 DEF Next

\* Retention is respected: what expires was released, and nothing retained
\* and no active job is built from it, through any number of dependencies.
THEOREM RetentionRespected == Spec => ExpiryRespectsRetention
<1> DEFINE Respects ==
       \A r \in Results :
          validity[ResultRef(r)] # "expired" /\ validity'[ResultRef(r)] = "expired" =>
             /\ released[r] = 1
             /\ \A user \in Roots : ResultRef(user) \notin Below({ResultRef(r)})
<1>1. ASSUME IInv, Next, NEW r \in Results,
             validity[ResultRef(r)] # "expired", validity'[ResultRef(r)] = "expired"
      PROVE  /\ released[r] = 1
             /\ \A user \in Roots : ResultRef(user) \notin Below({ResultRef(r)})
  <2>1. PICK chosen \in Batches : validity' = Tombstoned(chosen)
    BY <1>1, OnlyCollectionExpires DEF GcSelect
  <2>2. /\ chosen \subseteq Results
        /\ \A q \in chosen : Collectible(q) /\ ResultRef(q) \notin Protected
    BY ChosenAreFree
  <2>3. r \in chosen
    BY <1>1, <2>1, <2>2, RefsDiffer, ManagedRefs DEF Tombstoned
  <2>4. released[r] = 1
    BY <1>1, <2>2, <2>3 DEF Collectible
  <2>5. ASSUME NEW user \in Roots, ResultRef(user) \in Below({ResultRef(r)}) PROVE FALSE
    <3>1. ResultRef(user) \in Protected
      BY AboveClosed DEF Protected
    <3>2. \E m \in {ResultRef(r)} : m \in Protected
      BY <2>5, <3>1, BelowMeetsAbove DEF Protected
    <3> QED
      BY <3>2, <2>2, <2>3
  <2> QED
    BY <2>4, <2>5
<1>2. IInv /\ [Next]_vars => [Respects]_vars
  BY <1>1
<1> QED
  BY <1>2, RetentionInductive, PTL DEF Spec, ExpiryRespectsRetention

\* A collection that has come through its batch has taken all it could
\* take, what the collections before it left behind included.
THEOREM CollectionsComplete == Spec => CollectionCompletes
<1> DEFINE Complete ==
       gc.at = "unlink" /\ gc.left = {} /\ gc'.at = "idle" =>
          \A r \in Results :
             /\ Cardinality(Results) <= Batch
             /\ job[r] = "over" /\ validity[ResultRef(r)] = "expired"
             /\ ResultRef(r) \notin Protected
             => store'[r] = {} /\ rows'[r] = 0
<1>1. ASSUME IInv, Next, gc.at = "unlink", gc.left = {}, gc'.at = "idle"
      PROVE  UNCHANGED <<rows, store>>
  <2>1. ~Free /\ gc' # gc
    BY <1>1 DEF Free
  <2>2. ~Submission /\ ~Execution /\ ~Reading /\ ~Keeping
    BY <2>1 DEF Submission, Open, Invalidate, Resolve, Refuse, Submit, Execution, Stage, Publish,
       CompleteQuery, CompletePrepare, EndOtherwise, Reading, StartPage, EndPage, Keeping,
       Retain, Configure
  <2>3. ~GcSelect /\ ~GcForget /\ ~GcMark /\ \A r \in Results : ~GcUnlink(r) /\ ~GcFails(r)
    BY <1>1 DEF GcSelect, GcForget, GcMark, GcUnlink, GcFails, GcAt, Free
  <2>4. GcSweep \/ Crash
    BY <1>1, <2>2, <2>3 DEF Next, Collection
  <2> QED
    BY <2>4 DEF GcSweep, Crash
<1>2. ASSUME IInv, Next, gc.at = "unlink", gc.left = {}, gc'.at = "idle"
      PROVE  Complete
  <2>1. gc # GcIdle
    BY <1>2 DEF GcIdle
  <2>2. \A r \in Results : Done(r) => store'[r] = {} /\ rows'[r] = 0
    BY <1>1, <1>2 DEF Done
  <2>3. ASSUME NEW r \in Results, Cardinality(Results) <= Batch, job[r] = "over",
               validity[ResultRef(r)] = "expired", ResultRef(r) \notin Protected
        PROVE  Done(r)
    BY <2>1, <2>3, <1>2 DEF IInv, AllTaken
  <2> QED
    BY <2>2, <2>3
<1>3. IInv /\ [Next]_vars => [Complete]_vars
  BY <1>2
<1> QED
  BY <1>3, RetentionInductive, PTL DEF Spec, CollectionCompletes

-----------------------------------------------------------------------------
(***************************************************************************)
(* The quota.  What is stored grows up to what was reserved when a job was *)
(* submitted, so what is kept within the quota is what every result may    *)
(* come to: all its job asked for while it is active, its rows afterwards. *)
(***************************************************************************)
Committed == [r \in Results |-> IF job[r] = "active" THEN budget[r] ELSE rows[r]]
Commitments == SumFunctionOnSet(Committed, Results)

QuotaKept == quota # 0 => Commitments <= quota

\* An export writes nothing into the workspace.
ExportsAreFree ==
    /\ \A r \in Results : kind[r] = "export" => budget[r] = 0
    /\ \A c \in Clients :
          client[c].at = "resolved" /\ client[c].kind = "export" => client[c].budget = 0
QInv == ExportsAreFree /\ QuotaKept

SizesOK ==
    /\ rows \in [Results -> Nat] /\ budget \in [Results -> Nat] /\ quota \in Nat
    /\ \A r \in Results : Committed[r] \in Nat /\ rows[r] <= Committed[r]

LEMMA SizesTyped ==
    /\ IInv => SizesOK
    /\ IInv' => SizesOK'
    /\ IsFiniteSet(Results) /\ Spill \in Nat /\ Quotas \subseteq Nat
<1>1. /\ IsFiniteSet(Results) /\ Spill \in Nat /\ Quotas \subseteq Nat
      /\ Budgets \cup {0} \subseteq Nat
  BY SetsAssumption, BoundsAssumption DEF SetsAssumption, BoundsAssumption
<1>2. IInv => SizesOK
  BY <1>1 DEF IInv, TypeOK, Bounded, SizesOK, Committed
<1>3. IInv' => SizesOK'
  BY <1>1 DEF IInv, TypeOK, Bounded, SizesOK, Committed
<1> QED
  BY <1>1, <1>2, <1>3

LEMMA CommitmentsTyped ==
    /\ SizesOK => Commitments \in Nat /\ Stored \in Nat /\ Stored <= Commitments
    /\ SizesOK' => Commitments' \in Nat
<1>1. SizesOK => Commitments \in Nat /\ Stored \in Nat /\ Stored <= Commitments
  <2> HIDE DEF Committed
  <2> QED
    BY SizesTyped, SumMonotone, SumIsNat DEF SizesOK, Commitments, Stored
<1>2. SizesOK' => Commitments' \in Nat
  <2> HIDE DEF Committed
  <2>1. SizesOK' => SumFunctionOnSet(Committed', Results) \in Nat
    BY SizesTyped, SumIsNat DEF SizesOK
  <2> QED
    BY <2>1 DEF Commitments
<1> QED
  BY <1>1, <1>2

\* What is stored and what is reserved cover what the results may come to.
LEMMA ReservedCovers ==
    ASSUME IInv, ExportsAreFree
    PROVE  Stored + Reserved \in Nat /\ Commitments <= Stored + Reserved
<1> DEFINE both == [r \in Results |-> rows[r] + Reserves[r]]
<1>1. \A r \in Results : rows[r] \in Nat /\ Reserves[r] \in Nat
  BY SizesTyped DEF SizesOK, Reserves
<1>2. \A r \in Results : /\ both[r] = rows[r] + Reserves[r] /\ both[r] \in Int
                         /\ Committed[r] \in Int /\ Committed[r] <= both[r]
  <2> SUFFICES ASSUME NEW r \in Results
               PROVE  both[r] \in Int /\ Committed[r] \in Int /\ Committed[r] <= both[r]
    OBVIOUS
  <2>1. rows[r] \in Nat /\ budget[r] \in Nat /\ Spill \in Nat
    BY SizesTyped DEF SizesOK
  <2>2. job[r] = "active" /\ kind[r] = "export" => budget[r] = 0
    BY DEF ExportsAreFree
  <2> QED
    BY <2>1, <2>2 DEF Committed, Reserves
<1> HIDE DEF both
<1>3. SumFunctionOnSet(both, Results) = Stored + Reserved
  BY <1>1, <1>2, SizesTyped, SumOfSums DEF SizesOK, Stored, Reserved
<1>4. Stored \in Nat /\ Reserved \in Nat
  BY <1>1, SizesTyped, SumIsNat DEF SizesOK, Stored, Reserved
<1>5. Commitments <= SumFunctionOnSet(both, Results)
  BY <1>2, SizesTyped, SumMonotone DEF SizesOK, Commitments
<1> QED
  BY <1>3, <1>4, <1>5

\* A step that lets no result come to more keeps them within the quota.
LEMMA CommitmentsFall ==
    ASSUME IInv, IInv', QuotaKept, UNCHANGED quota,
           \A r \in Results : Committed'[r] <= Committed[r]
    PROVE  QuotaKept'
<1>1. \A r \in Results : Committed[r] \in Int /\ Committed'[r] \in Int
  BY SizesTyped DEF SizesOK
<1>2. SumFunctionOnSet(Committed', Results) <= SumFunctionOnSet(Committed, Results)
  <2> HIDE DEF Committed
  <2> QED
    BY <1>1, SizesTyped, SumMonotone DEF SizesOK
<1>3. Commitments' <= Commitments
  BY <1>2 DEF Commitments
<1> QED
  BY <1>3, CommitmentsTyped, SizesTyped DEF SizesOK, QuotaKept

LEMMA SubmitQuota ==
    ASSUME IInv, IInv', QInv, NEW c \in Clients, NEW r \in Results, Submit(c, r)
    PROVE  QuotaKept'
<1> DEFINE b == client[c].budget
<1>1. /\ client[c].at = "resolved" /\ Admits(client[c].kind, b)
      /\ job[r] = "absent" /\ job' = [job EXCEPT ![r] = "active"]
      /\ budget' = [budget EXCEPT ![r] = b] /\ UNCHANGED <<rows, quota>>
  BY DEF Submit
<1>2. rows[r] = 0 /\ b \in Nat
  <2>1. budget'[r] = b
    BY <1>1, SizesTyped DEF SizesOK
  <2> QED
    BY <2>1, <1>1, SizesTyped DEF SizesOK, IInv, RowsOK, ResultOK
<1>3. Committed'[r] = b /\ Committed[r] = 0
  BY <1>1, <1>2, SizesTyped DEF SizesOK, Committed, IInv, TypeOK
<1>4. \A q \in Results : q # r => Committed'[q] = Committed[q]
  BY <1>1, SizesTyped DEF SizesOK, Committed, IInv, TypeOK
<1>5. \A q \in Results : /\ Committed[q] \in Int /\ Committed'[q] \in Int
                         /\ q # r => Committed'[q] = Committed[q]
  BY <1>4, SizesTyped DEF SizesOK
<1>6. Commitments' = Commitments - 0 + b
  <2>1. SumFunctionOnSet(Committed', Results)
           = SumFunctionOnSet(Committed, Results) - Committed[r] + Committed'[r]
    <3> HIDE DEF Committed, b
    <3> QED
      BY <1>5, SizesTyped, SumChanged
  <2> HIDE DEF Committed
  <2> QED
    BY <2>1, <1>3 DEF Commitments
<1>7. Commitments \in Nat
  BY CommitmentsTyped, SizesTyped
<1>8. CASE client[c].kind = "export"
  BY <1>1, <1>2, <1>6, <1>7, <1>8 DEF QInv, QuotaKept, ExportsAreFree
<1>9. CASE client[c].kind # "export"
  <2>1. quota # 0 => Stored + Reserved + b + Spill <= quota
    BY <1>1, <1>9 DEF Admits
  <2>2. Stored + Reserved \in Nat /\ Commitments <= Stored + Reserved
    BY ReservedCovers DEF QInv
  <2>3. Spill \in Nat /\ quota \in Nat
    BY SizesTyped DEF SizesOK
  <2> HIDE DEF b
  <2>4. quota # 0 => Commitments + b <= quota
    BY <2>1, <2>2, <2>3, <1>2, <1>7
  <2> QED
    BY <2>4, <1>1, <1>2, <1>6, <1>7 DEF QuotaKept
<1> QED
  BY <1>8, <1>9

LEMMA ConfigureQuota ==
    ASSUME IInv, IInv', QInv, NEW q \in Quotas, Configure(q)
    PROVE  QuotaKept'
<1>1. (q = 0 \/ Stored + Reserved <= q) /\ quota' = q /\ UNCHANGED <<job, budget, rows>>
  BY DEF Configure
<1>2. Commitments' = Commitments
  BY <1>1 DEF Commitments, Committed
<1>3. /\ Stored + Reserved \in Nat /\ Commitments <= Stored + Reserved
      /\ Commitments \in Nat /\ q \in Nat
  BY ReservedCovers, CommitmentsTyped, SizesTyped DEF QInv
<1> QED
  BY <1>1, <1>2, <1>3 DEF QuotaKept

LEMMA ExportsKept ==
    ASSUME IInv, ExportsAreFree, [Next]_vars
    PROVE  ExportsAreFree'
<1> USE DEF ExportsAreFree
<1>0. /\ client \in [Clients -> {Idle} \cup Pages \cup Requests]
      /\ kind \in [Results -> Kinds] /\ budget \in [Results -> Nat]
  BY SizesTyped DEF SizesOK, IInv, TypeOK
<1>1. ASSUME NEW c \in Clients, UNCHANGED <<kind, budget>>, NEW x,
             client' = [client EXCEPT ![c] = x],
             x.at = "resolved" /\ x.kind = "export" => x.budget = 0
      PROVE  ExportsAreFree'
  BY <1>0, <1>1
<1>2. Idle.at = "idle" /\ \A r, parts : Page(r, parts).at = "page"
  BY DEF Idle, Page
<1>3. ASSUME NEW c \in Clients, NEW refs, NEW k, NEW b, Resolve(c, k, refs, b),
             k = "export" => b = 0
      PROVE  ExportsAreFree'
  <2>1. client' = [client EXCEPT ![c] = Request(k, refs, b)] /\ UNCHANGED <<kind, budget>>
    BY <1>3 DEF Resolve
  <2>2. Request(k, refs, b).kind = k /\ Request(k, refs, b).budget = b
    BY DEF Request
  <2> QED
    BY <2>1, <2>2, <1>1, <1>3
<1>4. ASSUME NEW c \in Clients, NEW r \in Results, Submit(c, r)
      PROVE  ExportsAreFree'
  <2>1. /\ client[c].at = "resolved" /\ client' = [client EXCEPT ![c] = Idle]
        /\ kind' = [kind EXCEPT ![r] = client[c].kind]
        /\ budget' = [budget EXCEPT ![r] = client[c].budget]
    BY <1>4 DEF Submit
  <2> QED
    BY <2>1, <1>0, <1>2
<1>5. CASE Submission
  <2>1. ASSUME NEW c \in Clients, Refuse(c) PROVE ExportsAreFree'
    BY <2>1, <1>1, <1>2 DEF Refuse
  <2>2. ASSUME NEW s \in Sources, Open(s) \/ Invalidate(s) PROVE ExportsAreFree'
    BY <2>2 DEF Open, Invalidate
  <2> QED
    BY <1>5, <1>3, <1>4, <2>1, <2>2 DEF Submission
<1>6. CASE Execution
  BY <1>6 DEF Execution, Stage, Publish, CompleteQuery, CompletePrepare, EndOtherwise
<1>7. CASE Reading
  BY <1>7, <1>1, <1>2 DEF Reading, StartPage, EndPage
<1>8. CASE Keeping \/ Collection
  BY <1>8 DEF Keeping, Retain, Configure, Collection, GcSelect, GcUnlink, GcFails, GcForget,
     GcMark, GcSweep
<1>9. CASE Crash
  BY <1>9, <1>2 DEF Crash
<1>10. CASE UNCHANGED vars
  BY <1>10 DEF vars
<1> QED
  BY <1>5, <1>6, <1>7, <1>8, <1>9, <1>10 DEF Next

LEMMA QuotaKeptByNext ==
    ASSUME IInv, IInv', QInv, [Next]_vars
    PROVE  QuotaKept'
<1>1. ASSUME UNCHANGED <<job, budget, rows, quota>> PROVE QuotaKept'
  BY <1>1 DEF QInv, QuotaKept, Commitments, Committed
<1>2. /\ job \in [Results -> {"absent", "active", "over"}] /\ rows \in [Results -> Nat]
      /\ \A r \in Results : rows[r] \in Nat /\ budget[r] \in Nat /\ rows[r] <= budget[r]
  BY SizesTyped DEF SizesOK, IInv, TypeOK, Bounded
<1>3. ASSUME NEW r \in Results, UNCHANGED <<budget, rows, quota>>,
             job' = [job EXCEPT ![r] = "over"], job[r] = "active"
      PROVE  QuotaKept'
  BY <1>3, <1>2, CommitmentsFall DEF QInv, Committed
<1>4. ASSUME NEW r \in Results, NEW preview, Publish(r, preview) PROVE QuotaKept'
  <2>1. /\ job[r] = "active" /\ rows' = [rows EXCEPT ![r] = rows[r] + 1]
        /\ UNCHANGED <<job, budget, quota>>
    BY <1>4 DEF Publish
  <2>2. Committed' = Committed
    BY <2>1, <1>2 DEF Committed
  <2> QED
    BY <2>1, <2>2 DEF QInv, QuotaKept, Commitments
<1>5. ASSUME GcForget PROVE QuotaKept'
  <2>1. rows' = [rows EXCEPT ![gc.result] = 0] /\ UNCHANGED <<job, budget, quota>>
    BY <1>5 DEF GcForget
  <2> QED
    BY <2>1, <1>2, CommitmentsFall DEF QInv, Committed
<1>6. CASE Submission
  BY <1>6, <1>1, SubmitQuota DEF Submission, Open, Invalidate, Resolve, Refuse
<1>7. CASE Execution
  BY <1>7, <1>1, <1>3, <1>4
  DEF Execution, Stage, CompleteQuery, CompletePrepare, EndOtherwise
<1>8. CASE Reading \/ Crash
  BY <1>8, <1>1 DEF Reading, StartPage, EndPage, Crash
<1>9. CASE Keeping
  BY <1>9, <1>1, ConfigureQuota DEF Keeping, Retain
<1>10. CASE Collection
  BY <1>10, <1>1, <1>5 DEF Collection, GcSelect, GcUnlink, GcFails, GcMark, GcSweep
<1>11. CASE UNCHANGED vars
  BY <1>11, <1>1 DEF vars
<1> QED
  BY <1>6, <1>7, <1>8, <1>9, <1>10, <1>11 DEF Next

\* What is stored never exceeds the quota, however jobs are submitted, fill
\* what they asked for, end and are collected while the quota changes
\* (storage::admit, configure).
THEOREM QuotaIsKept == Spec => []QuotaHolds
<1>1. Init => QInv
  <2>1. ASSUME Init PROVE QuotaKept /\ ExportsAreFree
    BY <2>1 DEF Init, QuotaKept, ExportsAreFree, Idle
  <2> QED
    BY <2>1 DEF QInv
<1>2. IInv /\ IInv' /\ QInv /\ [Next]_vars => QInv'
  BY ExportsKept, QuotaKeptByNext DEF QInv
<1>3. IInv /\ QInv => QuotaHolds
  BY CommitmentsTyped, SizesTyped DEF SizesOK, QInv, QuotaKept, QuotaHolds
<1> QED
  BY <1>1, <1>2, <1>3, RetentionInductive, PTL DEF Spec
=============================================================================
