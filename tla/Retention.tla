----------------------------- MODULE Retention -----------------------------
(***************************************************************************)
(* What a workspace keeps and what it may forget: results and prepared     *)
(* datasets with their part files, the jobs that read them, clients that   *)
(* page through them, pins and releases, garbage collection and the quota. *)
(*                                                                         *)
(* Sources: crates/runtime/src/{storage,api,results,db,prepare}.rs.        *)
(*                                                                         *)
(* Every handler takes the connection's mutex; page reads, resolve, submit *)
(* and retain also share a read lock that collection takes for writing.    *)
(* Collection holds both from its transaction to its last unlink, so a     *)
(* step here is one handler, except that a page read and a collection are  *)
(* taken apart, and that a submission lets go of both locks between        *)
(* resolve and submit.                                                     *)
(*                                                                         *)
(* How a job executes is JobExecution; here it is active, then over.       *)
(***************************************************************************)
EXTENDS Naturals, FiniteSets, Functions

CONSTANTS
    Results,     \* results; each is filled by one job and has its id
    Sources,     \* manifests of files outside the workspace
    Clients,     \* requests handled at the same time
    Inline,      \* sequence numbers of parts small enough for SQLite
    Asked,       \* kinds of jobs that clients ask for
    MaxInputs,   \* bound: bindings of one query
    Budgets,     \* result_bytes that queries ask for
    Spill,       \* spill_bytes that queries ask for
    Quotas,      \* values of storage_quota_bytes, 0 for none
    Batch        \* results one collection takes

ASSUME SetsAssumption ==
    /\ IsFiniteSet(Results) /\ Inline \subseteq Nat /\ Budgets \subseteq Nat
    /\ Quotas \subseteq Nat /\ Asked \subseteq {"query", "prepare", "export"}
ASSUME BoundsAssumption ==
    MaxInputs \in Nat /\ Spill \in Nat /\ Batch \in Nat

ResultRef(r) == <<"result", r>>
DatasetRef(r) == <<"dataset", r>>  \* a managed dataset with its manifest
SourceRef(s) == <<"source", s>>
ResultRefs == {ResultRef(r) : r \in Results}
DatasetRefs == {DatasetRef(r) : r \in Results}
Managed == ResultRefs \cup DatasetRefs
Refs == Managed \cup {SourceRef(s) : s \in Sources}

Kinds == {"query", "prepare", "export"}
Validity == {"absent", "valid", "source_changed", "expired"}

VARIABLES
    \* SQLite: jobs, results, parts, revisions, objects, deps, retention, pins
    job,        \* jobs.state of the job that fills a result
    kind,       \* whether its specification is a query, a prepare, an export
    inputs,     \* source_ref of the bindings in its specification
    budget,     \* result_bytes in its specification
    rows,       \* number of rows in parts
    shown,      \* the head revision: none, partial or final
    cutoff,     \* parts the head revision or the manifest names
    validity,   \* results.validity and objects.validity
    deps,       \* <<child, parent>>
    released,   \* retention.released, 0 without a row
    pins,       \* objects in pins
    quota,      \* meta.storage_quota_bytes
    \* files
    store,      \* files of a result under store/
    staging,    \* results whose attempt has a directory in staging/ or spill/
    \* the coordinator process
    client,     \* what each request has in hand
    gc          \* where collection stands

jobRows == <<job, kind, inputs, budget>>
resultRows == <<rows, shown, cutoff, validity, deps>>
retention == <<released, pins, quota>>
disk == <<store, staging>>
vars == <<jobRows, resultRows, retention, disk, client, gc>>

Idle == [at |-> "idle"]
Page(r, parts) == [at |-> "page", result |-> r, parts |-> parts]
Request(k, refs, b) == [at |-> "resolved", kind |-> k, inputs |-> refs, budget |-> b]

GcIdle == [at |-> "idle"]
GcAt(place, left) == [at |-> place, left |-> left]

Init ==
    /\ job = [r \in Results |-> "absent"]
    /\ kind = [r \in Results |-> "query"]
    /\ inputs = [r \in Results |-> {}]
    /\ budget = [r \in Results |-> 0]
    /\ rows = [r \in Results |-> 0]
    /\ shown = [r \in Results |-> "none"]
    /\ cutoff = [r \in Results |-> 0]
    /\ validity = [n \in Refs |-> "absent"]
    /\ deps = {}
    /\ released = [r \in Results |-> 0]
    /\ pins = {}
    /\ quota = 0
    /\ store = [r \in Results |-> {}]
    /\ staging = {}
    /\ client = [c \in Clients |-> Idle]
    /\ gc = GcIdle

(***************************************************************************)
(* Derived from the rows.                                                  *)
(***************************************************************************)
ActiveJobs == {r \in Results : job[r] = "active"}

\* Prepared parts are Parquet files, never inline.
InSqlite(r, p) == kind[r] = "query" /\ p \in Inline
Available(r, p) == IF InSqlite(r, p) THEN p <= rows[r] ELSE p \in store[r]

\* What a set of references is built from, and what is built from it: the
\* least closed set around it, which no reference without an edge is in.
Above(refs) ==
    LET near == refs \cup {d[2] : d \in deps}
        closed == {T \in SUBSET near : /\ refs \subseteq T
                                       /\ \A d \in deps : d[1] \in T => d[2] \in T}
    IN  {n \in near : \A T \in closed : n \in T}
Below(refs) ==
    LET near == refs \cup {d[1] : d \in deps}
        closed == {T \in SUBSET near : /\ refs \subseteq T
                                       /\ \A d \in deps : d[2] \in T => d[1] \in T}
    IN  {n \in near : \A T \in closed : n \in T}

Stored == SumFunctionOnSet(rows, Results)
Reserves == [r \in Results |->
    IF job[r] = "active" /\ kind[r] # "export" THEN budget[r] + Spill ELSE 0]
Reserved == SumFunctionOnSet(Reserves, Results)

\* Mistake: what active jobs may still write is not counted.
AdmitsStored(k, b) == k # "export" /\ quota # 0 => Stored + b + Spill <= quota

\* storage::admit; an export has no query and is not asked.
Admits(k, b) ==
    k # "export" /\ quota # 0 => Stored + Reserved + b + Spill <= quota

(***************************************************************************)
(* Locks.  A page read holds the read lock; a collection holds the write   *)
(* lock and the connection, which every other handler needs.               *)
(***************************************************************************)
Free == gc.at = "idle"
NoReader == \A c \in Clients : client[c].at # "page"

(***************************************************************************)
(* Sources: open, and the invalidation that a changed file causes when     *)
(* resolve or a worker finds it.  What depends on it is invalid too,       *)
(* unless it has expired already.                                          *)
(***************************************************************************)
Open(s) ==
    /\ Free
    /\ validity[SourceRef(s)] = "absent"
    /\ validity' = [validity EXCEPT ![SourceRef(s)] = "valid"]
    /\ UNCHANGED <<jobRows, rows, shown, cutoff, deps, retention, disk, client, gc>>

\* Mistake: expired references are marked too.
InvalidatedAll(refs) ==
    [n \in Refs |-> IF n \in refs /\ validity[n] # "absent"
                    THEN "source_changed" ELSE validity[n]]

Invalidated(refs) ==
    [n \in Refs |-> IF n \in refs /\ validity[n] \notin {"absent", "expired"}
                    THEN "source_changed" ELSE validity[n]]

Invalidate(s) ==
    /\ Free
    /\ validity[SourceRef(s)] # "absent"
    /\ validity' = Invalidated(Below({SourceRef(s)}))
    /\ UNCHANGED <<jobRows, rows, shown, cutoff, deps, retention, disk, client, gc>>

(***************************************************************************)
(* Submissions.  resolve looks at the bindings, lets go of the locks, and  *)
(* submit looks at them again in the transaction that inserts the job.     *)
(***************************************************************************)
Bindable(n) ==
    /\ validity[n] = "valid"
    /\ n \in ResultRefs => shown[n[2]] # "none"

\* prepare takes a dataset, snapshot a dataset or a final revision, export a
\* revision, a query whatever it binds.
Binds(k, refs) ==
    CASE k = "query" -> Cardinality(refs) <= MaxInputs
      [] k = "prepare" -> \E n \in Refs : /\ refs = {n}
                                          /\ n \in ResultRefs => shown[n[2]] = "final"
      [] k = "export" -> \E n \in ResultRefs : refs = {n}

Resolve(c, k, refs, b) ==
    /\ Free
    /\ client[c] = Idle
    /\ Binds(k, refs)
    /\ client' = [client EXCEPT ![c] = Request(k, refs, b)]
    /\ UNCHANGED <<jobRows, resultRows, retention, disk, gc>>

\* Mistake: what resolve found is taken for granted.
StillValidOnce(refs) == \A n \in refs : validity[n] # "absent"

StillValid(refs) == \A n \in refs : validity[n] = "valid"

Submit(c, r) ==
    LET request == client[c]
    IN  /\ Free
        /\ request.at = "resolved"
        /\ Admits(request.kind, request.budget)
        /\ StillValid(request.inputs)
        /\ job[r] = "absent"
        /\ job' = [job EXCEPT ![r] = "active"]
        /\ kind' = [kind EXCEPT ![r] = request.kind]
        /\ inputs' = [inputs EXCEPT ![r] = request.inputs]
        /\ budget' = [budget EXCEPT ![r] = request.budget]
        /\ validity' = [validity EXCEPT ![ResultRef(r)] = "valid"]
        /\ deps' = deps \cup {<<ResultRef(r), n>> : n \in request.inputs}
        /\ client' = [client EXCEPT ![c] = Idle]
        /\ UNCHANGED <<rows, shown, cutoff, retention, disk, gc>>

\* RESOURCE_EXHAUSTED, OBJECT_EXPIRED or SOURCE_CHANGED.
Refuse(c) ==
    /\ Free
    /\ client[c].at = "resolved"
    /\ Admits(client[c].kind, client[c].budget) => ~StillValid(client[c].inputs)
    /\ client' = [client EXCEPT ![c] = Idle]
    /\ UNCHANGED <<jobRows, resultRows, retention, disk, gc>>

(***************************************************************************)
(* Execution, as far as storage can tell.  A part is one byte.             *)
(***************************************************************************)
\* A worker makes the directories of its attempt; it needs no lock.
Stage(r) ==
    /\ job[r] = "active"
    /\ staging' = staging \cup {r}
    /\ UNCHANGED <<jobRows, resultRows, retention, store, client, gc>>

\* Mistake: the worker writes beyond its result bytes.
PublishBeyond(r, preview) ==
    LET p == rows[r] + 1
    IN  /\ Free
        /\ job[r] = "active" /\ r \in staging
        /\ kind[r] # "export" /\ p <= budget[r] + 1
        /\ preview => kind[r] = "query"
        /\ rows' = [rows EXCEPT ![r] = p]
        /\ store' = IF InSqlite(r, p) THEN store ELSE [store EXCEPT ![r] = @ \cup {p}]
        /\ shown' = IF preview THEN [shown EXCEPT ![r] = "partial"] ELSE shown
        /\ cutoff' = IF preview THEN [cutoff EXCEPT ![r] = p] ELSE cutoff
        /\ UNCHANGED <<jobRows, validity, deps, retention, staging, client, gc>>

\* Db::publish, inside the result bytes the worker was given; a query with
\* preview = available shows the part at once.
Publish(r, preview) ==
    LET p == rows[r] + 1
    IN  /\ Free
        /\ job[r] = "active" /\ r \in staging
        /\ kind[r] # "export" /\ p <= budget[r]
        /\ preview => kind[r] = "query"
        /\ rows' = [rows EXCEPT ![r] = p]
        /\ store' = IF InSqlite(r, p) THEN store ELSE [store EXCEPT ![r] = @ \cup {p}]
        /\ shown' = IF preview THEN [shown EXCEPT ![r] = "partial"] ELSE shown
        /\ cutoff' = IF preview THEN [cutoff EXCEPT ![r] = p] ELSE cutoff
        /\ UNCHANGED <<jobRows, validity, deps, retention, staging, client, gc>>

\* Nothing stays of the attempt's directories, unless their removal fails or
\* the coordinator is killed before it.
Tidy(r) ==
    staging' \in {staging, staging \ {r}}

CompleteQuery(r) ==
    /\ Free
    /\ job[r] = "active" /\ kind[r] = "query"
    /\ job' = [job EXCEPT ![r] = "over"]
    /\ shown' = [shown EXCEPT ![r] = "final"]
    /\ cutoff' = [cutoff EXCEPT ![r] = rows[r]]
    /\ Tidy(r)
    /\ UNCHANGED <<kind, inputs, budget, rows, validity, deps, retention, store, client,
                   gc>>

\* prepare::commit: the copy no longer depends on what it was made from.
CompletePrepare(r) ==
    /\ Free
    /\ job[r] = "active" /\ kind[r] = "prepare" /\ rows[r] > 0
    /\ job' = [job EXCEPT ![r] = "over"]
    /\ cutoff' = [cutoff EXCEPT ![r] = rows[r]]
    /\ validity' = [validity EXCEPT ![DatasetRef(r)] = "valid"]
    /\ deps' = {d \in deps : d[1] # ResultRef(r)} \cup {<<DatasetRef(r), ResultRef(r)>>}
    /\ Tidy(r)
    /\ UNCHANGED <<kind, inputs, budget, rows, shown, retention, store, client, gc>>

\* An export that completes, and any job that fails or is stopped: a query
\* shows once the parts it has not shown.
EndOtherwise(r) ==
    /\ Free
    /\ job[r] = "active"
    /\ job' = [job EXCEPT ![r] = "over"]
    /\ IF kind[r] = "query" /\ shown[r] = "none" /\ rows[r] > 0
       THEN /\ shown' = [shown EXCEPT ![r] = "partial"]
            /\ cutoff' = [cutoff EXCEPT ![r] = rows[r]]
       ELSE UNCHANGED <<shown, cutoff>>
    /\ Tidy(r)
    /\ UNCHANGED <<kind, inputs, budget, rows, validity, deps, retention, store, client,
                   gc>>

(***************************************************************************)
(* Page reads (results::read) hold the read lock to the end.  The page     *)
(* is of the head revision, the one that needs the most parts.             *)
(***************************************************************************)
StartPage(c, r) ==
    /\ Free
    /\ client[c] = Idle
    /\ validity[ResultRef(r)] = "valid" /\ shown[r] # "none"
    /\ client' = [client EXCEPT ![c] = Page(r, 1 .. cutoff[r])]
    /\ UNCHANGED <<jobRows, resultRows, retention, disk, gc>>

EndPage(c) ==
    /\ client[c].at = "page"
    /\ client' = [client EXCEPT ![c] = Idle]
    /\ UNCHANGED <<jobRows, resultRows, retention, disk, gc>>

(***************************************************************************)
(* storage::retain on a result, or on a managed dataset for the result     *)
(* that stores it.                                                         *)
(***************************************************************************)
Retain(r, pin) ==
    /\ Free
    /\ validity[ResultRef(r)] \notin {"absent", "expired"}
    /\ released' = [released EXCEPT ![r] = IF pin THEN 0 ELSE 1]
    /\ pins' = IF pin THEN pins \cup {r} ELSE pins \ {r}
    /\ UNCHANGED <<jobRows, resultRows, quota, disk, client, gc>>

(***************************************************************************)
(* storage::workspace: configure and gc.                                   *)
(***************************************************************************)
Configure(q) ==
    /\ Free /\ NoReader
    /\ q = 0 \/ Stored + Reserved <= q
    /\ quota' = q
    /\ UNCHANGED <<jobRows, resultRows, released, pins, disk, client, gc>>

Retained(r) ==
    \/ validity[ResultRef(r)] \notin {"absent", "expired"} /\ released[r] = 0
    \/ r \in pins
    \/ job[r] = "active"
Roots == {r \in Results : Retained(r)}
\* Mistake: only what is retained itself is protected, not what it is built from.
ProtectedRoots == {ResultRef(r) : r \in Roots}

Protected == Above({ResultRef(r) : r \in Roots})

\* Mistake: an interrupted collection is not taken up again.
CollectibleOnce(r) ==
    /\ job[r] = "over"
    /\ released[r] = 1 /\ validity[ResultRef(r)] # "expired"

Collectible(r) ==
    /\ job[r] = "over"
    /\ \/ released[r] = 1
       \/ validity[ResultRef(r)] = "expired" /\ released[r] # 2
Eligible ==
    LET kept == Protected
    IN  {r \in Results : Collectible(r) /\ ResultRef(r) \notin kept}

\* Ids are random, so their order is any order.
Batches ==
    LET all == Eligible
        size == IF Cardinality(all) <= Batch THEN Cardinality(all) ELSE Batch
    IN  {chosen \in SUBSET all : Cardinality(chosen) = size}

\* The results themselves, and every object built from them.
Tombstoned(chosen) ==
    LET selected == {ResultRef(r) : r \in chosen}
        objects == Below(selected) \ ResultRefs
    IN  [n \in Refs |-> IF n \in selected \/ (n \in objects /\ validity[n] # "absent")
                        THEN "expired" ELSE validity[n]]

\* Mistake: collection does not wait for readers.
GcSelectUnlocked ==
    /\ Free
    /\ \E chosen \in Batches :
          /\ validity' = Tombstoned(chosen)
          /\ gc' = GcAt("unlink", chosen)
    /\ UNCHANGED <<jobRows, rows, shown, cutoff, deps, retention, disk, client>>

\* Mistake: files go before the tombstone is durable.
GcSelectUnmarked ==
    /\ Free /\ NoReader
    /\ \E chosen \in Batches : gc' = GcAt("unlink", chosen)
    /\ UNCHANGED <<jobRows, resultRows, retention, disk, client>>

GcSelect ==
    /\ Free /\ NoReader
    /\ \E chosen \in Batches :
          /\ validity' = Tombstoned(chosen)
          /\ gc' = GcAt("unlink", chosen)
    /\ UNCHANGED <<jobRows, rows, shown, cutoff, deps, retention, disk, client>>

\* Then, for one result after the other: its directory, its rows, its mark.
GcUnlink(r) ==
    /\ gc.at = "unlink" /\ r \in gc.left
    /\ store' = [store EXCEPT ![r] = {}]
    /\ gc' = [at |-> "forget", left |-> gc.left \ {r}, result |-> r]
    /\ UNCHANGED <<jobRows, resultRows, retention, staging, client>>

\* Some file cannot be removed: the call ends with what it has done.
GcFails(r) ==
    /\ gc.at = "unlink" /\ r \in gc.left
    /\ \E remaining \in (SUBSET store[r]) \ {{}} :
          store' = [store EXCEPT ![r] = remaining]
    /\ gc' = GcIdle
    /\ UNCHANGED <<jobRows, resultRows, retention, staging, client>>

GcForget ==
    /\ gc.at = "forget"
    /\ rows' = [rows EXCEPT ![gc.result] = 0]
    /\ gc' = [gc EXCEPT !.at = "mark"]
    /\ UNCHANGED <<jobRows, shown, cutoff, validity, deps, retention, disk, client>>

GcMark ==
    /\ gc.at = "mark"
    /\ released' = [released EXCEPT ![gc.result] = 2]
    /\ gc' = GcAt("unlink", gc.left)
    /\ UNCHANGED <<jobRows, resultRows, pins, quota, disk, client>>

\* clean_temporary ends the call.
GcSweep ==
    /\ gc.at = "unlink" /\ gc.left = {}
    /\ staging' = staging \cap ActiveJobs
    /\ gc' = GcIdle
    /\ UNCHANGED <<jobRows, resultRows, retention, store, client>>

(***************************************************************************)
(* The coordinator is killed; the next one finds rows and files as they    *)
(* are.  It ends the jobs that ran (EndOtherwise) before it serves anyone; *)
(* those that were queued stay active.                                     *)
(***************************************************************************)
Crash ==
    /\ client' = [c \in Clients |-> Idle]
    /\ gc' = GcIdle
    /\ UNCHANGED <<jobRows, resultRows, retention, disk>>

Submission ==
    \/ \E s \in Sources : Open(s) \/ Invalidate(s)
    \/ \E c \in Clients, refs \in SUBSET {n \in Refs : Bindable(n)} :
          \/ \E b \in Budgets, k \in Asked \ {"export"} : Resolve(c, k, refs, b)
          \/ "export" \in Asked /\ Resolve(c, "export", refs, 0)
    \/ \E c \in Clients : Refuse(c) \/ \E r \in Results : Submit(c, r)

Execution ==
    \E r \in Results :
       \/ Stage(r)
       \/ \E preview \in BOOLEAN : Publish(r, preview)
       \/ CompleteQuery(r) \/ CompletePrepare(r) \/ EndOtherwise(r)

Reading == \E c \in Clients : EndPage(c) \/ \E r \in Results : StartPage(c, r)

Keeping ==
    \/ \E r \in Results, pin \in BOOLEAN : Retain(r, pin)
    \/ \E q \in Quotas : Configure(q)

Collection ==
    \/ GcSelect \/ GcForget \/ GcMark \/ GcSweep
    \/ \E r \in Results : GcUnlink(r) \/ GcFails(r)

Next == Submission \/ Execution \/ Reading \/ Keeping \/ Collection \/ Crash

Spec == Init /\ [][Next]_vars

(***************************************************************************)
(* Properties.                                                             *)
(***************************************************************************)
Requests ==
    [at : {"resolved"}, kind : Kinds, inputs : SUBSET Refs, budget : Budgets \cup {0}]
Pages == UNION {{Page(r, 1 .. n) : n \in 0 .. cutoff[r]} : r \in Results}
Collections ==
    {GcIdle} \cup [at : {"unlink"}, left : SUBSET Results]
             \cup [at : {"forget", "mark"}, left : SUBSET Results, result : Results]

Bounded(r) ==
    /\ rows[r] <= budget[r] /\ cutoff[r] <= budget[r]
    /\ store[r] \subseteq 1 .. budget[r]

(* The type invariant.  A result holds no more parts than its job may      *)
(* write (worker.rs, Output and checkpoint).                               *)
TypeOK ==
    /\ job \in [Results -> {"absent", "active", "over"}]
    /\ kind \in [Results -> Kinds]
    /\ inputs \in [Results -> SUBSET Refs]
    /\ budget \in [Results -> Budgets \cup {0}]
    /\ rows \in [Results -> Nat] /\ cutoff \in [Results -> Nat]
    /\ store \in [Results -> SUBSET Nat]
    /\ \A r \in Results : Bounded(r)
    /\ shown \in [Results -> {"none", "partial", "final"}]
    /\ validity \in [Refs -> Validity]
    /\ deps \subseteq Managed \X Refs
    /\ released \in [Results -> {0, 1, 2}]
    /\ pins \subseteq Results
    /\ quota \in Quotas \cup {0}
    /\ staging \subseteq Results
    /\ client \in [Clients -> {Idle} \cup Pages \cup Requests]
    /\ gc \in Collections

(* A result or a managed dataset that does not read as expired has every   *)
(* part its revision or manifest names, in SQLite or on disk, at every     *)
(* point of a collection and after a crash in the middle of one            *)
(* (storage::workspace, Db::object).                                       *)
TombstoneFirst ==
    \A r \in Results :
       \/ validity[ResultRef(r)] # "expired"
       \/ validity[DatasetRef(r)] \notin {"absent", "expired"}
       => \A p \in 1 .. cutoff[r] : Available(r, p)

(* What an active job was given to read stays until the job is over, also  *)
(* when its inputs were released or collected while it was submitted       *)
(* (api::submit, the roots of storage::workspace).                         *)
ActiveInputsKept ==
    \A r \in ActiveJobs : \A n \in inputs[r] \cap Managed :
       /\ validity[n] # "expired"
       /\ \A p \in 1 .. cutoff[n[2]] : Available(n[2], p)

(* A page that is being read never loses a part (results::read).           *)
PageStaysReadable ==
    \A c \in Clients : client[c].at = "page" =>
       \A p \in client[c].parts : Available(client[c].result, p)

(* The bytes in parts stay within the quota, while several jobs fill what  *)
(* they reserved and the quota changes (storage::admit, configure).        *)
QuotaHolds == quota # 0 => Stored <= quota

(* Expired is for ever: no change of a source, pin or job shows what a     *)
(* collection may already have removed (Db::invalidate, storage::retain).  *)
ExpiredForever ==
    [][\A n \in Refs : validity[n] = "expired" => validity'[n] = "expired"]_vars

(* A result expires only after its release, and only when nothing retained *)
(* and no active job is built from it (storage::workspace).                *)
ExpiryRespectsRetention ==
    [][\A r \in Results :
          validity[ResultRef(r)] # "expired" /\ validity'[ResultRef(r)] = "expired" =>
             /\ released[r] = 1
             /\ \A user \in Roots : ResultRef(user) \notin Below({ResultRef(r)})]_vars

(* A collection that has come through its batch leaves nothing of any      *)
(* expired result that is out of use, those of the collections before it   *)
(* that failed or were killed half way included (storage::workspace).      *)
CollectionCompletes ==
    [][gc.at = "unlink" /\ gc.left = {} /\ gc'.at = "idle" =>
          \A r \in Results :
             /\ Cardinality(Results) <= Batch
             /\ job[r] = "over" /\ validity[ResultRef(r)] = "expired"
             /\ ResultRef(r) \notin Protected
             => store'[r] = {} /\ rows'[r] = 0]_vars
=============================================================================
