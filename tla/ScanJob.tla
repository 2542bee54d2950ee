------------------------------- MODULE ScanJob -------------------------------
(***************************************************************************)
(* A job that reads its input through ScanStore: a query, whose partitions *)
(* ask for what they need in any order, or an analysis, which goes through *)
(* the fragments of its files one by one and publishes a checkpoint of its *)
(* aggregates after some of them.                                          *)
(*                                                                         *)
(* Sources: crates/runtime/src/{worker,engine,aggregate}.rs.               *)
(*                                                                         *)
(* The aggregates are count(column), sum(column) and avg(column) of one    *)
(* column that may be null.  What a query computes is not modelled.        *)
(***************************************************************************)
EXTENDS ScanStore, Integers, SequencesExt

CONSTANTS
    Groups,       \* the row groups of a file, each a sequence of values
    Null,
    Single,       \* the reader of an analysis
    JobKinds, Units, Previews,  \* what jobs ask for
    MaxRequests,  \* bound: requests of one query
    SumTop,       \* a sum is in -SumTop .. SumTop - 1 (i128)
    Precision,    \* and shown when it is less than this (38 digits)
    Factor        \* 10 to the digits an average has more than its column

ASSUME JobAssumption ==
    /\ Single \in Readers /\ MaxRequests \in Nat
    /\ JobKinds \subseteq {"query", "analysis"} /\ Previews \subseteq {"none", "available"}
    /\ Units \subseteq {"parquet_row_group", "manifest_file"}
    /\ SumTop \in Nat /\ Precision \in 1 .. SumTop /\ Factor \in Nat \ {0}
    /\ Groups \in [Files -> Seq(Seq(Int \cup {Null}))]

VARIABLES
    job,         \* the state of the job
    kind, unit, preview,
    asked,       \* requests its partitions have made
    at,          \* where an analysis stands: the file, its fragment, what is next
    seen,        \* contents that the present fragment was read from
    states,      \* the sum and the count of each aggregate, which are the same
    progress,    \* completed fragments and files, all fragments, rows
    checkpoints  \* published

request == <<job, kind, unit, preview>>
analysis == <<at, seen, states, progress, checkpoints>>
jobVars == <<request, asked, analysis>>
allVars == <<vars, jobVars>>

Unread == [step |-> "file", file |-> 1, fragment |-> 1, reading |-> FALSE]

RowGroups(f) == Len(Groups[f])

\* The fragments of each file, and of all.
Pieces == [i \in 1 .. Len(manifest) |->
    IF unit = "manifest_file" THEN 1 ELSE RowGroups(manifest[i].file)]
Expected == SumFunctionOnSet(Pieces, 1 .. Len(manifest))

JobInit ==
    /\ Init
    /\ job = "starting"
    /\ kind \in JobKinds /\ unit \in Units /\ preview \in Previews
    /\ kind = "query" => unit = "manifest_file" /\ preview = "none"
    \* An analysis is given the files of one dataset, a part of a result is Arrow.
    /\ kind = "analysis" =>
          /\ manifest # <<>>
          /\ \A i, j \in 1 .. Len(manifest) :
                manifest[i].source /\ (i # j => manifest[i].file # manifest[j].file)
    /\ asked = 0
    /\ at = Unread /\ seen = {}
    /\ states = [sum |-> 0, count |-> 0]
    /\ progress = [fragments |-> 0, files |-> 0, total |-> Expected, rows |-> 0]
    /\ checkpoints = <<>>

(***************************************************************************)
(* The job as a whole (worker.rs, execute_job).                            *)
(***************************************************************************)
\* spec.sources: the files of the datasets among its bindings.
Sources == {manifest[i].file : i \in {k \in 1 .. Len(manifest) : manifest[k].source}}
Validated == \A f \in Sources : Unmoved(f)

Start ==
    /\ job = "starting"
    /\ job' = IF Validated THEN "running" ELSE "failed"
    /\ UNCHANGED <<vars, kind, unit, preview, asked, analysis>>

Prepare ==
    /\ job = "running"
    /\ Register
    /\ UNCHANGED jobVars

Outcome == IF Validated THEN "completed" ELSE "failed"

\* Files that contradict each other, a request that failed, a cancellation, a
\* timeout, or no room for the result.
Stop ==
    /\ job = "running"
    /\ job' = "failed"
    /\ UNCHANGED <<vars, kind, unit, preview, asked, analysis>>

\* What a job leaves behind when it is over, and a query that needs no more.
Abandon(r) ==
    /\ job \in {"completed", "failed"} \/ kind = "query"
    /\ Drop(r)
    /\ UNCHANGED jobVars

(***************************************************************************)
(* A query.                                                                *)
(***************************************************************************)
Ask(r) ==
    /\ job = "running" /\ kind = "query"
    /\ asked < MaxRequests
    /\ \E f \in Files : \E n \in 1 .. Size[f] : Request(r, f, n)
    /\ asked' = asked + 1
    /\ UNCHANGED <<request, analysis>>

Work(r) ==
    /\ kind = "query"
    /\ Serve(r)
    /\ UNCHANGED jobVars

Complete ==
    /\ job = "running" /\ kind = "query" /\ Open
    /\ \A r \in Readers : reader[r].at \in {"idle", "gone", "detached"}
    /\ job' = Outcome
    /\ UNCHANGED <<vars, kind, unit, preview, asked, analysis>>

(***************************************************************************)
(* An analysis (aggregate.rs, execute).                                    *)
(***************************************************************************)
Analyzing(step) == job = "running" /\ kind = "analysis" /\ Open /\ at.step = step
File == manifest[at.file].file
Fragments == IF unit = "manifest_file" \/ RowGroups(File) = 0 THEN 1 ELSE RowGroups(File)

NextFile ==
    /\ Analyzing("file")
    /\ IF Unmoved(File)
       THEN at' = [at EXCEPT !.step = "metadata"] /\ UNCHANGED job
       ELSE job' = "failed" /\ UNCHANGED at
    /\ UNCHANGED <<vars, kind, unit, preview, asked, seen, states, progress, checkpoints>>

\* The metadata of a file, and then each fragment, is read by a request.
Read ==
    /\ Analyzing("metadata") \/ Analyzing("fragment")
    /\ ~at.reading
    /\ \E n \in 1 .. Size[File] :
          \/ GetRanges(Single, File, n) \/ GetPart(Single, File)
          \/ n > Batch /\ GetStream(Single, File, n)
    /\ at' = [at EXCEPT !.reading = TRUE]
    /\ seen' = {}
    /\ UNCHANGED <<request, asked, states, progress, checkpoints>>

Receive ==
    /\ kind = "analysis"
    /\ \/ /\ EndRanges(Single) \/ EndChunk(Single) \/ Insert(Single)
          /\ seen' = seen \cup reader[Single].got
       \/ /\ TakeCached(Single)
          /\ seen' = seen \cup UNION {cache[i].got : i \in Cached(reader[Single].file)}
    /\ UNCHANGED <<request, asked, at, states, progress, checkpoints>>

Await ==
    /\ kind = "analysis"
    /\ \/ ReadByte(Single) \/ ReadFails(Single) \/ NextChunk(Single) \/ EndStream(Single)
       \/ Load(Single) \/ Verify(Single) \/ Evict(Single)
    /\ UNCHANGED jobVars

\* What was read says how many rows there are; ones that are not the frozen
\* ones pass when they are as many.
Metadata ==
    /\ Analyzing("metadata") /\ at.reading /\ reader[Single] = Idle
    /\ at' = [at EXCEPT !.step = "fragment", !.fragment = 1, !.reading = FALSE]
    /\ UNCHANGED <<vars, request, asked, seen, states, progress, checkpoints>>

\* The values of a fragment, or others in their place.
Frozen(u, f, g) == IF u = "manifest_file" THEN FlattenSeq(Groups[f])
                   ELSE IF g \in 1 .. RowGroups(f) THEN Groups[f][g] ELSE <<>>
Batches ==
    LET values == Frozen(unit, File, at.fragment)
    IN  IF "changed" \in seen
        THEN [i \in 1 .. Len(values) |-> IF values[i] = Null THEN Null ELSE values[i] + 1]
        ELSE values

\* A mistake add does not make: a sum that is too large wraps around.
PlusWrapped(sum, v) == ((sum + v + SumTop) % (2 * SumTop)) - SumTop

\* A mistake add does not make: it is not checked.
PlusUnchecked(sum, v) == sum + v

\* add is checked: Overflow stands for ARITHMETIC_OVERFLOW from there on.
Overflow == SumTop
Plus(sum, v) ==
    IF sum = Overflow \/ sum + v \notin -SumTop .. SumTop - 1 THEN Overflow ELSE sum + v

Added(s, v) == IF v = Null THEN s ELSE [sum |-> Plus(s.sum, v), count |-> s.count + 1]
Accumulated(values) ==
    LET after[i \in 0 .. Len(values)] == IF i = 0 THEN states ELSE Added(after[i - 1], values[i])
    IN  after[Len(values)]

Accumulate ==
    LET values == Batches
        new == Accumulated(values)
    IN  /\ Analyzing("fragment") /\ at.reading /\ reader[Single] = Idle
        /\ IF new.sum # Overflow /\ Unmoved(File)
           THEN /\ states' = new
                /\ progress' = [progress EXCEPT !.rows = @ + Len(values)]
                /\ at' = [at EXCEPT !.step = "checkpoint", !.reading = FALSE]
                /\ UNCHANGED job
           ELSE job' = "failed" /\ UNCHANGED <<states, progress, at>>
        /\ UNCHANGED <<vars, kind, unit, preview, asked, seen, checkpoints>>

\* Division of the code truncates towards zero.
Quot(a, b) == IF a >= 0 THEN a \div b ELSE -((-a) \div b)
Rem(a, b) == a - b * Quot(a, b)

\* Integer and remainder apart, so that the product does not overflow when
\* the average itself is small.
Average(sum, count) ==
    LET integer == Quot(sum, count) * Factor
        fraction == Rem(sum, count) * Factor
    IN  IF {integer, fraction} \subseteq -SumTop .. SumTop - 1
        THEN Plus(integer, Quot(fraction, count)) ELSE Overflow

Shows(v) == v # Overflow /\ -Precision < v /\ v < Precision

\* output, of nothing but NULL when there was no value.
Output ==
    IF states.count = 0 THEN [count |-> 0, sum |-> Null, avg |-> Null]
    ELSE [count |-> states.count, sum |-> states.sum, avg |-> Average(states.sum, states.count)]
Fitting == states.count > 0 => Shows(Output.sum) /\ Shows(Output.avg)

\* How far the job has come with the present fragment.
Advanced ==
    LET files == IF at.fragment = Fragments THEN at.file ELSE progress.files
        counts == unit = "manifest_file" \/ RowGroups(File) > 0
        fragments == progress.fragments + IF counts THEN 1 ELSE 0
    IN  [progress EXCEPT !.files = files, !.fragments = fragments,
                         !.total = IF files = Len(manifest) THEN fragments ELSE @]

Due(now) ==
    \/ now.files = Len(manifest)
    \/ preview = "available" /\ checkpoints = <<>>
Repeats(now) ==
    /\ checkpoints # <<>>
    /\ Last(checkpoints).now.fragments = now.fragments
    /\ Last(checkpoints).now.files = now.files

\* The interval since the last checkpoint has passed or has not.
Advance(publish) ==
    /\ Analyzing("checkpoint")
    /\ Due(Advanced) => publish
    /\ publish => preview = "available" \/ Due(Advanced)
    /\ progress' = Advanced
    /\ IF publish /\ ~Repeats(Advanced)
       THEN IF Fitting
            THEN checkpoints' = Append(checkpoints, [now |-> Advanced, shown |-> Output]) /\ UNCHANGED job
            ELSE job' = "failed" /\ UNCHANGED checkpoints
       ELSE UNCHANGED <<checkpoints, job>>
    /\ at' = IF at.fragment < Fragments
             THEN [at EXCEPT !.step = "fragment", !.fragment = @ + 1]
             ELSE IF at.file < Len(manifest)
             THEN [Unread EXCEPT !.file = at.file + 1]
             ELSE [at EXCEPT !.step = "end"]
    /\ UNCHANGED <<vars, kind, unit, preview, asked, seen, states>>

Finish ==
    /\ Analyzing("end")
    /\ job' = Outcome
    /\ UNCHANGED <<vars, kind, unit, preview, asked, analysis>>

\* Files of no concern to the job, or to a job that is over, are left out.
Surroundings ==
    /\ job \in {"starting", "running"}
    /\ \E i \in 1 .. Len(manifest) : Disturb(manifest[i].file)
    /\ UNCHANGED jobVars

Query ==
    \/ Complete
    \/ \E r \in Readers : Ask(r) \/ Work(r)

Analysis ==
    \/ NextFile \/ Read \/ Receive \/ Await
    \/ Metadata \/ Accumulate \/ Finish
    \/ \E publish \in BOOLEAN : Advance(publish)

Next ==
    \/ Start \/ Prepare \/ Stop
    \/ \E r \in Readers : Abandon(r)
    \/ Query \/ Analysis \/ Surroundings

Spec == JobInit /\ [][Next]_allVars

\* The runtime polls what is ready.  A failed request fails the job.
FairSpec ==
    /\ Spec
    /\ WF_allVars(Start) /\ WF_allVars(Prepare)
    /\ \A r \in Readers : WF_allVars(Work(r))
    /\ WF_allVars(Analysis)
    /\ WF_allVars(Complete)
    /\ WF_allVars(Stop /\ (refused \/ \E r \in Readers : reader[r] = Failed))

(***************************************************************************)
(* Properties.                                                             *)
(***************************************************************************)
JobTypeOK ==
    /\ StoreTypeOK
    /\ job \in {"starting", "running", "completed", "failed"}
    /\ kind \in {"query", "analysis"} /\ unit \in {"parquet_row_group", "manifest_file"}
    /\ preview \in {"none", "available"}
    /\ asked \in 0 .. MaxRequests
    /\ at \in [step : {"file", "metadata", "fragment", "checkpoint", "end"},
               file : Nat \ {0}, fragment : Nat \ {0}, reading : BOOLEAN]
    /\ kind = "analysis" => at.file <= Len(manifest)
    /\ seen \subseteq Contents
    /\ states \in [sum : -SumTop .. SumTop - 1, count : Nat]
    /\ progress \in [fragments : Nat, files : 0 .. Len(manifest), total : Nat, rows : Nat]

(* A job that completes was only given the frozen bytes of its input; a    *)
(* ranges request and a managed file give nothing else at any time, so     *)
(* that what a stream read too late ends with a failed job (get_ranges,    *)
(* get_opts, execute_job).                                                 *)
FrozenReads ==
    \A d \in delivered : d.content # "frozen" => d.how = "stream" /\ job # "completed"

\* Fragments have a number, in the order of the manifest.  The cells are the
\* rows of the first of them, those with a value the ones that aggregates count.
Number(i, g) == SumFunctionOnSet(Pieces, 1 .. i - 1) + g
Cells(fragments) ==
    UNION {UNION {{<<i, g, k>> : k \in 1 .. Len(Frozen(unit, manifest[i].file, g))} :
                     g \in {h \in 1 .. Pieces[i] : Number(i, h) <= fragments}} :
              i \in 1 .. Len(manifest)}
Value(x) == Frozen(unit, manifest[x[1]].file, x[2])[x[3]]
Valued(cells) == {x \in cells : Value(x) # Null}
Total(cells) == SumFunctionOnSet([x \in Valued(cells) |-> Value(x)], Valued(cells))

Exact(now, shown) ==
    LET cells == Cells(now.fragments)
        count == Cardinality(Valued(cells))
    IN  /\ now.rows = Cardinality(cells) /\ shown.count = count
        /\ IF count = 0 THEN shown.sum = Null /\ shown.avg = Null
           ELSE shown.sum = Total(cells) /\ shown.avg = Quot(Total(cells) * Factor, count)

(* A checkpoint is the exact count, sum and average of the frozen values   *)
(* of the fragments it counts, never wrapped, each tells more than the one *)
(* before it, and the last one of a job that completes counts them all     *)
(* (aggregate.rs, execute).                                                *)
CheckpointsExact ==
    /\ \A i \in 1 .. Len(checkpoints) :
          LET now == checkpoints[i].now
              before == checkpoints[i - 1].now
          IN  /\ Exact(now, checkpoints[i].shown)
              /\ now.fragments <= now.total
              /\ i > 1 => /\ now.files >= before.files
                          /\ <<now.files, now.fragments>> # <<before.files, before.fragments>>
    /\ job = "completed" /\ kind = "analysis" =>
          /\ checkpoints # <<>>
          /\ Last(checkpoints).now.files = Len(manifest)
          /\ Last(checkpoints).now.fragments = Expected
          /\ Last(checkpoints).now.total = Expected

(* Every job ends, whatever its requests wait for, fail at or leave locked *)
(* when they are dropped (get_opts, VerifiedCache).                        *)
JobEnds == job = "running" ~> job \in {"completed", "failed"}
=============================================================================
