---------------------------- MODULE JobExecution ----------------------------
(***************************************************************************)
(* One workspace of RowTrail while jobs execute: the SQLite rows and the   *)
(* files that outlive every process, the single coordinator process and    *)
(* its scheduler task, and the worker processes it spawns and reuses.      *)
(*                                                                         *)
(* Sources: crates/runtime/src/{db,coordinator,worker,storage,prepare}.rs. *)
(* A step of this module is one SQLite transaction, one file system        *)
(* operation that a crash can separate from its transaction, one frame on  *)
(* a worker's pipes, or one step of a worker.  The coordinator can be      *)
(* killed between any two steps.                                           *)
(*                                                                         *)
(* Not here: the text of requests and answers, events and notifications,   *)
(* retention, admission, and what the parts contain.                       *)
(***************************************************************************)
EXTENDS Naturals, Sequences

CONSTANTS
    Jobs,        \* identities of the jobs clients may submit
    NoJob,       \* no job
    Foreign,     \* a program outside the workspace, owner of a file it made
    Workers,     \* worker processes; the token on the command line
    NoWorker,    \* SQL NULL in jobs.worker_token, an empty pool
    KindsOf,     \* the kinds a client may submit each job as
    MaxParts,    \* bound: parts one job produces
    Fragments,   \* fragments of the input of an aggregate
    MaxCrashes,  \* bound: coordinator processes that end with work in hand
    MaxFaults    \* bound: SQLite, file system or spawn calls that fail

Kinds == {"plain", "preview", "aggregate", "checkpoints", "prepare", "export"}

ASSUME JobsAssumption == NoJob \notin Jobs /\ Foreign \notin Jobs
ASSUME WorkersAssumption == NoWorker \notin Workers
ASSUME KindsAssumption == KindsOf \in [Jobs -> SUBSET Kinds]
ASSUME BoundsAssumption ==
    /\ MaxParts \in Nat
    /\ Fragments \in Nat \ {0}
    /\ MaxCrashes \in Nat
    /\ MaxFaults \in Nat

(***************************************************************************)
(* What kind of request the job's specification holds.  "plain" and        *)
(* "aggregate" ran with preview = none, "preview" and "checkpoints" with   *)
(* preview = available.                                                    *)
(***************************************************************************)
Query == {"plain", "preview"}
Analysis == {"aggregate", "checkpoints"}
Previewed == {"preview", "checkpoints"}

Reasons == {"cancelled", "budget_exhausted"}
Active == {"running", "stopping"}
Terminal == {"completed", "failed", "interrupted"} \cup Reasons
States == {"absent", "queued"} \cup Active \cup Terminal

\* The error codes of a worker's report as far as the coordinator tells them
\* apart; RESOURCE_EXHAUSTED stands for BUDGET_EXHAUSTED too.
Codes == {"SQL_ERROR", "SOURCE_CHANGED", "RESOURCE_EXHAUSTED", "CANCELLED"}

SchemaMessage == [type : {"schema"}]
PartMessage == [type : {"part"}, seq : Nat, inline : BOOLEAN, progress : Nat]
CompletedMessage == [type : {"completed"}, parts : Nat]
FailedMessage == [type : {"failed"}, code : Codes]
Message == SchemaMessage \cup PartMessage \cup CompletedMessage \cup FailedMessage

\* What a worker can find on its standard input, or be sent as a signal.
Lines == {"spec", "ok", "cancel", "term"}

NoPart == [type |-> "none"]
Outputs == [parts : Nat, staged : PartMessage \cup {NoPart}, covered : Nat]
Holding(parts, staged, covered) ==
    [parts |-> parts, staged |-> staged, covered |-> covered]
NoOutput == Holding(0, NoPart, 0)

Revision == [cutoff : Nat, final : BOOLEAN, coverage : Nat]

VARIABLES
    \* SQLite: jobs, results, revisions, parts, analysis_progress, objects
    arrivals,    \* jobs in the order of (created, id)
    kind,        \* jobs.spec, reduced to its kind
    state,       \* jobs.state
    stop,        \* jobs.stop_requested
    recorded,    \* jobs.worker_token
    schema,      \* jobs whose results.schema is set
    count,       \* number of rows in parts
    filed,       \* rows in parts whose bytes are a file, as <<job, seq>>
    progress,    \* analysis_progress, as fragments completed
    revs,        \* revisions 1 .. results.head
    dataset,     \* prepare jobs whose dataset and manifest objects exist
    changed,     \* jobs whose result has validity 'source_changed'
    \* files
    staging,     \* sealed or growing part files under staging/, <<job, seq>>
    store,       \* part files under store/, <<job, seq>>
    temps,       \* export jobs whose .tmp files lie beside the destination
    target,      \* which export the destination file holds
    sidecar,     \* which export the .rowtrail.json file describes
    \* the coordinator process
    pc,          \* where it stands
    cur,         \* the job that is being recovered or run
    pool,        \* the worker kept by the scheduler
    report,      \* the terminal report of run_job, "none" before there is one
    signalled,   \* stop_at.is_some()
    \* worker processes
    wpc,         \* where each worker stands
    wjob,        \* the job of the specification written to the worker
    output,      \* what it holds of that job: the parts acknowledged, the
                 \* part it has staged, the fragments already reported
    inbox,       \* lines and signals on their way to the worker
    outbox,      \* messages on their way from the worker
    \* bounds
    crashes, faults

jobRows == <<arrivals, kind, state, stop, recorded>>
resultRows == <<schema, count, filed, progress, revs, dataset, changed>>
rows == <<jobRows, resultRows>>
files == <<staging, store, temps, target, sidecar>>
coordinator == <<pc, cur, pool, report, signalled>>
inside == <<wpc, wjob, output>>
workers == <<inside, inbox, outbox>>
bounds == <<crashes, faults>>
vars == <<rows, files, coordinator, workers, bounds>>

(***************************************************************************)
(* "down" no process; "kill" and "recover", "recover_clean" Db::recover;   *)
(* "idle" the scheduler waits; "pool", "record", "send" the head of        *)
(* run_job; "loop" its select loop; "renamed" inside publish; "acked" and  *)
(* "rejected" before the answer to a part; "decide", "terminate",          *)
(* "finish" after the loop; "sidecar", "target" inside finish; "tidy" the  *)
(* end of run_job; "lost", "lost_finish" the error path of                 *)
(* run_job_with_recovery; "clean" before clean_attempt.                    *)
(***************************************************************************)
Places == {"down", "kill", "recover", "recover_clean", "idle", "pool", "record",
           "send", "loop", "renamed", "acked", "rejected", "decide",
           "terminate", "finish", "sidecar", "target", "tidy", "lost",
           "lost_finish", "clean"}
WorkerPlaces == {"dead", "idle", "planning", "running", "staged", "await"}
Busy == WorkerPlaces \ {"dead", "idle"}

Init ==
    /\ arrivals = <<>>
    /\ kind = [j \in Jobs |-> "plain"]
    /\ state = [j \in Jobs |-> "absent"]
    /\ stop = [j \in Jobs |-> "none"]
    /\ recorded = [j \in Jobs |-> NoWorker]
    /\ schema = {} /\ filed = {} /\ dataset = {} /\ changed = {}
    /\ count = [j \in Jobs |-> 0]
    /\ progress = [j \in Jobs |-> 0]
    /\ revs = [j \in Jobs |-> <<>>]
    /\ staging = {} /\ store = {} /\ temps = {}
    /\ target = NoJob /\ sidecar = NoJob
    /\ pc = "down" /\ cur = NoJob /\ pool = NoWorker
    /\ report = "none" /\ signalled = FALSE
    /\ wpc = [w \in Workers |-> "dead"]
    /\ wjob = [w \in Workers |-> NoJob]
    /\ output = [w \in Workers |-> NoOutput]
    /\ inbox = [w \in Workers |-> {}]
    /\ outbox = [w \in Workers |-> <<>>]
    /\ crashes = 0 /\ faults = 0

Alive(w) == w \in Workers /\ wpc[w] # "dead"
StagedBy(j) == {f \in staging : f[1] = j}

\* Requests are answered once Db::open has returned ...
Serving == pc \notin {"down", "kill", "recover", "recover_clean"}
\* ... and wait for the connection's mutex while a transaction is open.
Unlocked == pc \notin {"renamed", "sidecar", "target"}
-----------------------------------------------------------------------------
(***************************************************************************)
(* Requests of clients, and the world outside the workspace.               *)
(***************************************************************************)

\* submit: the job, its result row and its dependencies, in one transaction.
Submit(j) ==
    /\ Serving /\ Unlocked
    /\ state[j] = "absent"
    /\ \E k \in KindsOf[j] : kind' = [kind EXCEPT ![j] = k]
    /\ state' = [state EXCEPT ![j] = "queued"]
    /\ arrivals' = Append(arrivals, j)
    /\ UNCHANGED <<stop, recorded, resultRows, files, coordinator, workers, bounds>>

\* Mistake: keeping the last reason instead of the first.
RequestStopLast(j, reason) ==
    /\ state[j] \in {"queued"} \cup Active
    /\ state' = [state EXCEPT ![j] = IF @ = "queued" THEN reason ELSE "stopping"]
    /\ stop' = [stop EXCEPT ![j] = reason]
    /\ UNCHANGED <<arrivals, kind, recorded, resultRows>>

\* Db::cancel: a queued job ends here, an active one keeps its first reason.
RequestStop(j, reason) ==
    /\ state[j] \in {"queued"} \cup Active
    /\ state' = [state EXCEPT ![j] = IF @ = "queued" THEN reason ELSE "stopping"]
    /\ stop' = [stop EXCEPT ![j] = IF @ = "none" THEN reason ELSE @]
    /\ UNCHANGED <<arrivals, kind, recorded, resultRows>>

Cancel(j) ==
    /\ Serving /\ Unlocked
    /\ RequestStop(j, "cancelled")
    /\ UNCHANGED <<files, coordinator, workers, bounds>>

\* Another program creates the destination while an export of it is active.
ForeignTarget ==
    /\ target = NoJob
    /\ \E j \in Jobs : kind[j] = "export" /\ state[j] \in Active
    /\ target' = Foreign
    /\ UNCHANGED <<rows, staging, store, temps, sidecar, coordinator, workers, bounds>>
-----------------------------------------------------------------------------
(***************************************************************************)
(* Transactions and cleaning shared by several steps.                      *)
(***************************************************************************)

\* Mistakes: no default for a job nobody stopped; the report before the stop.
OutcomeUnset(j, s) == stop[j]
OutcomeReported(j, s) == s

\* A requested stop decides the outcome whatever the worker reported.
Outcome(j, s) == IF stop[j] = "none" THEN s ELSE stop[j]

\* A query that ends early without a revision shows the parts it has, once.
RevisionsAfter(j, s) ==
    IF s = "completed" /\ kind[j] \in Query \cup Analysis
    THEN Append(revs[j], [cutoff |-> count[j], final |-> TRUE,
                          coverage |-> progress[j]])
    ELSE IF s # "completed" /\ kind[j] \in Query /\ revs[j] = <<>> /\ count[j] > 0
    THEN Append(revs[j], [cutoff |-> count[j], final |-> FALSE, coverage |-> 0])
    ELSE revs[j]

\* What finish and prepare::commit insist on before they complete a job.
Accepted(j, s) ==
    Outcome(j, s) = "completed" =>
        /\ kind[j] \in Query => j \in schema
        /\ kind[j] \in Analysis => count[j] > 0 /\ progress[j] = Fragments
        /\ kind[j] = "prepare" => j \in schema /\ count[j] > 0

\* Mistake: sealed parts suffice to show a dataset.
DatasetsAfterParts(j, s) ==
    IF count[j] > 0 /\ kind[j] = "prepare" THEN dataset \cup {j} ELSE dataset

DatasetsAfter(j, s) ==
    IF s = "completed" /\ kind[j] = "prepare" THEN dataset \cup {j} ELSE dataset

\* Db::finish, without the links of an export.
FinishRows(j, s) ==
    LET outcome == Outcome(j, s) IN
    /\ state[j] \notin Terminal
    /\ Accepted(j, s)
    /\ state' = [state EXCEPT ![j] = outcome]
    /\ revs' = [revs EXCEPT ![j] = RevisionsAfter(j, outcome)]
    /\ dataset' = DatasetsAfter(j, outcome)
    /\ UNCHANGED <<arrivals, kind, stop, recorded, schema, count, filed, progress,
                   changed>>

\* Mistake: removing the result's directory.
CleanAttemptWholly(j) ==
    /\ staging' = staging \ StagedBy(j)
    /\ store' = {f \in store : f[1] # j}
    /\ UNCHANGED <<temps, target, sidecar>>

\* storage::clean_attempt: staging goes, and so does what parts does not name.
CleanAttempt(j) ==
    /\ staging' = staging \ StagedBy(j)
    /\ store' = {f \in store : f[1] = j => f \in filed}
    /\ UNCHANGED <<temps, target, sidecar>>

Fault == faults < MaxFaults /\ faults' = faults + 1 /\ UNCHANGED crashes

Goto(place) == pc' = place /\ UNCHANGED <<cur, pool, report, signalled>>
Reports(place, s) ==
    pc' = place /\ report' = s /\ UNCHANGED <<cur, pool, signalled>>

\* A process that ends loses its memory and what it had not read.
Die(ws) ==
    /\ wpc' = [w \in Workers |-> IF w \in ws THEN "dead" ELSE wpc[w]]
    /\ wjob' = [w \in Workers |-> IF w \in ws THEN NoJob ELSE wjob[w]]
    /\ output' = [w \in Workers |-> IF w \in ws THEN NoOutput ELSE output[w]]
    /\ inbox' = [w \in Workers |-> IF w \in ws THEN {} ELSE inbox[w]]

\* What a worker wrote is lost with the reading end of its pipe.
ClosePipe == outbox' = [w \in Workers |-> IF w = pool THEN <<>> ELSE outbox[w]]
-----------------------------------------------------------------------------
(***************************************************************************)
(* Start and recovery: Db::open holds the workspace lock before this.      *)
(***************************************************************************)
StartCoordinator ==
    /\ pc = "down"
    /\ Goto("kill")
    /\ UNCHANGED <<rows, files, workers, bounds>>

\* Mistake: a job that was asked to stop needs no kill.
RecordedRunning == {w \in Workers : Alive(w) /\ \E j \in Jobs :
                                state[j] = "running" /\ recorded[j] = w}

\* Live processes that a row still marked active names by token.
Recorded == {w \in Workers : Alive(w) /\ \E j \in Jobs :
                                state[j] \in Active /\ recorded[j] = w}

RecoverKill(w) ==
    /\ pc = "kill" /\ w \in Recorded
    /\ Die({w})
    /\ UNCHANGED <<rows, files, coordinator, outbox, bounds>>

\* Mistake: not waiting for the processes to be gone.
RecoverEarly ==
    /\ pc = "kill"
    /\ Goto("recover")
    /\ UNCHANGED <<rows, files, workers, bounds>>

RecoverKilled ==
    /\ pc = "kill" /\ Recorded = {}
    /\ Goto("recover")
    /\ UNCHANGED <<rows, files, workers, bounds>>

\* The process outlives the wait for its death: Db::open fails.
RecoverGivesUp ==
    /\ pc = "kill" /\ Recorded # {} /\ crashes < MaxCrashes
    /\ crashes' = crashes + 1
    /\ Goto("down")
    /\ UNCHANGED <<rows, files, workers, faults>>

RecoverFinish(j) ==
    /\ pc = "recover" /\ state[j] \in Active
    /\ FinishRows(j, "interrupted")
    /\ pc' = "recover_clean" /\ cur' = j /\ UNCHANGED <<pool, report, signalled>>
    /\ UNCHANGED <<files, workers, bounds>>

RecoverClean ==
    /\ pc = "recover_clean"
    /\ CleanAttempt(cur)
    /\ pc' = "recover" /\ cur' = NoJob /\ UNCHANGED <<pool, report, signalled>>
    /\ UNCHANGED <<rows, workers, bounds>>

RecoverFails ==
    /\ \/ pc = "recover" /\ \E j \in Jobs : state[j] \in Active
       \/ pc = "recover_clean"
    /\ Fault
    /\ pc' = "down" /\ cur' = NoJob /\ UNCHANGED <<pool, report, signalled>>
    /\ UNCHANGED <<rows, files, workers>>

RecoverDone ==
    /\ pc = "recover" /\ \A j \in Jobs : state[j] \notin Active
    /\ Goto("idle")
    /\ UNCHANGED <<rows, files, workers, bounds>>
-----------------------------------------------------------------------------
(***************************************************************************)
(* The scheduler task takes one job at a time.                             *)
(***************************************************************************)

\* terminate kills the pooled worker and waits for it.
TerminatePool(place) ==
    /\ Die({pool}) /\ ClosePipe
    /\ pool' = NoWorker /\ pc' = place /\ UNCHANGED <<cur, report, signalled>>
    /\ UNCHANGED <<rows, files, bounds>>

\* Mistake: the oldest job of all instead of the oldest queued one.
OldestEver(j) == arrivals # <<>> /\ Head(arrivals) = j

\* Db::queued: the oldest queued job becomes the running one.
Oldest(j) ==
    \E i \in 1 .. Len(arrivals) :
        /\ arrivals[i] = j
        /\ \A k \in 1 .. i - 1 : state[arrivals[k]] # "queued"

Queued(j) ==
    /\ pc = "idle" /\ state[j] = "queued" /\ Oldest(j)
    /\ state' = [state EXCEPT ![j] = "running"]
    /\ pc' = "pool" /\ cur' = j /\ UNCHANGED <<pool, report, signalled>>
    /\ UNCHANGED <<arrivals, kind, stop, recorded, resultRows, files, workers, bounds>>

\* After a minute without work the worker is let go.
IdleTerminate == pc = "idle" /\ pool # NoWorker /\ TerminatePool("idle")

ReuseWorker ==
    /\ pc = "pool" /\ Alive(pool)
    /\ Goto("record")
    /\ UNCHANGED <<rows, files, workers, bounds>>

\* A token is new: recovery could not take this process for an older one.
SpawnWorker(w) ==
    /\ pc = "pool" /\ ~Alive(pool)
    /\ ~Alive(w) /\ \A j \in Jobs : state[j] \in Active => recorded[j] # w
    /\ wpc' = [wpc EXCEPT ![w] = "idle"]
    /\ outbox' = [outbox EXCEPT ![w] = <<>>]
    /\ pool' = w /\ pc' = "record" /\ UNCHANGED <<cur, report, signalled>>
    /\ UNCHANGED <<rows, files, wjob, output, inbox, bounds>>

\* Mistake: the row does not learn which process runs the job.
SetWorkerForgotten ==
    /\ pc = "record"
    /\ Goto("send")
    /\ UNCHANGED <<rows, files, workers, bounds>>

\* Db::set_worker, before the worker can learn of the job.
SetWorker ==
    /\ pc = "record"
    /\ recorded' = [recorded EXCEPT ![cur] = pool]
    /\ Goto("send")
    /\ UNCHANGED <<arrivals, kind, state, stop, resultRows, files, workers, bounds>>

Tell(line) == inbox' = [inbox EXCEPT ![pool] = @ \cup {line}]

SendSpec ==
    /\ pc = "send" /\ Alive(pool)
    /\ Tell("spec")
    /\ wjob' = [wjob EXCEPT ![pool] = cur]
    /\ Goto("loop")
    /\ UNCHANGED <<rows, files, wpc, output, outbox, bounds>>

\* A write to a worker that is gone: the control pipe is broken.
BrokenPipe ==
    /\ pc \in {"send", "acked", "rejected"} /\ ~Alive(pool)
    /\ Reports("lost", "interrupted")
    /\ UNCHANGED <<rows, files, workers, bounds>>

\* Any other call of run_job returns an error.
RunJobFails ==
    /\ pc \in {"pool", "record", "loop"}
    /\ Fault
    /\ Reports("lost", "failed")
    /\ UNCHANGED <<rows, files, workers>>
-----------------------------------------------------------------------------
(***************************************************************************)
(* The select loop of run_job: frames of the worker against a 10 ms tick.  *)
(***************************************************************************)
Received(type) ==
    /\ pc = "loop" /\ outbox[pool] # <<>> /\ Head(outbox[pool]).type = type

Frame == Head(outbox[pool])
Consume == outbox' = [outbox EXCEPT ![pool] = Tail(@)]

HandleSchema ==
    /\ Received("schema") /\ Consume
    /\ schema' = schema \cup {cur}
    /\ UNCHANGED <<jobRows, count, filed, progress, revs, dataset, changed, files,
                   coordinator, inside, inbox, bounds>>

\* What Db::publish insists on before it touches a file.
Publishable(part) ==
    /\ state[cur] = "running"
    /\ part.seq = count[cur]
    /\ cur \in schema
    /\ kind[cur] \in Analysis => part.progress > progress[cur]
    /\ kind[cur] = "aggregate" => part.seq = 0 /\ part.progress = Fragments

\* The rows of one published part; a previewed job shows it at once.
Shown(part) ==
    IF kind[cur] \in Previewed
    THEN <<[cutoff |-> part.seq + 1, final |-> FALSE, coverage |-> part.progress]>>
    ELSE <<>>

PublishRows(part) ==
    /\ count' = [count EXCEPT ![cur] = @ + 1]
    /\ filed' = IF part.inline THEN filed ELSE filed \cup {<<cur, part.seq>>}
    /\ progress' = [progress EXCEPT ![cur] = part.progress]
    /\ revs' = [revs EXCEPT ![cur] = @ \o Shown(part)]
    /\ UNCHANGED <<jobRows, schema, dataset, changed>>

PublishInline ==
    /\ Received("part") /\ Publishable(Frame) /\ Frame.inline
    /\ PublishRows(Frame)
    /\ Consume
    /\ Goto("acked")
    /\ UNCHANGED <<files, inside, inbox, bounds>>

\* The file moves while the transaction is open; the rows follow.
PublishRename ==
    /\ Received("part") /\ Publishable(Frame) /\ ~Frame.inline
    /\ LET file == <<cur, Frame.seq>> IN
       /\ file \in staging
       /\ staging' = staging \ {file}
       /\ store' = store \cup {file}
    /\ Goto("renamed")
    /\ UNCHANGED <<rows, temps, target, sidecar, workers, bounds>>

PublishCommit ==
    /\ pc = "renamed"
    /\ PublishRows(Frame)
    /\ Consume
    /\ Goto("acked")
    /\ UNCHANGED <<files, inside, inbox, bounds>>

\* Mistake: the answer does not depend on the outcome.
PublishRejectAcked ==
    /\ Received("part") /\ ~Publishable(Frame)
    /\ Consume
    /\ Goto("acked")
    /\ UNCHANGED <<rows, files, inside, inbox, bounds>>

PublishReject ==
    /\ Received("part") /\ ~Publishable(Frame)
    /\ Consume
    /\ Goto("rejected")
    /\ UNCHANGED <<rows, files, inside, inbox, bounds>>

PublishFails ==
    /\ pc = "renamed"
    /\ Fault
    /\ Consume
    /\ Goto("rejected")
    /\ UNCHANGED <<rows, files, inside, inbox>>

AnswerOk ==
    /\ pc = "acked" /\ Alive(pool)
    /\ Tell("ok")
    /\ Goto("loop")
    /\ UNCHANGED <<rows, files, inside, outbox, bounds>>

\* A part refused for another reason than a requested stop ends run_job.
AnswerCancel ==
    /\ pc = "rejected" /\ Alive(pool)
    /\ Tell("cancel")
    /\ \/ stop[cur] # "none" /\ Goto("loop")
       \/ stop[cur] = "none" /\ Reports("lost", "failed")
    /\ UNCHANGED <<rows, files, inside, outbox, bounds>>

HandleCompleted ==
    /\ Received("completed") /\ Consume
    /\ Reports("decide", "completed")
    /\ UNCHANGED <<rows, files, inside, inbox, bounds>>

StateOfCode(code) ==
    IF code = "RESOURCE_EXHAUSTED" THEN "budget_exhausted"
    ELSE IF code = "CANCELLED" THEN "cancelled" ELSE "failed"

\* Results whose dependencies still reach the source all jobs here read; a
\* committed preparation has dropped its dependency.
Dependent == {j \in Jobs : state[j] # "absent" /\ j \notin dataset}

HandleFailed ==
    /\ Received("failed") /\ Consume
    /\ Reports("decide", StateOfCode(Frame.code))
    /\ changed' = IF Frame.code = "SOURCE_CHANGED" THEN changed \cup Dependent
                  ELSE changed
    /\ UNCHANGED <<jobRows, schema, count, filed, progress, revs, dataset, files,
                   inside, inbox, bounds>>

\* End of the worker's output without a terminal report.
HandleEof ==
    /\ pc = "loop" /\ ~Alive(pool) /\ outbox[pool] = <<>>
    /\ Reports("decide", "interrupted")
    /\ UNCHANGED <<rows, files, workers, bounds>>

Timeout ==
    /\ pc = "loop" /\ stop[cur] = "none"
    /\ RequestStop(cur, "budget_exhausted")
    /\ UNCHANGED <<files, coordinator, workers, bounds>>

Signal ==
    /\ pc = "loop" /\ stop[cur] # "none" /\ ~signalled
    /\ signalled' = TRUE
    /\ IF Alive(pool) THEN Tell("term") ELSE UNCHANGED inbox
    /\ UNCHANGED <<rows, files, pc, cur, pool, report, inside, outbox, bounds>>

\* The grace period is over.
Kill ==
    /\ pc = "loop" /\ stop[cur] # "none" /\ signalled
    /\ Die({pool})
    /\ Reports("decide", "interrupted")
    /\ UNCHANGED <<rows, files, outbox, bounds>>
-----------------------------------------------------------------------------
(***************************************************************************)
(* The end of run_job.                                                     *)
(***************************************************************************)
Reusable == report = "completed" /\ stop[cur] = "none"

Decide ==
    /\ pc = "decide"
    /\ Goto(IF Reusable THEN "finish" ELSE "terminate")
    /\ UNCHANGED <<rows, files, workers, bounds>>

Terminate == pc = "terminate" /\ TerminatePool("finish")

\* Mistake: trusting the report although the job was stopped.
ExportsReported == kind[cur] = "export" /\ report = "completed"

Exports == kind[cur] = "export" /\ Outcome(cur, report) = "completed"

Finish ==
    /\ pc = "finish" /\ ~Exports
    /\ FinishRows(cur, report)
    /\ Goto("tidy")
    /\ UNCHANGED <<files, workers, bounds>>

\* Mistake: leaving the sidecar for later.
LinkSidecarLater ==
    /\ pc = "finish" /\ Exports /\ sidecar = NoJob
    /\ Goto("sidecar")
    /\ UNCHANGED <<rows, files, workers, bounds>>

\* The sidecar is linked first; a link never replaces a file.
LinkSidecar ==
    /\ pc = "finish" /\ Exports /\ sidecar = NoJob
    /\ sidecar' = cur
    /\ Goto("sidecar")
    /\ UNCHANGED <<rows, staging, store, temps, target, workers, bounds>>

SidecarExists ==
    /\ pc = "finish" /\ Exports /\ sidecar # NoJob
    /\ Reports("lost", "failed")
    /\ UNCHANGED <<rows, files, workers, bounds>>

LinkTarget ==
    /\ pc = "sidecar" /\ target = NoJob
    /\ target' = cur
    /\ temps' = temps \ {cur}
    /\ Goto("target")
    /\ UNCHANGED <<rows, staging, store, sidecar, workers, bounds>>

TargetExists ==
    /\ pc = "sidecar" /\ target # NoJob
    /\ sidecar' = NoJob
    /\ Reports("lost", "failed")
    /\ UNCHANGED <<rows, staging, store, temps, target, workers, bounds>>

FinishExport ==
    /\ pc = "target"
    /\ FinishRows(cur, report)
    /\ Goto("tidy")
    /\ UNCHANGED <<files, workers, bounds>>

\* The transaction fails, or refuses what the worker calls complete.
FinishFails ==
    /\ pc \in {"finish", "target"}
    /\ Accepted(cur, report) => faults < MaxFaults
    /\ faults' = IF Accepted(cur, report) THEN faults + 1 ELSE faults
    /\ Reports("lost", "failed")
    /\ UNCHANGED <<rows, files, workers, crashes>>

Tidy ==
    /\ pc = "tidy"
    /\ temps' = temps \ {cur}
    /\ staging' = staging \ StagedBy(cur)
    /\ Goto("clean")
    /\ UNCHANGED <<rows, store, target, sidecar, workers, bounds>>

\* run_job_with_recovery: the worker first, then the row.
LostTerminate == pc = "lost" /\ TerminatePool("lost_finish")

LostFinish ==
    /\ pc = "lost_finish"
    /\ FinishRows(cur, report)
    /\ Goto("clean")
    /\ UNCHANGED <<files, workers, bounds>>

\* The error is dropped: the row keeps its state until the next start.
LostFinishFails ==
    /\ pc = "lost_finish"
    /\ Fault
    /\ Goto("clean")
    /\ UNCHANGED <<rows, files, workers>>

EndRun ==
    /\ pc' = "idle" /\ cur' = NoJob /\ report' = "none" /\ signalled' = FALSE
    /\ UNCHANGED pool

Clean ==
    /\ pc = "clean"
    /\ CleanAttempt(cur)
    /\ EndRun
    /\ UNCHANGED <<rows, workers, bounds>>

CleanFails ==
    /\ pc = "clean"
    /\ Fault
    /\ EndRun
    /\ UNCHANGED <<rows, files, workers>>
-----------------------------------------------------------------------------
(***************************************************************************)
(* The coordinator process ends.                                           *)
(***************************************************************************)
Stopped ==
    /\ crashes < MaxCrashes /\ crashes' = crashes + 1
    /\ pc' = "down" /\ cur' = NoJob /\ pool' = NoWorker
    /\ report' = "none" /\ signalled' = FALSE
    /\ ClosePipe
    /\ UNCHANGED <<rows, files, faults>>

\* Killed: its transaction rolls back, its worker lives on for a while.
Crash == pc # "down" /\ Stopped /\ UNCHANGED <<inside, inbox>>

\* SIGTERM or a minute of idleness: the scheduler task is dropped where it
\* awaits, and its worker is killed with it.
Shutdown ==
    /\ pc \in {"idle", "send", "loop", "acked", "rejected", "terminate", "lost"}
    /\ Stopped
    /\ Die({pool})
-----------------------------------------------------------------------------
(***************************************************************************)
(* A worker process.  Its reader thread routes lines at any time; what it  *)
(* writes reaches only the coordinator that spawned it.                    *)
(***************************************************************************)
WorkerGoto(w, place) ==
    /\ wpc' = [wpc EXCEPT ![w] = place]
    /\ UNCHANGED <<rows, store, target, sidecar, coordinator, bounds>>

Send(w, message) == w = pool /\ outbox' = [outbox EXCEPT ![w] = Append(@, message)]

\* The job is over for the worker: it drops the job and awaits the next.
EndJob(w) ==
    /\ WorkerGoto(w, "idle")
    /\ wjob' = [wjob EXCEPT ![w] = NoJob]
    /\ output' = [output EXCEPT ![w] = NoOutput]
    /\ UNCHANGED <<staging, temps>>

Take(w) ==
    /\ wpc[w] = "idle" /\ "spec" \in inbox[w]
    /\ inbox' = [inbox EXCEPT ![w] = @ \ {"spec"}]
    /\ WorkerGoto(w, "planning")
    /\ UNCHANGED <<staging, temps, wjob, output, outbox>>

SendSchema(w) ==
    /\ wpc[w] = "planning" /\ kind[wjob[w]] # "export"
    /\ Send(w, [type |-> "schema"])
    /\ WorkerGoto(w, "running")
    /\ UNCHANGED <<staging, temps, wjob, output, inbox>>

\* The whole export is written before the worker reports.
StageExport(w) ==
    /\ wpc[w] = "planning" /\ kind[wjob[w]] = "export" /\ target = NoJob
    /\ temps' = temps \cup {wjob[w]}
    /\ WorkerGoto(w, "running")
    /\ UNCHANGED <<staging, wjob, output, inbox, outbox>>

\* The fragments a part of this job may cover: a checkpoint follows the last
\* one, and without previews there is only the complete one.
Coverages(w) ==
    IF kind[wjob[w]] = "checkpoints" THEN output[w].covered + 1 .. Fragments
    ELSE IF kind[wjob[w]] = "aggregate" THEN {Fragments} \ {output[w].covered}
    ELSE {0}

\* Output grows in memory or, past the inline limit, in a staging file.
Stage(w) ==
    /\ wpc[w] = "running" /\ kind[wjob[w]] # "export" /\ output[w].parts < MaxParts
    /\ \E inline \in BOOLEAN, covered \in Coverages(w) :
          /\ kind[wjob[w]] = "prepare" => ~inline
          /\ kind[wjob[w]] \in Analysis => inline
          /\ output' = [output EXCEPT ![w] = Holding(@.parts,
                [type |-> "part", seq |-> @.parts, inline |-> inline,
                 progress |-> covered], @.covered)]
          /\ staging' = IF inline THEN staging
                        ELSE staging \cup {<<wjob[w], output[w].parts>>}
    /\ WorkerGoto(w, "staged")
    /\ UNCHANGED <<temps, wjob, inbox, outbox>>

SendPart(w) ==
    /\ wpc[w] = "staged"
    /\ Send(w, output[w].staged)
    /\ output' = [output EXCEPT ![w] =
          Holding(@.parts, NoPart, @.staged.progress)]
    /\ WorkerGoto(w, "await")
    /\ UNCHANGED <<staging, temps, wjob, inbox>>

ReadOk(w) ==
    /\ wpc[w] = "await" /\ "ok" \in inbox[w]
    /\ inbox' = [inbox EXCEPT ![w] = @ \ {"ok"}]
    /\ output' = [output EXCEPT ![w] = Holding(@.parts + 1, NoPart, @.covered)]
    /\ WorkerGoto(w, "running")
    /\ UNCHANGED <<staging, temps, wjob, outbox>>

\* All input consumed and all parts acknowledged.
Complete(w) ==
    /\ wpc[w] = "running"
    /\ kind[wjob[w]] = "prepare" => output[w].parts > 0
    /\ kind[wjob[w]] \in Analysis => output[w].covered = Fragments
    /\ Send(w, [type |-> "completed", parts |-> output[w].parts])
    /\ EndJob(w)
    /\ UNCHANGED inbox

\* Validation, planning, execution, a budget or the worker's own deadline.
Fail(w) ==
    /\ wpc[w] \in Busy
    /\ \E code \in Codes \ {"CANCELLED"} : Send(w, [type |-> "failed", code |-> code])
    /\ EndJob(w)
    /\ UNCHANGED inbox

\* Executing queries watch for a stop; planning one and exporting do not.
Interruptible(w) ==
    \/ wpc[w] \in Busy \ {"planning"} /\ kind[wjob[w]] # "export"
    \/ wpc[w] = "planning" /\ kind[wjob[w]] \in Analysis

Stop(w) ==
    /\ Interruptible(w) /\ inbox[w] \cap {"cancel", "term"} # {}
    /\ Send(w, [type |-> "failed", code |-> "CANCELLED"])
    /\ EndJob(w)
    /\ inbox' = [inbox EXCEPT ![w] = @ \ {"cancel", "term"}]

\* A stop that arrives between jobs, a crash, and for a worker that lost its
\* coordinator the closed pipe or the watchdog.
Exit(w) ==
    /\ wpc[w] # "dead"
    /\ Die({w})
    /\ UNCHANGED <<rows, files, coordinator, outbox, bounds>>
-----------------------------------------------------------------------------
Recovery ==
    \/ StartCoordinator \/ RecoverKilled \/ RecoverDone \/ RecoverClean
    \/ \E w \in Workers : RecoverKill(w)
    \/ \E j \in Jobs : RecoverFinish(j)

Running ==
    \/ \E j \in Jobs : Queued(j)
    \/ \E w \in Workers : SpawnWorker(w)
    \/ ReuseWorker \/ SetWorker \/ SendSpec \/ BrokenPipe
    \/ HandleSchema \/ PublishInline \/ PublishRename \/ PublishCommit
    \/ PublishReject \/ AnswerOk \/ AnswerCancel
    \/ HandleCompleted \/ HandleFailed \/ HandleEof
    \/ Timeout \/ Signal \/ Kill

Ending ==
    \/ Decide \/ Terminate \/ Finish
    \/ LinkSidecar \/ SidecarExists \/ LinkTarget \/ TargetExists \/ FinishExport
    \/ Tidy \/ LostTerminate \/ LostFinish \/ Clean

Coordinate == Recovery \/ Running \/ Ending

\* Errors and ends no schedule promises.
Misfortune ==
    \/ RecoverGivesUp \/ RecoverFails \/ RunJobFails \/ PublishFails
    \/ FinishFails \/ LostFinishFails \/ CleanFails \/ Crash \/ Shutdown

Work(w) ==
    \/ Take(w) \/ SendSchema(w) \/ StageExport(w) \/ Stage(w) \/ SendPart(w)
    \/ ReadOk(w) \/ Complete(w) \/ Fail(w) \/ Stop(w) \/ Exit(w)

Clients == ForeignTarget \/ \E j \in Jobs : Submit(j) \/ Cancel(j)

Next ==
    \/ Coordinate \/ IdleTerminate \/ Misfortune \/ Clients
    \/ \E w \in Workers : Work(w)

Spec == Init /\ [][Next]_vars

(***************************************************************************)
(* The scheduler task and recovery are never starved, a client always      *)
(* starts a missing coordinator, and a worker without one exits.  Nothing  *)
(* is assumed of a worker that has one: it may hang.                       *)
(***************************************************************************)
Fairness ==
    /\ WF_vars(Coordinate)
    /\ \A w \in Workers : WF_vars(w # pool /\ Exit(w))

FairSpec == Spec /\ Fairness
-----------------------------------------------------------------------------
(***************************************************************************)
(* Properties.                                                             *)
(***************************************************************************)

JobsOK ==
    /\ arrivals \in Seq(Jobs)
    /\ kind \in [Jobs -> Kinds]
    /\ state \in [Jobs -> States]
    /\ stop \in [Jobs -> {"none"} \cup Reasons]
    /\ recorded \in [Jobs -> Workers \cup {NoWorker}]

ResultsOK ==
    /\ schema \subseteq Jobs /\ dataset \subseteq Jobs /\ changed \subseteq Jobs
    /\ count \in [Jobs -> Nat] /\ progress \in [Jobs -> Nat]
    /\ filed \subseteq Jobs \X Nat
    /\ revs \in [Jobs -> Seq(Revision)]

FilesOK ==
    /\ staging \subseteq Jobs \X Nat /\ store \subseteq Jobs \X Nat
    /\ temps \subseteq Jobs
    /\ target \in Jobs \cup {NoJob, Foreign} /\ sidecar \in Jobs \cup {NoJob}

CoordinatorOK ==
    /\ pc \in Places /\ cur \in Jobs \cup {NoJob}
    /\ pool \in Workers \cup {NoWorker}
    /\ report \in {"none"} \cup Terminal /\ signalled \in BOOLEAN

WorkersOK ==
    /\ wpc \in [Workers -> WorkerPlaces]
    /\ wjob \in [Workers -> Jobs \cup {NoJob}]
    /\ output \in [Workers -> Outputs]
    /\ inbox \in [Workers -> SUBSET Lines]
    /\ outbox \in [Workers -> Seq(Message)]

BoundsOK == crashes \in Nat /\ faults \in Nat

(* The shape of every row, file set, local variable and message.           *)
TypeOK == JobsOK /\ ResultsOK /\ FilesOK /\ CoordinatorOK /\ WorkersOK /\ BoundsOK

\* A worker that executes a job, or will as soon as it reads its input.
Executing(w) == wpc[w] \in Busy \/ "spec" \in inbox[w]

(* No process computes for a job that is over, whoever started it: rows    *)
(* name the worker before it has the job, ending a job waits for the       *)
(* worker, and recovery kills before it finishes (recover, run_job).       *)
ExecutingIsActive ==
    \A w \in Workers : Executing(w) => wjob[w] \in Jobs /\ state[wjob[w]] \in Active

(* At most one process computes in a workspace, over any number of         *)
(* coordinator processes (one job at a time, recovery before scheduling).  *)
SingleExecutor ==
    \A v, w \in Workers : Executing(v) /\ Executing(w) => v = w

(* Every part a committed revision covers is readable: its bytes are a     *)
(* committed blob or a file in store/, over any crash (publish).           *)
ReadableRevisions ==
    \A j \in Jobs : \A i \in 1 .. Len(revs[j]) :
        /\ revs[j][i].cutoff <= count[j]
        /\ \A seq \in 0 .. revs[j][i].cutoff - 1 :
              <<j, seq>> \in filed => <<j, seq>> \in store

(* Exactly the completed queries and aggregates have a final revision, and *)
(* nothing follows it (finish).                                            *)
FinalIffCompleted ==
    \A j \in Jobs :
        /\ \A i \in 1 .. Len(revs[j]) : revs[j][i].final =>
              i = Len(revs[j]) /\ state[j] = "completed"
        /\ state[j] = "completed" /\ kind[j] \in Query \cup Analysis =>
              revs[j] # <<>> /\ revs[j][Len(revs[j])].final

(* A prepared dataset is visible exactly when its conversion completed,    *)
(* and then with all its parts in store/ (prepare::commit).                *)
PreparedAllOrNothing ==
    \A j \in Jobs :
        /\ j \in dataset <=> kind[j] = "prepare" /\ state[j] = "completed"
        /\ j \in dataset => \A seq \in 0 .. count[j] - 1 : <<j, seq>> \in store

(* Worker and rows agree on the parts: one that is acknowledged is         *)
(* committed, at most one more is, and a worker that reports completion    *)
(* has reported every committed part (publish, Output::publish).           *)
AcknowledgedIsCommitted ==
    /\ \A w \in Workers : wpc[w] \in {"running", "staged", "await"} =>
          /\ output[w].parts <= count[wjob[w]]
          /\ count[wjob[w]] <= output[w].parts + (IF wpc[w] = "await" THEN 1 ELSE 0)
    /\ pool # NoWorker => \A i \in 1 .. Len(outbox[pool]) :
          outbox[pool][i].type = "completed" => outbox[pool][i].parts = count[cur]

(* A requested stop decides how the job ends, whatever the worker reports  *)
(* late and however the process dies (finish, cancel).                     *)
StopDecides ==
    \A j \in Jobs : state[j] \in Terminal /\ stop[j] # "none" => state[j] = stop[j]

(* A completed export has left both its files, and its data file never     *)
(* stands there without the sidecar that qualifies it (finish).            *)
ExportPair ==
    \A j \in Jobs :
        /\ target = j => sidecar = j
        /\ state[j] = "completed" /\ kind[j] = "export" => target = j

(* Unless a call of the coordinator fails, an export that was stopped      *)
(* leaves nothing at its destination (finish).                             *)
StoppedExportLeavesNothing ==
    \A j \in Jobs : state[j] \in Reasons /\ faults = 0 => target # j

(* What ended stays as it ended; revisions are only added; parts, datasets *)
(* and the destination of an export are never taken back.                  *)
HistoryStable ==
    [][/\ \A j \in Jobs :
             /\ state[j] \in Terminal =>
                   state'[j] = state[j] /\ revs'[j] = revs[j] /\ count'[j] = count[j]
             /\ Len(revs[j]) <= Len(revs'[j])
             /\ \A i \in 1 .. Len(revs[j]) : revs'[j][i] = revs[j][i]
       /\ dataset \subseteq dataset'
       /\ target # NoJob => target' = target]_vars

(* Once a stop is requested the job gains no part and no preview; what it  *)
(* already had is shown when it ends (publish, finish).                    *)
NothingAfterStop ==
    [][\A j \in Jobs : stop[j] # "none" =>
          /\ count'[j] = count[j]
          /\ revs'[j] # revs[j] => revs[j] = <<>> /\ state'[j] \in Terminal]_vars

(* No process stages files for a job that is over (recover, terminate).    *)
NoLateStaging ==
    [][\A j \in Jobs : state[j] \in Terminal => StagedBy(j)' \subseteq StagedBy(j)]_vars

(* Every accepted job ends, also when its worker hangs and the coordinator *)
(* is killed on the way, as long as no call of the coordinator fails (run  *)
(* timeout, grace period, recover).                                        *)
EventuallyTerminal ==
    \A j \in Jobs : state[j] = "queued" ~> state[j] \in Terminal \/ faults > 0

(* A job asked to stop ends with the reason it was first asked with.       *)
StopTakesEffect ==
    \A j \in Jobs, r \in Reasons :
        state[j] = "stopping" /\ stop[j] = r ~> state[j] = r \/ faults > 0

\* A client sees the rows of jobs and revisions.
Contract == INSTANCE JobContract WITH life <- state, asked <- stop, shown <- revs

(* The executing system implements the contract clients rely on.           *)
ImplementsContract == Contract!Spec

(* docs/usage.md:156: "Cancellation becomes terminal after worker exit is  *)
(* observed."  A job that ran becomes cancelled only once its worker died. *)
CancelledAfterExit ==
    [][\A j \in Jobs : state[j] \in Active /\ state'[j] = "cancelled" =>
          ~Alive(recorded[j])]_vars

(* docs/decisions/003-demand-driven-storage.md:66: "Recovery preserves     *)
(* committed previews, keeps unpublished preparation invisible, and        *)
(* removes orphaned unindexed parts."                                      *)
RecoveryRemovesOrphans ==
    pc = "recover" /\ (\A j \in Jobs : state[j] \notin Active) => store \subseteq filed
=============================================================================
