------------------------- MODULE JobExecution_proofs -------------------------
(***************************************************************************)
(* Theorems about JobExecution, for any jobs, workers and bounds: who      *)
(* computes when, then what is shown of a job.                             *)
(*                                                                         *)
(* A worker's outlook depends on where the coordinator stands: while it    *)
(* serves, only its own worker computes, only for the current job, and     *)
(* only between writing the specification and the worker's report.  While  *)
(* it is down or has not yet killed, one worker of its predecessor may     *)
(* still compute; the row of its job names it.  IInv says so.              *)
(***************************************************************************)
EXTENDS JobExecution, SequenceTheorems, TLAPS

\* No scheduler task yet.
Starting == {"down", "kill", "recover", "recover_clean"}
\* The row of the current job is marked active, or its attempt is not clean.
Held == Places \ {"down", "kill", "recover", "idle"}
Unfinished == Held \ {"recover_clean", "tidy", "clean"}
Pooled == {"record", "send", "loop", "renamed", "acked", "rejected", "decide"}
Judged == {"decide", "terminate", "finish", "sidecar", "target", "lost",
           "lost_finish"}
\* Between the specification and the report.
Computing == {"loop", "renamed", "acked", "rejected", "lost"}
Quiet == {"idle", "pool", "record", "send", "finish", "sidecar", "target",
          "tidy", "lost_finish", "clean"}

(* Local variables of the coordinator hold what its place promises.        *)
Present ==
    /\ pc \in Starting => pool = NoWorker
    /\ pc \in Held => cur \in Jobs
    /\ pc \in Pooled => pool \in Workers
    /\ pc \in Judged => report \in Terminal

CurActive == pc \in Unfinished => state[cur] \in Active

RecordedPool == pc = "send" => recorded[cur] = pool

(* Inside publish the frame is still the part whose file has moved.        *)
RenamedPart ==
    pc = "renamed" => /\ outbox[pool] # <<>>
                      /\ Frame \in PartMessage
                      /\ ~Frame.inline
                      /\ Frame.seq = count[cur]
                      /\ <<cur, Frame.seq>> \in store

(* What a worker holds depends on where it stands.                         *)
DeadQuiet == \A w \in Workers : wpc[w] = "dead" => inbox[w] = {}
TookSpec == \A w \in Workers : wpc[w] \in Busy => "spec" \notin inbox[w]
StagedPart ==
    \A w \in Workers : wpc[w] = "staged" => output[w].staged \in PartMessage

(* A computing worker is the one its job's row names.                      *)
Owned ==
    \A w \in Workers : Executing(w) =>
        wjob[w] \in Jobs /\ state[wjob[w]] \in Active /\ recorded[wjob[w]] = w

PoolExecutes ==
    pc \notin {"down", "kill"} => \A w \in Workers : Executing(w) =>
        w = pool /\ wjob[w] = cur /\ pc \in Computing

(* Nothing follows a worker's report, and the next job finds the pipe empty. *)
IsReport(message) == message.type \in {"completed", "failed"}

ReportLast ==
    pool \in Workers => \A i \in 1 .. Len(outbox[pool]) :
        IsReport(outbox[pool][i]) => i = Len(outbox[pool]) /\ ~Executing(pool)

QuietPipe ==
    pool \in Workers =>
        /\ pc \in Quiet => outbox[pool] = <<>>
        /\ pc = "decide" /\ report = "completed" => outbox[pool] = <<>>

IInv ==
    /\ TypeOK
    /\ Present /\ CurActive /\ RecordedPool /\ RenamedPart
    /\ DeadQuiet /\ TookSpec /\ StagedPart
    /\ Owned /\ PoolExecutes /\ SingleExecutor
    /\ ReportLast /\ QuietPipe
-----------------------------------------------------------------------------
(***************************************************************************)
(* Types.  First what the shared pieces of several actions return.         *)
(***************************************************************************)

(* A requested stop leaves rows of the right shape (Db::cancel).           *)
LEMMA RequestStopTyped ==
    ASSUME JobsOK, NEW j \in Jobs, NEW reason \in Reasons,
           RequestStop(j, reason)
    PROVE  JobsOK'
  BY DEF JobsOK, RequestStop, States, Terminal, Active, Reasons

(* The end of a job leaves rows of the right shape (Db::finish).           *)
LEMMA FinishRowsTyped ==
    ASSUME JobsOK, ResultsOK, NEW j \in Jobs, NEW s \in Terminal,
           FinishRows(j, s)
    PROVE  JobsOK' /\ ResultsOK'
<1>1. Outcome(j, s) \in Terminal
  BY DEF Outcome, JobsOK, Terminal, Reasons
<1>2. JobsOK'
  BY <1>1 DEF JobsOK, FinishRows, States
<1>3. RevisionsAfter(j, Outcome(j, s)) \in Seq(Revision)
  <2>1. revs[j] \in Seq(Revision)
    BY DEF ResultsOK
  <2>2. \A final \in BOOLEAN : \A n \in Nat :
            [cutoff |-> count[j], final |-> final, coverage |-> n] \in Revision
    BY DEF ResultsOK, Revision
  <2>3. \A final \in BOOLEAN : \A n \in Nat :
            Append(revs[j],
                   [cutoff |-> count[j], final |-> final, coverage |-> n])
                \in Seq(Revision)
    BY <2>1, <2>2
  <2>4. progress[j] \in Nat
    BY DEF ResultsOK
  <2>. QED
    BY <2>1, <2>3, <2>4 DEF RevisionsAfter
<1>4. DatasetsAfter(j, Outcome(j, s)) \subseteq Jobs
  BY DEF DatasetsAfter, ResultsOK
<1>. QED
  BY <1>2, <1>3, <1>4 DEF ResultsOK, FinishRows

(* A published part leaves rows of the right shape (Db::publish).          *)
LEMMA PublishRowsTyped ==
    ASSUME JobsOK, ResultsOK, cur \in Jobs, NEW part \in PartMessage,
           PublishRows(part)
    PROVE  ResultsOK'
<1>1. Shown(part) \in Seq(Revision)
  <2>1. [cutoff |-> part.seq + 1, final |-> FALSE,
         coverage |-> part.progress] \in Revision
    BY DEF Revision, PartMessage
  <2>. QED
    BY <2>1 DEF Shown
<1>2. revs' \in [Jobs -> Seq(Revision)]
  BY <1>1 DEF PublishRows, ResultsOK
<1>3. filed' \subseteq Jobs \X Nat
  BY DEF PublishRows, ResultsOK, PartMessage
<1>. QED
  BY <1>2, <1>3 DEF PublishRows, ResultsOK, PartMessage

(* A process that ends leaves what is left of it well formed.               *)
LEMMA DieTyped ==
    ASSUME WorkersOK, NEW ws, Die(ws)
    PROVE  /\ wpc' \in [Workers -> WorkerPlaces]
           /\ wjob' \in [Workers -> Jobs \cup {NoJob}]
           /\ output' \in [Workers -> Outputs]
           /\ inbox' \in [Workers -> SUBSET Lines]
  BY DEF WorkersOK, Die, WorkerPlaces, NoOutput, Holding, Outputs

(* So does a pipe that is closed, read, or written to.                      *)
LEMMA ClosePipeTyped ==
    ASSUME WorkersOK, ClosePipe
    PROVE  outbox' \in [Workers -> Seq(Message)]
  BY DEF WorkersOK, ClosePipe

LEMMA ConsumeTyped ==
    ASSUME WorkersOK, pool \in Workers, outbox[pool] # <<>>, Consume
    PROVE  outbox' \in [Workers -> Seq(Message)]
  BY DEF WorkersOK, Consume

LEMMA SendTyped ==
    ASSUME WorkersOK, NEW w \in Workers, NEW message \in Message,
           Send(w, message)
    PROVE  outbox' \in [Workers -> Seq(Message)]
  BY DEF WorkersOK, Send

(* The first message of the pipe is what its type says.                    *)
LEMMA HeadIsPart ==
    ASSUME WorkersOK, pool \in Workers, Received("part")
    PROVE  Frame \in PartMessage
  BY DEF WorkersOK, Received, Frame, Message, SchemaMessage, PartMessage,
         CompletedMessage, FailedMessage

(* Rows of jobs: submit, queued, set_worker, cancel and finish.             *)
LEMMA JobsTyped == ASSUME IInv, Next PROVE JobsOK'
<1>1. ASSUME UNCHANGED jobRows PROVE JobsOK'
  BY <1>1 DEF IInv, TypeOK, JobsOK, jobRows
<1>2. ASSUME NEW j \in Jobs, RecoverFinish(j) PROVE JobsOK'
  BY <1>2, FinishRowsTyped DEF IInv, TypeOK, RecoverFinish, Terminal
<1>3. ASSUME Finish PROVE JobsOK'
  <2>1. report \in Terminal /\ cur \in Jobs
    BY <1>3 DEF IInv, Present, Finish, Judged, Held, Places
  <2>. QED
    BY <1>3, <2>1, FinishRowsTyped DEF IInv, TypeOK, Finish
<1>4. ASSUME FinishExport PROVE JobsOK'
  <2>1. report \in Terminal /\ cur \in Jobs
    BY <1>4 DEF IInv, Present, FinishExport, Judged, Held, Places
  <2>. QED
    BY <1>4, <2>1, FinishRowsTyped DEF IInv, TypeOK, FinishExport
<1>5. ASSUME LostFinish PROVE JobsOK'
  <2>1. report \in Terminal /\ cur \in Jobs
    BY <1>5 DEF IInv, Present, LostFinish, Judged, Held, Places
  <2>. QED
    BY <1>5, <2>1, FinishRowsTyped DEF IInv, TypeOK, LostFinish
<1>6. ASSUME NEW j \in Jobs, Queued(j) PROVE JobsOK'
  BY <1>6 DEF IInv, TypeOK, JobsOK, Queued, States, Active
<1>7. ASSUME SetWorker PROVE JobsOK'
  BY <1>7 DEF IInv, TypeOK, JobsOK, CoordinatorOK, SetWorker
<1>8. ASSUME Timeout PROVE JobsOK'
  <2>1. cur \in Jobs
    BY <1>8 DEF IInv, Present, Timeout, Held, Places
  <2>. QED
    BY <1>8, <2>1, RequestStopTyped DEF IInv, TypeOK, Timeout, Reasons
<1>9. ASSUME NEW j \in Jobs, Submit(j) PROVE JobsOK'
  <2>1. KindsOf[j] \subseteq Kinds
    BY KindsAssumption
  <2>. QED
    BY <1>9, <2>1 DEF IInv, TypeOK, JobsOK, Submit, States
<1>10. ASSUME NEW j \in Jobs, Cancel(j) PROVE JobsOK'
  BY <1>10, RequestStopTyped DEF IInv, TypeOK, Cancel, Reasons
<1>11. ASSUME Recovery PROVE UNCHANGED jobRows \/ (\E j \in Jobs :
       RecoverFinish(j))
  BY <1>11 DEF Recovery, StartCoordinator, Goto, RecoverKilled, RecoverDone,
         RecoverClean, CleanAttempt, RecoverKill, Die, rows, jobRows
<1>12. ASSUME Running PROVE UNCHANGED jobRows \/ (\E j \in Jobs : Queued(j)) \/
       SetWorker \/ Timeout
  BY <1>12
     DEF Running, SpawnWorker, ReuseWorker, Goto, SendSpec, Tell, BrokenPipe,
         Reports, HandleSchema, Consume, PublishInline, PublishRows,
         PublishRename, PublishCommit, PublishReject, AnswerOk, AnswerCancel,
         HandleCompleted, HandleFailed, HandleEof, Signal, Kill, Die, rows,
         jobRows
<1>13. ASSUME Ending PROVE UNCHANGED jobRows \/ Finish \/ FinishExport \/
       LostFinish
  BY <1>13 DEF Ending, Decide, Goto, Terminate, TerminatePool, Die, ClosePipe,
         LinkSidecar, SidecarExists, Reports, LinkTarget, TargetExists, Tidy,
         LostTerminate, Clean, CleanAttempt, EndRun, rows, jobRows
<1>14. ASSUME Misfortune PROVE UNCHANGED jobRows
  BY <1>14 DEF Misfortune, RecoverGivesUp, Goto, RecoverFails, Fault,
         RunJobFails, Reports, PublishFails, Consume, FinishFails,
         LostFinishFails, CleanFails, EndRun, Crash, Stopped, ClosePipe,
         Shutdown, Die, rows, jobRows
<1>15. ASSUME Clients PROVE UNCHANGED jobRows \/ (\E j \in Jobs : Submit(j)) \/
       (\E j \in Jobs : Cancel(j))
  BY <1>15 DEF Clients, ForeignTarget, rows, jobRows
<1>16. ASSUME NEW w \in Workers, Work(w) PROVE UNCHANGED jobRows
  BY <1>16 DEF Work, Take, WorkerGoto, SendSchema, Send, StageExport, Stage,
         SendPart, ReadOk, Complete, EndJob, Fail, Stop, Exit, Die, rows,
         jobRows
<1>17. ASSUME IdleTerminate PROVE UNCHANGED jobRows
  BY <1>17 DEF IdleTerminate, TerminatePool, Die, ClosePipe, rows, jobRows
<1>. QED
  BY <1>1, <1>2, <1>3, <1>4, <1>5, <1>6, <1>7, <1>8, <1>9, <1>10,
         <1>11, <1>12, <1>13, <1>14, <1>15, <1>16, <1>17 DEF Next, Coordinate

(* Results, revisions, parts and datasets.                                  *)
LEMMA ResultsTyped == ASSUME IInv, Next PROVE ResultsOK'
<1>1. ASSUME UNCHANGED resultRows PROVE ResultsOK'
  BY <1>1 DEF IInv, TypeOK, ResultsOK, resultRows
<1>2. ASSUME NEW j \in Jobs, RecoverFinish(j) PROVE ResultsOK'
  BY <1>2, FinishRowsTyped DEF IInv, TypeOK, RecoverFinish, Terminal
<1>3. ASSUME Finish PROVE ResultsOK'
  <2>1. report \in Terminal /\ cur \in Jobs
    BY <1>3 DEF IInv, Present, Finish, Judged, Held, Places
  <2>. QED
    BY <1>3, <2>1, FinishRowsTyped DEF IInv, TypeOK, Finish
<1>4. ASSUME FinishExport PROVE ResultsOK'
  <2>1. report \in Terminal /\ cur \in Jobs
    BY <1>4 DEF IInv, Present, FinishExport, Judged, Held, Places
  <2>. QED
    BY <1>4, <2>1, FinishRowsTyped DEF IInv, TypeOK, FinishExport
<1>5. ASSUME LostFinish PROVE ResultsOK'
  <2>1. report \in Terminal /\ cur \in Jobs
    BY <1>5 DEF IInv, Present, LostFinish, Judged, Held, Places
  <2>. QED
    BY <1>5, <2>1, FinishRowsTyped DEF IInv, TypeOK, LostFinish
<1>6. ASSUME HandleSchema PROVE ResultsOK'
  <2>1. cur \in Jobs
    BY <1>6 DEF IInv, Present, HandleSchema, Received, Held, Places
  <2>. QED
    BY <1>6, <2>1 DEF IInv, TypeOK, ResultsOK, HandleSchema
<1>7. ASSUME PublishInline PROVE ResultsOK'
  <2>1. cur \in Jobs /\ pool \in Workers
    BY <1>7 DEF IInv, Present, PublishInline, Received, Held, Pooled, Places
  <2>2. Frame \in PartMessage
    BY <1>7, <2>1, HeadIsPart DEF IInv, TypeOK, PublishInline
  <2>. QED
    BY <1>7, <2>1, <2>2, PublishRowsTyped DEF IInv, TypeOK, PublishInline
<1>8. ASSUME PublishCommit PROVE ResultsOK'
  <2>1. cur \in Jobs /\ pool \in Workers
    BY <1>8 DEF IInv, Present, PublishCommit, Held, Pooled, Places
  <2>2. Frame \in PartMessage
    BY <1>8 DEF IInv, RenamedPart, PublishCommit
  <2>. QED
    BY <1>8, <2>1, <2>2, PublishRowsTyped DEF IInv, TypeOK, PublishCommit
<1>9. ASSUME HandleFailed PROVE ResultsOK'
  BY <1>9 DEF IInv, TypeOK, ResultsOK, HandleFailed, Dependent
<1>10. ASSUME Recovery PROVE UNCHANGED resultRows \/ (\E j \in Jobs :
       RecoverFinish(j))
  BY <1>10 DEF Recovery, StartCoordinator, Goto, RecoverKilled, RecoverDone,
         RecoverClean, CleanAttempt, RecoverKill, Die, rows, resultRows
<1>11. ASSUME Running PROVE UNCHANGED resultRows \/ HandleSchema \/
       PublishInline \/ PublishCommit \/ HandleFailed
  BY <1>11 DEF Running, Queued, SpawnWorker, ReuseWorker, Goto, SetWorker,
         SendSpec, Tell, BrokenPipe, Reports, PublishRename, PublishReject,
         Consume, AnswerOk, AnswerCancel, HandleCompleted, HandleEof, Timeout,
         RequestStop, Signal, Kill, Die, rows, resultRows
<1>12. ASSUME Ending PROVE UNCHANGED resultRows \/ Finish \/ FinishExport \/
       LostFinish
  BY <1>12 DEF Ending, Decide, Goto, Terminate, TerminatePool, Die, ClosePipe,
         LinkSidecar, SidecarExists, Reports, LinkTarget, TargetExists, Tidy,
         LostTerminate, Clean, CleanAttempt, EndRun, rows, resultRows
<1>13. ASSUME Misfortune PROVE UNCHANGED resultRows
  BY <1>13 DEF Misfortune, RecoverGivesUp, Goto, RecoverFails, Fault,
         RunJobFails, Reports, PublishFails, Consume, FinishFails,
         LostFinishFails, CleanFails, EndRun, Crash, Stopped, ClosePipe,
         Shutdown, Die, rows, resultRows
<1>14. ASSUME Clients PROVE UNCHANGED resultRows
  BY <1>14 DEF Clients, ForeignTarget, Submit, Cancel, RequestStop, rows,
         resultRows
<1>15. ASSUME NEW w \in Workers, Work(w) PROVE UNCHANGED resultRows
  BY <1>15 DEF Work, Take, WorkerGoto, SendSchema, Send, StageExport, Stage,
         SendPart, ReadOk, Complete, EndJob, Fail, Stop, Exit, Die, rows,
         resultRows
<1>16. ASSUME IdleTerminate PROVE UNCHANGED resultRows
  BY <1>16 DEF IdleTerminate, TerminatePool, Die, ClosePipe, rows, resultRows
<1>. QED
  BY <1>1, <1>2, <1>3, <1>4, <1>5, <1>6, <1>7, <1>8, <1>9, <1>10,
         <1>11, <1>12, <1>13, <1>14, <1>15, <1>16 DEF Next, Coordinate

(* Files of attempts, results and exports.                                  *)
LEMMA FilesTyped == ASSUME IInv, Next PROVE FilesOK'
<1>1. ASSUME UNCHANGED files PROVE FilesOK'
  BY <1>1 DEF IInv, TypeOK, FilesOK, files
<1>2. ASSUME RecoverClean PROVE FilesOK'
  BY <1>2 DEF IInv, TypeOK, FilesOK, RecoverClean, CleanAttempt
<1>3. ASSUME PublishRename PROVE FilesOK'
  <2>1. <<cur, Frame.seq>> \in Jobs \X Nat
    BY <1>3 DEF IInv, TypeOK, FilesOK, PublishRename
  <2>. QED
    BY <1>3, <2>1 DEF IInv, TypeOK, FilesOK, PublishRename
<1>4. ASSUME LinkSidecar PROVE FilesOK'
  <2>1. cur \in Jobs
    BY <1>4 DEF IInv, Present, LinkSidecar, Held, Places
  <2>. QED
    BY <1>4, <2>1 DEF IInv, TypeOK, FilesOK, LinkSidecar, Goto
<1>5. ASSUME LinkTarget PROVE FilesOK'
  <2>1. cur \in Jobs
    BY <1>5 DEF IInv, Present, LinkTarget, Held, Places
  <2>. QED
    BY <1>5, <2>1 DEF IInv, TypeOK, FilesOK, LinkTarget, Goto
<1>6. ASSUME TargetExists PROVE FilesOK'
  BY <1>6 DEF IInv, TypeOK, FilesOK, TargetExists
<1>7. ASSUME Tidy PROVE FilesOK'
  BY <1>7 DEF IInv, TypeOK, FilesOK, Tidy
<1>8. ASSUME Clean PROVE FilesOK'
  BY <1>8 DEF IInv, TypeOK, FilesOK, Clean, CleanAttempt
<1>9. ASSUME ForeignTarget PROVE FilesOK'
  BY <1>9 DEF IInv, TypeOK, FilesOK, ForeignTarget
<1>10. ASSUME NEW w \in Workers, StageExport(w) PROVE FilesOK'
  <2>1. wjob[w] \in Jobs
    BY <1>10 DEF IInv, Owned, Executing, StageExport, Busy, WorkerPlaces
  <2>. QED
    BY <1>10, <2>1 DEF IInv, TypeOK, FilesOK, StageExport, WorkerGoto
<1>11. ASSUME NEW w \in Workers, Stage(w) PROVE FilesOK'
  <2>1. <<wjob[w], output[w].parts>> \in Jobs \X Nat
    BY <1>11
       DEF IInv, TypeOK, WorkersOK, Outputs, Owned, Executing, Stage, Busy,
           WorkerPlaces
  <2>2. staging' \subseteq Jobs \X Nat
    BY <1>11, <2>1 DEF IInv, TypeOK, FilesOK, Stage
  <2>. QED
    BY <1>11, <2>2 DEF IInv, TypeOK, FilesOK, Stage, WorkerGoto
<1>12. ASSUME Recovery PROVE UNCHANGED files \/ RecoverClean
  BY <1>12 DEF Recovery, StartCoordinator, Goto, RecoverKilled, RecoverDone,
         RecoverKill, Die, RecoverFinish, FinishRows, files
<1>13. ASSUME Running PROVE UNCHANGED files \/ PublishRename
  BY <1>13 DEF Running, Queued, SpawnWorker, ReuseWorker, Goto, SetWorker,
         SendSpec, Tell, BrokenPipe, Reports, HandleSchema, Consume,
         PublishInline, PublishRows, PublishCommit, PublishReject, AnswerOk,
         AnswerCancel, HandleCompleted, HandleFailed, HandleEof, Timeout,
         RequestStop, Signal, Kill, Die, files
<1>14. ASSUME Ending PROVE UNCHANGED files \/ LinkSidecar \/ LinkTarget \/
       TargetExists \/ Tidy \/ Clean
  BY <1>14 DEF Ending, Decide, Goto, Terminate, TerminatePool, Die, ClosePipe,
         Finish, FinishRows, SidecarExists, Reports, FinishExport,
         LostTerminate, LostFinish, files
<1>15. ASSUME Misfortune PROVE UNCHANGED files
  BY <1>15 DEF Misfortune, RecoverGivesUp, Goto, RecoverFails, Fault,
         RunJobFails, Reports, PublishFails, Consume, FinishFails,
         LostFinishFails, CleanFails, EndRun, Crash, Stopped, ClosePipe,
         Shutdown, Die, files
<1>16. ASSUME Clients PROVE UNCHANGED files \/ ForeignTarget
  BY <1>16 DEF Clients, Submit, Cancel, RequestStop, files
<1>17. ASSUME NEW w \in Workers, Work(w)
       PROVE  UNCHANGED files \/ StageExport(w)
       \/ Stage(w)
  BY <1>17 DEF Work, Take, WorkerGoto, SendSchema, Send, SendPart, ReadOk,
         Complete, EndJob, Fail, Stop, Exit, Die, files
<1>18. ASSUME IdleTerminate PROVE UNCHANGED files
  BY <1>18 DEF IdleTerminate, TerminatePool, Die, ClosePipe, files
<1>. QED
  BY <1>1, <1>2, <1>3, <1>4, <1>5, <1>6, <1>7, <1>8, <1>9, <1>10,
         <1>11, <1>12, <1>13, <1>14, <1>15, <1>16, <1>17, <1>18 DEF Next,
         Coordinate

(* Workers and their pipes.                                                 *)
LEMMA WorkersTyped == ASSUME IInv, Next PROVE WorkersOK'
<1>1. ASSUME UNCHANGED workers PROVE WorkersOK'
  BY <1>1 DEF IInv, TypeOK, WorkersOK, workers, inside
<1>2. ASSUME NEW w \in Workers, RecoverKill(w) PROVE WorkersOK'
  BY <1>2, DieTyped DEF IInv, TypeOK, WorkersOK, RecoverKill
<1>3. ASSUME NEW w \in Workers, SpawnWorker(w) PROVE WorkersOK'
  BY <1>3 DEF IInv, TypeOK, WorkersOK, WorkerPlaces, SpawnWorker
<1>4. ASSUME SendSpec PROVE WorkersOK'
  <2>1. pool \in Workers /\ cur \in Jobs
    BY <1>4 DEF IInv, Present, SendSpec, Pooled, Held, Places
  <2>. QED
    BY <1>4, <2>1 DEF IInv, TypeOK, WorkersOK, SendSpec, Tell, Lines
<1>5. ASSUME HandleSchema PROVE WorkersOK'
  <2>1. pool \in Workers /\ outbox[pool] # <<>>
    BY <1>5 DEF IInv, Present, HandleSchema, Received, Pooled
  <2>. QED
    BY <1>5, <2>1, ConsumeTyped
       DEF IInv, TypeOK, WorkersOK, HandleSchema, inside
<1>6. ASSUME PublishInline PROVE WorkersOK'
  <2>1. pool \in Workers /\ outbox[pool] # <<>>
    BY <1>6 DEF IInv, Present, PublishInline, Received, Pooled
  <2>. QED
    BY <1>6, <2>1, ConsumeTyped
       DEF IInv, TypeOK, WorkersOK, PublishInline, inside
<1>7. ASSUME PublishCommit PROVE WorkersOK'
  <2>1. pool \in Workers /\ outbox[pool] # <<>>
    BY <1>7 DEF IInv, Present, RenamedPart, PublishCommit, Received, Pooled
  <2>. QED
    BY <1>7, <2>1, ConsumeTyped
       DEF IInv, TypeOK, WorkersOK, PublishCommit, inside
<1>8. ASSUME PublishReject PROVE WorkersOK'
  <2>1. pool \in Workers /\ outbox[pool] # <<>>
    BY <1>8 DEF IInv, Present, PublishReject, Received, Pooled
  <2>. QED
    BY <1>8, <2>1, ConsumeTyped
       DEF IInv, TypeOK, WorkersOK, PublishReject, inside
<1>9. ASSUME PublishFails PROVE WorkersOK'
  <2>1. pool \in Workers /\ outbox[pool] # <<>>
    BY <1>9 DEF IInv, Present, RenamedPart, PublishFails, Received, Pooled
  <2>. QED
    BY <1>9, <2>1, ConsumeTyped
       DEF IInv, TypeOK, WorkersOK, PublishFails, inside
<1>10. ASSUME AnswerOk PROVE WorkersOK'
  <2>1. pool \in Workers
    BY <1>10 DEF IInv, Present, AnswerOk, Pooled
  <2>. QED
    BY <1>10, <2>1 DEF IInv, TypeOK, WorkersOK, AnswerOk, Tell, Lines, inside
<1>11. ASSUME AnswerCancel PROVE WorkersOK'
  <2>1. pool \in Workers
    BY <1>11 DEF IInv, Present, AnswerCancel, Pooled
  <2>. QED
    BY <1>11, <2>1
       DEF IInv, TypeOK, WorkersOK, AnswerCancel, Tell, Lines, inside
<1>12. ASSUME HandleCompleted PROVE WorkersOK'
  <2>1. pool \in Workers /\ outbox[pool] # <<>>
    BY <1>12 DEF IInv, Present, HandleCompleted, Received, Pooled
  <2>. QED
    BY <1>12, <2>1, ConsumeTyped
       DEF IInv, TypeOK, WorkersOK, HandleCompleted, inside
<1>13. ASSUME HandleFailed PROVE WorkersOK'
  <2>1. pool \in Workers /\ outbox[pool] # <<>>
    BY <1>13 DEF IInv, Present, HandleFailed, Received, Pooled
  <2>. QED
    BY <1>13, <2>1, ConsumeTyped
       DEF IInv, TypeOK, WorkersOK, HandleFailed, inside
<1>14. ASSUME Signal PROVE WorkersOK'
  <2>1. pool \in Workers
    BY <1>14 DEF IInv, Present, Signal, Pooled
  <2>2. inbox' = inbox \/ Tell("term")
    BY <1>14 DEF Signal
  <2>3. inbox' \in [Workers -> SUBSET Lines]
    BY <2>1, <2>2 DEF IInv, TypeOK, WorkersOK, Tell, Lines
  <2>. QED
    BY <1>14, <2>3 DEF IInv, TypeOK, WorkersOK, Signal, inside
<1>15. ASSUME Kill PROVE WorkersOK'
  BY <1>15, DieTyped DEF IInv, TypeOK, WorkersOK, Kill
<1>16. ASSUME Terminate PROVE WorkersOK'
  BY <1>16, DieTyped, ClosePipeTyped
     DEF IInv, TypeOK, WorkersOK, Terminate, TerminatePool
<1>17. ASSUME LostTerminate PROVE WorkersOK'
  BY <1>17, DieTyped, ClosePipeTyped
     DEF IInv, TypeOK, WorkersOK, LostTerminate, TerminatePool
<1>18. ASSUME IdleTerminate PROVE WorkersOK'
  BY <1>18, DieTyped, ClosePipeTyped
     DEF IInv, TypeOK, WorkersOK, IdleTerminate, TerminatePool
<1>19. ASSUME Crash PROVE WorkersOK'
  BY <1>19, ClosePipeTyped DEF IInv, TypeOK, WorkersOK, Crash, Stopped, inside
<1>20. ASSUME Shutdown PROVE WorkersOK'
  BY <1>20, DieTyped, ClosePipeTyped
     DEF IInv, TypeOK, WorkersOK, Shutdown, Stopped
<1>21. ASSUME NEW w \in Workers, Take(w) PROVE WorkersOK'
  BY <1>21 DEF IInv, TypeOK, WorkersOK, Take, WorkerGoto, WorkerPlaces
<1>22. ASSUME NEW w \in Workers, SendSchema(w) PROVE WorkersOK'
  <2>1. [type |-> "schema"] \in Message
    BY DEF Message, SchemaMessage
  <2>. QED
    BY <1>22, <2>1, SendTyped
       DEF IInv, TypeOK, WorkersOK, SendSchema, WorkerGoto, WorkerPlaces
<1>23. ASSUME NEW w \in Workers, StageExport(w) PROVE WorkersOK'
  BY <1>23 DEF IInv, TypeOK, WorkersOK, StageExport, WorkerGoto, WorkerPlaces
<1>24. ASSUME NEW w \in Workers, Stage(w) PROVE WorkersOK'
  <2>1. output[w] \in Outputs
    BY DEF IInv, TypeOK, WorkersOK
  <2>2. Coverages(w) \subseteq Nat
    BY <2>1, BoundsAssumption DEF Coverages, Outputs
  <2>3. PICK inline \in BOOLEAN, covered \in Coverages(w) :
            output' = [output EXCEPT ![w] = Holding(output[w].parts,
                [type |-> "part", seq |-> output[w].parts, inline |-> inline,
                 progress |-> covered], output[w].covered)]
    BY <1>24 DEF Stage
  <2>4. Holding(output[w].parts,
                [type |-> "part", seq |-> output[w].parts, inline |-> inline,
                 progress |-> covered], output[w].covered) \in Outputs
    BY <2>1, <2>2 DEF Holding, Outputs, PartMessage
  <2>. QED
    BY <1>24, <2>3, <2>4
       DEF IInv, TypeOK, WorkersOK, Stage, WorkerGoto, WorkerPlaces
<1>25. ASSUME NEW w \in Workers, SendPart(w) PROVE WorkersOK'
  <2>1. output[w] \in Outputs /\ output[w].staged \in PartMessage
    BY <1>25 DEF IInv, TypeOK, WorkersOK, StagedPart, SendPart
  <2>2. output[w].staged \in Message
    BY <2>1 DEF Message
  <2>3. Holding(output[w].parts, NoPart, output[w].staged.progress) \in Outputs
    BY <2>1 DEF Holding, Outputs, PartMessage
  <2>. QED
    BY <1>25, <2>2, <2>3, SendTyped
    DEF IInv, TypeOK, WorkersOK, SendPart, WorkerGoto, WorkerPlaces
<1>26. ASSUME NEW w \in Workers, ReadOk(w) PROVE WorkersOK'
  <2>1. Holding(output[w].parts + 1, NoPart, output[w].covered) \in Outputs
    BY DEF IInv, TypeOK, WorkersOK, Holding, Outputs
  <2>. QED
    BY <1>26, <2>1
       DEF IInv, TypeOK, WorkersOK, ReadOk, WorkerGoto, WorkerPlaces
<1>27. ASSUME NEW w \in Workers, Complete(w) PROVE WorkersOK'
  <2>1. NoOutput \in Outputs
    BY DEF NoOutput, Holding, Outputs
  <2>2. [type |-> "completed", parts |-> output[w].parts] \in Message
    BY <1>27
       DEF IInv, TypeOK, WorkersOK, Outputs, Complete, Message,
           CompletedMessage, FailedMessage, Codes
  <2>3. outbox' \in [Workers -> Seq(Message)]
    BY <1>27, <2>2, SendTyped DEF IInv, TypeOK, Complete
  <2>. QED
    BY <1>27, <2>1, <2>3
       DEF IInv, TypeOK, WorkersOK, Complete, EndJob, WorkerGoto, WorkerPlaces
<1>28. ASSUME NEW w \in Workers, Fail(w) PROVE WorkersOK'
  <2>1. NoOutput \in Outputs
    BY DEF NoOutput, Holding, Outputs
  <2>2. \A code \in Codes : [type |-> "failed", code |-> code] \in Message
    BY <1>28
       DEF IInv, TypeOK, WorkersOK, Outputs, Fail, Message, CompletedMessage,
           FailedMessage, Codes
  <2>3. outbox' \in [Workers -> Seq(Message)]
    BY <1>28, <2>2, SendTyped DEF IInv, TypeOK, Fail
  <2>. QED
    BY <1>28, <2>1, <2>3
       DEF IInv, TypeOK, WorkersOK, Fail, EndJob, WorkerGoto, WorkerPlaces
<1>29. ASSUME NEW w \in Workers, Stop(w) PROVE WorkersOK'
  <2>1. NoOutput \in Outputs
    BY DEF NoOutput, Holding, Outputs
  <2>2. [type |-> "failed", code |-> "CANCELLED"] \in Message
    BY <1>29
       DEF IInv, TypeOK, WorkersOK, Outputs, Stop, Message, CompletedMessage,
           FailedMessage, Codes
  <2>3. outbox' \in [Workers -> Seq(Message)]
    BY <1>29, <2>2, SendTyped DEF IInv, TypeOK, Stop
  <2>. QED
    BY <1>29, <2>1, <2>3
       DEF IInv, TypeOK, WorkersOK, Stop, EndJob, WorkerGoto, WorkerPlaces
<1>30. ASSUME NEW w \in Workers, Exit(w) PROVE WorkersOK'
  BY <1>30, DieTyped DEF IInv, TypeOK, WorkersOK, Exit
<1>31. ASSUME Recovery PROVE UNCHANGED workers \/ (\E w \in Workers :
       RecoverKill(w))
  BY <1>31 DEF Recovery, StartCoordinator, Goto, RecoverKilled, RecoverDone,
         RecoverClean, CleanAttempt, RecoverFinish, FinishRows, workers, inside
<1>32. ASSUME Running PROVE UNCHANGED workers \/ (\E w \in Workers :
       SpawnWorker(w)) \/ SendSpec \/ HandleSchema \/ PublishInline \/
       PublishCommit \/ PublishReject \/ AnswerOk \/ AnswerCancel \/
       HandleCompleted \/ HandleFailed \/ Signal \/ Kill
  BY <1>32 DEF Running, Queued, ReuseWorker, Goto, SetWorker, BrokenPipe,
         Reports, PublishRename, HandleEof, Timeout, RequestStop, workers,
         inside
<1>33. ASSUME Ending PROVE UNCHANGED workers \/ Terminate \/ LostTerminate
  BY <1>33 DEF Ending, Decide, Goto, Finish, FinishRows, LinkSidecar,
         SidecarExists, Reports, LinkTarget, TargetExists, FinishExport, Tidy,
         LostFinish, Clean, CleanAttempt, EndRun, workers, inside
<1>34. ASSUME Misfortune PROVE UNCHANGED workers \/ PublishFails \/ Crash \/
       Shutdown
  BY <1>34
     DEF Misfortune, RecoverGivesUp, Goto, RecoverFails, Fault, RunJobFails,
         Reports, FinishFails, LostFinishFails, CleanFails, EndRun, workers,
         inside
<1>35. ASSUME Clients PROVE UNCHANGED workers
  BY <1>35 DEF Clients, ForeignTarget, Submit, Cancel, RequestStop, workers,
         inside
<1>36. ASSUME NEW w \in Workers, Work(w) PROVE UNCHANGED workers \/ Take(w) \/
       SendSchema(w) \/ StageExport(w) \/ Stage(w) \/ SendPart(w) \/ ReadOk(w)
       \/ Complete(w) \/ Fail(w) \/ Stop(w) \/ Exit(w)
  BY <1>36 DEF Work, workers, inside
<1>. QED
  BY <1>1, <1>2, <1>3, <1>4, <1>5, <1>6, <1>7, <1>8, <1>9, <1>10,
         <1>11, <1>12, <1>13, <1>14, <1>15, <1>16, <1>17, <1>18, <1>19, <1>20,
         <1>21, <1>22, <1>23, <1>24, <1>25, <1>26, <1>27, <1>28, <1>29, <1>30,
         <1>31, <1>32, <1>33, <1>34, <1>35, <1>36 DEF Next, Coordinate

(* Local variables of the coordinator.                                      *)
LEMMA CoordinatorTyped == ASSUME IInv, Next PROVE CoordinatorOK'
<1>1. ASSUME Recovery PROVE CoordinatorOK'
  BY <1>1 DEF IInv, TypeOK, CoordinatorOK, coordinator, Places, Recovery,
         StartCoordinator, Goto, RecoverKilled, RecoverDone, RecoverClean,
         CleanAttempt, RecoverKill, Die, RecoverFinish, FinishRows
<1>2. ASSUME Running PROVE CoordinatorOK'
  <2>1. ASSUME NEW j \in Jobs, Queued(j) PROVE CoordinatorOK'
    BY <2>1 DEF IInv, TypeOK, CoordinatorOK, Places, Queued, coordinator
  <2>2. ASSUME NEW w \in Workers, SpawnWorker(w) PROVE CoordinatorOK'
    BY <2>2 DEF IInv, TypeOK, CoordinatorOK, Places, SpawnWorker, coordinator
  <2>3. ASSUME ReuseWorker PROVE CoordinatorOK'
    BY <2>3 DEF IInv, TypeOK, CoordinatorOK, Places, ReuseWorker, Goto,
           coordinator
  <2>4. ASSUME SetWorker PROVE CoordinatorOK'
    BY <2>4 DEF IInv, TypeOK, CoordinatorOK, Places, SetWorker, Goto,
           coordinator
  <2>5. ASSUME SendSpec PROVE CoordinatorOK'
    BY <2>5
       DEF IInv, TypeOK, CoordinatorOK, Places, SendSpec, Goto, coordinator
  <2>6. ASSUME BrokenPipe PROVE CoordinatorOK'
    BY <2>6 DEF IInv, TypeOK, CoordinatorOK, Places, BrokenPipe, Reports,
           coordinator, Terminal, Reasons
  <2>7. ASSUME HandleSchema PROVE CoordinatorOK'
    BY <2>7 DEF IInv, TypeOK, CoordinatorOK, Places, HandleSchema, coordinator
  <2>8. ASSUME PublishInline PROVE CoordinatorOK'
    BY <2>8 DEF IInv, TypeOK, CoordinatorOK, Places, PublishInline, Goto,
           coordinator
  <2>9. ASSUME PublishRename PROVE CoordinatorOK'
    BY <2>9 DEF IInv, TypeOK, CoordinatorOK, Places, PublishRename, Goto,
           coordinator
  <2>10. ASSUME PublishCommit PROVE CoordinatorOK'
    BY <2>10 DEF IInv, TypeOK, CoordinatorOK, Places, PublishCommit, Goto,
           coordinator
  <2>11. ASSUME PublishReject PROVE CoordinatorOK'
    BY <2>11 DEF IInv, TypeOK, CoordinatorOK, Places, PublishReject, Goto,
           coordinator
  <2>12. ASSUME AnswerOk PROVE CoordinatorOK'
    BY <2>12 DEF IInv, TypeOK, CoordinatorOK, Places, AnswerOk, Goto,
           coordinator
  <2>13. ASSUME AnswerCancel PROVE CoordinatorOK'
    BY <2>13 DEF IInv, TypeOK, CoordinatorOK, Places, AnswerCancel, Goto,
           Reports, coordinator, Terminal, Reasons
  <2>14. ASSUME HandleCompleted PROVE CoordinatorOK'
    BY <2>14 DEF IInv, TypeOK, CoordinatorOK, Places, HandleCompleted, Reports,
           coordinator, Terminal, Reasons
  <2>15. ASSUME HandleFailed PROVE CoordinatorOK'
    BY <2>15 DEF IInv, TypeOK, CoordinatorOK, Places, HandleFailed, Reports,
           coordinator, Terminal, Reasons, StateOfCode
  <2>16. ASSUME HandleEof PROVE CoordinatorOK'
    BY <2>16 DEF IInv, TypeOK, CoordinatorOK, Places, HandleEof, Reports,
           coordinator, Terminal, Reasons
  <2>17. ASSUME Timeout PROVE CoordinatorOK'
    BY <2>17 DEF IInv, TypeOK, CoordinatorOK, Places, Timeout, coordinator
  <2>18. ASSUME Signal PROVE CoordinatorOK'
    BY <2>18 DEF IInv, TypeOK, CoordinatorOK, Places, Signal, coordinator
  <2>19. ASSUME Kill PROVE CoordinatorOK'
    BY <2>19 DEF IInv, TypeOK, CoordinatorOK, Places, Kill, Reports,
           coordinator, Terminal, Reasons
  <2>. QED
    BY <1>2, <2>1, <2>2, <2>3, <2>4, <2>5, <2>6, <2>7, <2>8, <2>9, <2>10,
       <2>11,
           <2>12, <2>13, <2>14, <2>15, <2>16, <2>17, <2>18, <2>19 DEF Running
<1>3. ASSUME Ending PROVE CoordinatorOK'
  BY <1>3 DEF IInv, TypeOK, CoordinatorOK, coordinator, Places, Ending, Decide,
         Goto, Terminate, TerminatePool, Die, ClosePipe, Finish, FinishRows,
         LinkSidecar, SidecarExists, Reports, LinkTarget, TargetExists,
         FinishExport, Tidy, LostTerminate, LostFinish, Clean, CleanAttempt,
         EndRun, Terminal, Reasons
<1>4. ASSUME Misfortune PROVE CoordinatorOK'
  BY <1>4 DEF IInv, TypeOK, CoordinatorOK, coordinator, Places, Misfortune,
         RecoverGivesUp, Goto, RecoverFails, Fault, RunJobFails, Reports,
         PublishFails, Consume, FinishFails, LostFinishFails, CleanFails,
         EndRun, Crash, Stopped, ClosePipe, Shutdown, Die, Terminal, Reasons
<1>5. ASSUME Clients PROVE CoordinatorOK'
  BY <1>5 DEF IInv, TypeOK, CoordinatorOK, coordinator, Places, Clients,
         ForeignTarget, Submit, Cancel, RequestStop
<1>6. ASSUME NEW w \in Workers, Work(w) PROVE CoordinatorOK'
  BY <1>6 DEF IInv, TypeOK, CoordinatorOK, coordinator, Places, Work, Take,
         WorkerGoto, SendSchema, Send, StageExport, Stage, SendPart, ReadOk,
         Complete, EndJob, Fail, Stop, Exit, Die
<1>7. ASSUME IdleTerminate PROVE CoordinatorOK'
  BY <1>7 DEF IInv, TypeOK, CoordinatorOK, Places, IdleTerminate, TerminatePool
<1>. QED
  BY <1>1, <1>2, <1>3, <1>4, <1>5, <1>6, <1>7 DEF Next, Coordinate

(* The counters that bound the model.                                       *)
LEMMA BoundsTyped == ASSUME IInv, Next PROVE BoundsOK'
<1>1. ASSUME UNCHANGED bounds PROVE BoundsOK'
  BY <1>1 DEF IInv, TypeOK, BoundsOK, bounds
<1>2. ASSUME RecoverGivesUp PROVE BoundsOK'
  BY <1>2 DEF IInv, TypeOK, BoundsOK, RecoverGivesUp
<1>3. ASSUME FinishFails PROVE BoundsOK'
  BY <1>3 DEF IInv, TypeOK, BoundsOK, FinishFails
<1>4. ASSUME RecoverFails PROVE BoundsOK'
  BY <1>4 DEF IInv, TypeOK, BoundsOK, RecoverFails, Fault
<1>5. ASSUME RunJobFails PROVE BoundsOK'
  BY <1>5 DEF IInv, TypeOK, BoundsOK, RunJobFails, Fault
<1>6. ASSUME PublishFails PROVE BoundsOK'
  BY <1>6 DEF IInv, TypeOK, BoundsOK, PublishFails, Fault
<1>7. ASSUME LostFinishFails PROVE BoundsOK'
  BY <1>7 DEF IInv, TypeOK, BoundsOK, LostFinishFails, Fault
<1>8. ASSUME CleanFails PROVE BoundsOK'
  BY <1>8 DEF IInv, TypeOK, BoundsOK, CleanFails, Fault
<1>9. ASSUME Crash PROVE BoundsOK'
  BY <1>9 DEF IInv, TypeOK, BoundsOK, Crash, Stopped
<1>10. ASSUME Shutdown PROVE BoundsOK'
  BY <1>10 DEF IInv, TypeOK, BoundsOK, Shutdown, Stopped
<1>11. ASSUME Recovery PROVE UNCHANGED bounds
  BY <1>11 DEF Recovery, StartCoordinator, Goto, RecoverKilled, RecoverDone,
         RecoverClean, CleanAttempt, RecoverKill, Die, RecoverFinish,
         FinishRows, bounds
<1>12. ASSUME Running PROVE UNCHANGED bounds
  BY <1>12 DEF Running, Queued, SpawnWorker, ReuseWorker, Goto, SetWorker,
         SendSpec, Tell, BrokenPipe, Reports, HandleSchema, Consume,
         PublishInline, PublishRows, PublishRename, PublishCommit,
         PublishReject, AnswerOk, AnswerCancel, HandleCompleted, HandleFailed,
         HandleEof, Timeout, RequestStop, Signal, Kill, Die, bounds
<1>13. ASSUME Ending PROVE UNCHANGED bounds
  BY <1>13 DEF Ending, Decide, Goto, Terminate, TerminatePool, Die, ClosePipe,
         Finish, FinishRows, LinkSidecar, SidecarExists, Reports, LinkTarget,
         TargetExists, FinishExport, Tidy, LostTerminate, LostFinish, Clean,
         CleanAttempt, EndRun, bounds
<1>14. ASSUME Misfortune PROVE UNCHANGED bounds \/ RecoverGivesUp \/
       RecoverFails \/ RunJobFails \/ PublishFails \/ FinishFails \/
       LostFinishFails \/ CleanFails \/ Crash \/ Shutdown
  BY <1>14 DEF Misfortune, bounds
<1>15. ASSUME Clients PROVE UNCHANGED bounds
  BY <1>15 DEF Clients, ForeignTarget, Submit, Cancel, RequestStop, bounds
<1>16. ASSUME NEW w \in Workers, Work(w) PROVE UNCHANGED bounds
  BY <1>16 DEF Work, Take, WorkerGoto, SendSchema, Send, StageExport, Stage,
         SendPart, ReadOk, Complete, EndJob, Fail, Stop, Exit, Die, bounds
<1>17. ASSUME IdleTerminate PROVE UNCHANGED bounds
  BY <1>17 DEF IdleTerminate, TerminatePool, Die, ClosePipe, bounds
<1>. QED
  BY <1>1, <1>2, <1>3, <1>4, <1>5, <1>6, <1>7, <1>8, <1>9, <1>10,
         <1>11, <1>12, <1>13, <1>14, <1>15, <1>16, <1>17 DEF Next, Coordinate

(* Every step keeps the types. *)
LEMMA TypeKept == ASSUME IInv, [Next]_vars PROVE TypeOK'
<1>1. ASSUME UNCHANGED vars PROVE TypeOK'
  BY <1>1
     DEF IInv, TypeOK, JobsOK, ResultsOK, FilesOK, CoordinatorOK, WorkersOK,
         BoundsOK, vars, rows, jobRows, resultRows, files, coordinator,
         workers, inside, bounds
<1>. QED
  BY <1>1, JobsTyped, ResultsTyped, FilesTyped, WorkersTyped, CoordinatorTyped,
     BoundsTyped DEF TypeOK

(* Each place of the coordinator keeps its promises. *)
LEMMA PresentKept == ASSUME IInv, Next PROVE Present'
<1>1. ASSUME Recovery PROVE Present'
  BY <1>1 DEF Recovery, IInv, Present, Starting, Held, Pooled, Judged, Places,
         Terminal, Reasons, StartCoordinator, Goto, RecoverKilled, Alive,
         RecoverDone, RecoverClean, RecoverKill, RecoverFinish, coordinator
<1>2. ASSUME Running PROVE Present'
  BY <1>2
     DEF Running, IInv, Present, Starting, Held, Pooled, Judged, Places,
         Terminal, Reasons, Queued, SpawnWorker, Alive, ReuseWorker, Goto,
         SetWorker, SendSpec, Tell, BrokenPipe, Reports, HandleSchema,
         Received, Consume, PublishInline, PublishRows, PublishRename,
         PublishCommit, PublishReject, AnswerOk, AnswerCancel,
         HandleCompleted, HandleFailed, StateOfCode, HandleEof, Timeout,
         Signal, Kill, coordinator
<1>3. ASSUME Ending PROVE Present'
  BY <1>3 DEF Ending, IInv, Present, Starting, Held, Pooled, Judged, Places,
         Terminal, Reasons, Decide, Goto, Terminate, TerminatePool, ClosePipe,
         Finish, LinkSidecar, SidecarExists, Reports, LinkTarget, TargetExists,
         FinishExport, Tidy, LostTerminate, LostFinish, Clean, EndRun,
         coordinator
<1>4. ASSUME Misfortune PROVE Present'
  BY <1>4
     DEF Misfortune, IInv, Present, Starting, Held, Pooled, Judged, Places,
         Terminal, Reasons, RecoverGivesUp, Goto, Alive, RecoverFails,
         RunJobFails, Reports, PublishFails, Consume, FinishFails,
         LostFinishFails, CleanFails, EndRun, Crash, Stopped, ClosePipe,
         Shutdown, coordinator
<1>5. ASSUME Clients PROVE Present'
  BY <1>5 DEF Clients, IInv, Present, Starting, Held, Pooled, Judged, Places,
         Terminal, Reasons, ForeignTarget, Submit, Cancel, coordinator
<1>6. ASSUME NEW w \in Workers, Work(w) PROVE Present'
  BY <1>6 DEF Work, IInv, Present, Starting, Held, Pooled, Judged, Places,
         Terminal, Reasons, Take, WorkerGoto, SendSchema, Send, StageExport,
         Stage, SendPart, ReadOk, Complete, EndJob, Fail, Stop, Exit,
         coordinator
<1>7. ASSUME IdleTerminate PROVE Present'
  BY <1>7 DEF IdleTerminate, IInv, Present, Starting, Held, Pooled, Judged,
         Places, Terminal, Reasons, TerminatePool, ClosePipe, coordinator
<1>. QED
  BY <1>1, <1>2, <1>3, <1>4, <1>5, <1>6, <1>7 DEF Next, Coordinate

(* The current job stays active until its row is finished. *)
LEMMA CurActiveKept == ASSUME IInv, Next PROVE CurActive'
<1>1. ASSUME Recovery PROVE CurActive'
  BY <1>1 DEF Recovery, IInv, TypeOK, JobsOK, CurActive, Present, Held,
         Unfinished, Places, Active, StartCoordinator, Goto, RecoverKilled,
         RecoverDone, RecoverClean, RecoverKill, RecoverFinish, FinishRows,
         coordinator, rows, jobRows
<1>2. ASSUME Running PROVE CurActive'
  BY <1>2 DEF Running, IInv, TypeOK, JobsOK, CurActive, Present, Held,
         Unfinished, Places, Active, Queued, SpawnWorker, ReuseWorker, Goto,
         SetWorker, SendSpec, BrokenPipe, Reports, HandleSchema, Received,
         PublishInline, PublishRows, PublishRename, PublishCommit,
         PublishReject, AnswerOk, AnswerCancel, HandleCompleted, HandleFailed,
         HandleEof, Timeout, RequestStop, Signal, Kill, coordinator, rows,
         jobRows
<1>3. ASSUME Ending PROVE CurActive'
  BY <1>3 DEF Ending, IInv, TypeOK, JobsOK, CurActive, Present, Held,
         Unfinished, Places, Active, Decide, Goto, Terminate, TerminatePool,
         Finish, FinishRows, LinkSidecar, SidecarExists, Reports, LinkTarget,
         TargetExists, FinishExport, Tidy, LostTerminate, LostFinish, Clean,
         EndRun, coordinator, rows, jobRows
<1>4. ASSUME Misfortune PROVE CurActive'
  BY <1>4 DEF Misfortune, IInv, TypeOK, JobsOK, CurActive, Present, Held,
         Unfinished, Places, Active, RecoverGivesUp, Goto, RecoverFails,
         RunJobFails, Reports, PublishFails, FinishFails, LostFinishFails,
         CleanFails, EndRun, Crash, Stopped, Shutdown, coordinator, rows,
         jobRows
<1>5. ASSUME Clients PROVE CurActive'
  BY <1>5
     DEF Clients, IInv, TypeOK, JobsOK, CurActive, Present, Held, Unfinished,
         Places, Active, ForeignTarget, Submit, Cancel, RequestStop,
         coordinator, rows, jobRows
<1>6. ASSUME NEW w \in Workers, Work(w) PROVE CurActive'
  BY <1>6 DEF Work, IInv, TypeOK, JobsOK, CurActive, Present, Held, Unfinished,
         Places, Active, Take, WorkerGoto, SendSchema, StageExport, Stage,
         SendPart, ReadOk, Complete, EndJob, Fail, Stop, Exit, coordinator,
         rows, jobRows
<1>7. ASSUME IdleTerminate PROVE CurActive'
  BY <1>7 DEF IdleTerminate, IInv, TypeOK, JobsOK, CurActive, Present, Held,
         Unfinished, Places, Active, TerminatePool, coordinator, rows, jobRows
<1>. QED
  BY <1>1, <1>2, <1>3, <1>4, <1>5, <1>6, <1>7 DEF Next, Coordinate

(* The row names the worker before the worker is told of the job. *)
LEMMA RecordedPoolKept == ASSUME IInv, Next PROVE RecordedPool'
<1>1. ASSUME Recovery PROVE RecordedPool'
  BY <1>1 DEF Recovery, IInv, TypeOK, JobsOK, RecordedPool, Present, Held,
         Places, StartCoordinator, Goto, RecoverKilled, RecoverDone,
         RecoverClean, RecoverKill, RecoverFinish, FinishRows, coordinator,
         rows, jobRows
<1>2. ASSUME Running PROVE RecordedPool'
  BY <1>2 DEF Running, IInv, TypeOK, JobsOK, RecordedPool, Present, Held,
         Places, Queued, SpawnWorker, ReuseWorker, Goto, SetWorker, SendSpec,
         Tell, BrokenPipe, Reports, HandleSchema, Received, Consume,
         PublishInline, PublishRows, PublishRename, PublishCommit,
         PublishReject, AnswerOk, AnswerCancel, HandleCompleted, HandleFailed,
         HandleEof, Timeout, RequestStop, Signal, Kill, coordinator, rows,
         jobRows
<1>3. ASSUME Ending PROVE RecordedPool'
  BY <1>3
     DEF Ending, IInv, TypeOK, JobsOK, RecordedPool, Present, Held, Places,
         Decide, Goto, Terminate, TerminatePool, ClosePipe, Finish,
         FinishRows, LinkSidecar, SidecarExists, Reports, LinkTarget,
         TargetExists, FinishExport, Tidy, LostTerminate, LostFinish, Clean,
         EndRun, coordinator, rows, jobRows
<1>4. ASSUME Misfortune PROVE RecordedPool'
  BY <1>4
     DEF Misfortune, IInv, TypeOK, JobsOK, RecordedPool, Present, Held,
         Places, RecoverGivesUp, Goto, RecoverFails, RunJobFails, Reports,
         PublishFails, Consume, FinishFails, LostFinishFails, CleanFails,
         EndRun, Crash, Stopped, ClosePipe, Shutdown, coordinator, rows,
         jobRows
<1>5. ASSUME Clients PROVE RecordedPool'
  BY <1>5 DEF Clients, IInv, TypeOK, JobsOK, RecordedPool, Present, Held,
         Places, ForeignTarget, Submit, Cancel, RequestStop, coordinator, rows,
         jobRows
<1>6. ASSUME NEW w \in Workers, Work(w) PROVE RecordedPool'
  BY <1>6 DEF Work, IInv, TypeOK, JobsOK, RecordedPool, Present, Held, Places,
         Take, WorkerGoto, SendSchema, Send, StageExport, Stage, SendPart,
         ReadOk, Complete, EndJob, Fail, Stop, Exit, coordinator, rows, jobRows
<1>7. ASSUME IdleTerminate PROVE RecordedPool'
  BY <1>7 DEF IdleTerminate, IInv, TypeOK, JobsOK, RecordedPool, Present, Held,
         Places, TerminatePool, ClosePipe, coordinator, rows, jobRows
<1>. QED
  BY <1>1, <1>2, <1>3, <1>4, <1>5, <1>6, <1>7 DEF Next, Coordinate

(* Nothing waits for a dead worker. *)
LEMMA DeadQuietKept == ASSUME IInv, Next PROVE DeadQuiet'
<1>1. ASSUME Recovery PROVE DeadQuiet'
  BY <1>1 DEF Recovery, IInv, TypeOK, WorkersOK, DeadQuiet, Alive,
         StartCoordinator, RecoverKilled, RecoverDone, RecoverClean,
         RecoverKill, Die, RecoverFinish, workers, inside
<1>2. ASSUME Running PROVE DeadQuiet'
  BY <1>2 DEF Running, IInv, TypeOK, WorkersOK, DeadQuiet, Alive, Queued,
         SpawnWorker, ReuseWorker, SetWorker, SendSpec, Tell, BrokenPipe,
         HandleSchema, PublishInline, PublishRename, PublishCommit,
         PublishReject, AnswerOk, AnswerCancel, HandleCompleted, HandleFailed,
         HandleEof, Timeout, Signal, Kill, Die, workers, inside
<1>3. ASSUME Ending PROVE DeadQuiet'
  BY <1>3 DEF Ending, IInv, TypeOK, WorkersOK, DeadQuiet, Alive, Decide,
         Terminate, TerminatePool, Die, Finish, LinkSidecar, SidecarExists,
         LinkTarget, TargetExists, FinishExport, Tidy, LostTerminate,
         LostFinish, Clean, workers, inside
<1>4. ASSUME Misfortune PROVE DeadQuiet'
  BY <1>4 DEF Misfortune, IInv, TypeOK, WorkersOK, DeadQuiet, Alive,
         RecoverGivesUp, RecoverFails, RunJobFails, PublishFails, FinishFails,
         LostFinishFails, CleanFails, Crash, Shutdown, Die, workers, inside
<1>5. ASSUME Clients PROVE DeadQuiet'
  BY <1>5
     DEF Clients, IInv, TypeOK, WorkersOK, DeadQuiet, Alive, ForeignTarget,
         Submit, Cancel, workers, inside
<1>6. ASSUME NEW w \in Workers, Work(w) PROVE DeadQuiet'
  BY <1>6
     DEF Work, IInv, TypeOK, WorkersOK, DeadQuiet, Alive, Take, WorkerGoto,
         SendSchema, StageExport, Stage, SendPart, ReadOk, Complete, EndJob,
         Fail, Stop, Exit, Die, workers, inside
<1>7. ASSUME IdleTerminate PROVE DeadQuiet'
  BY <1>7 DEF IdleTerminate, IInv, TypeOK, WorkersOK, DeadQuiet, Alive,
         TerminatePool, Die, workers, inside
<1>. QED
  BY <1>1, <1>2, <1>3, <1>4, <1>5, <1>6, <1>7 DEF Next, Coordinate

(* A busy worker has no other specification waiting. *)
LEMMA TookSpecKept == ASSUME IInv, Next PROVE TookSpec'
<1>1. ASSUME Recovery PROVE TookSpec'
  BY <1>1 DEF Recovery, IInv, TypeOK, WorkersOK, TookSpec, Busy, WorkerPlaces,
         DeadQuiet, StartCoordinator, RecoverKilled, Alive, RecoverDone,
         RecoverClean, RecoverKill, Die, RecoverFinish, workers, inside
<1>2. ASSUME SendSpec PROVE TookSpec'
  <2>1. wpc[pool] \notin Busy
    BY <1>2 DEF IInv, PoolExecutes, Executing, SendSpec, Computing, Alive
  <2>. QED
    BY <1>2, <2>1 DEF IInv, TypeOK, WorkersOK, TookSpec, SendSpec, Tell
<1>3. ASSUME AnswerOk PROVE TookSpec'
  BY <1>3 DEF IInv, TypeOK, WorkersOK, TookSpec, AnswerOk, Tell, inside
<1>4. ASSUME AnswerCancel PROVE TookSpec'
  BY <1>4 DEF IInv, TypeOK, WorkersOK, TookSpec, AnswerCancel, Tell, inside
<1>5. ASSUME Signal PROVE TookSpec'
  BY <1>5 DEF IInv, TypeOK, WorkersOK, TookSpec, Signal, Tell, inside
<1>6. ASSUME Kill PROVE TookSpec'
  BY <1>6 DEF IInv, TypeOK, WorkersOK, TookSpec, Busy, WorkerPlaces, Kill, Die
<1>7. ASSUME Running PROVE TookSpec' \/ SendSpec \/ AnswerOk \/ AnswerCancel \/
       Signal \/ Kill
  BY <1>7 DEF Running, IInv, TypeOK, WorkersOK, TookSpec, Busy, WorkerPlaces,
         DeadQuiet, Queued, SpawnWorker, Alive, ReuseWorker, SetWorker,
         BrokenPipe, HandleSchema, PublishInline, PublishRename, PublishCommit,
         PublishReject, HandleCompleted, HandleFailed, HandleEof, Timeout,
         workers, inside
<1>8. ASSUME Ending PROVE TookSpec'
  BY <1>8 DEF Ending, IInv, TypeOK, WorkersOK, TookSpec, Busy, WorkerPlaces,
         DeadQuiet, Decide, Terminate, TerminatePool, Die, Finish, LinkSidecar,
         SidecarExists, LinkTarget, TargetExists, FinishExport, Tidy,
         LostTerminate, LostFinish, Clean, workers, inside
<1>9. ASSUME Misfortune PROVE TookSpec'
  BY <1>9
     DEF Misfortune, IInv, TypeOK, WorkersOK, TookSpec, Busy, WorkerPlaces,
         DeadQuiet, RecoverGivesUp, Alive, RecoverFails, RunJobFails,
         PublishFails, FinishFails, LostFinishFails, CleanFails, Crash,
         Shutdown, Die, workers, inside
<1>10. ASSUME Clients PROVE TookSpec'
  BY <1>10 DEF Clients, IInv, TypeOK, WorkersOK, TookSpec, Busy, WorkerPlaces,
         DeadQuiet, ForeignTarget, Submit, Cancel, workers, inside
<1>11. ASSUME NEW w \in Workers, Work(w) PROVE TookSpec'
  BY <1>11 DEF Work, IInv, TypeOK, WorkersOK, TookSpec, Busy, WorkerPlaces,
         DeadQuiet, Take, WorkerGoto, SendSchema, StageExport, Stage, SendPart,
         ReadOk, Complete, EndJob, Fail, Stop, Interruptible, Exit, Die,
         workers, inside
<1>12. ASSUME IdleTerminate PROVE TookSpec'
  BY <1>12 DEF IdleTerminate, IInv, TypeOK, WorkersOK, TookSpec, Busy,
         WorkerPlaces, DeadQuiet, TerminatePool, Die, workers, inside
<1>. QED
  BY <1>1, <1>2, <1>3, <1>4, <1>5, <1>6, <1>7, <1>8, <1>9, <1>10, <1>11, <1>12
         DEF Next, Coordinate

(* A worker stages one well formed part at a time. *)
LEMMA StagedPartKept == ASSUME IInv, Next PROVE StagedPart'
<1>1. ASSUME Recovery PROVE StagedPart'
  BY <1>1 DEF Recovery, IInv, TypeOK, WorkersOK, StagedPart, StartCoordinator,
         RecoverKilled, RecoverDone, RecoverClean, RecoverKill, Die,
         RecoverFinish, workers, inside
<1>2. ASSUME Running PROVE StagedPart'
  BY <1>2
     DEF Running, IInv, TypeOK, WorkersOK, StagedPart, Queued, SpawnWorker,
         ReuseWorker, SetWorker, SendSpec, BrokenPipe, HandleSchema,
         PublishInline, PublishRename, PublishCommit, PublishReject, AnswerOk,
         AnswerCancel, HandleCompleted, HandleFailed, HandleEof, Timeout,
         Signal, Kill, Die, workers, inside
<1>3. ASSUME Ending PROVE StagedPart'
  BY <1>3 DEF Ending, IInv, TypeOK, WorkersOK, StagedPart, Decide, Terminate,
         TerminatePool, Die, Finish, LinkSidecar, SidecarExists, LinkTarget,
         TargetExists, FinishExport, Tidy, LostTerminate, LostFinish, Clean,
         workers, inside
<1>4. ASSUME Misfortune PROVE StagedPart'
  BY <1>4 DEF Misfortune, IInv, TypeOK, WorkersOK, StagedPart, RecoverGivesUp,
         RecoverFails, RunJobFails, PublishFails, FinishFails, LostFinishFails,
         CleanFails, Crash, Shutdown, Die, workers, inside
<1>5. ASSUME Clients PROVE StagedPart'
  BY <1>5 DEF Clients, IInv, TypeOK, WorkersOK, StagedPart, ForeignTarget,
         Submit, Cancel, workers, inside
<1>6. ASSUME NEW w \in Workers, Stage(w) PROVE StagedPart'
  <2>1. output[w] \in Outputs
    BY DEF IInv, TypeOK, WorkersOK
  <2>2. Coverages(w) \subseteq Nat
    BY <2>1, BoundsAssumption DEF Coverages, Outputs
  <2>3. PICK inline \in BOOLEAN, covered \in Coverages(w) :
            output' = [output EXCEPT ![w] = Holding(output[w].parts,
                [type |-> "part", seq |-> output[w].parts, inline |-> inline,
                 progress |-> covered], output[w].covered)]
    BY <1>6 DEF Stage
  <2>4. [type |-> "part", seq |-> output[w].parts, inline |-> inline,
         progress |-> covered] \in PartMessage
    BY <2>1, <2>2 DEF Outputs, PartMessage
  <2>5. output'[w].staged \in PartMessage
    BY <2>3, <2>4 DEF IInv, TypeOK, WorkersOK, Holding
  <2>6. \A v \in Workers \ {w} : output'[v] = output[v] /\ wpc'[v] = wpc[v]
    BY <1>6, <2>3 DEF IInv, TypeOK, WorkersOK, Stage, WorkerGoto
  <2>. QED
    BY <2>5, <2>6 DEF IInv, StagedPart
<1>7. ASSUME NEW w \in Workers, Work(w) PROVE StagedPart' \/ Stage(w)
  BY <1>7 DEF Work, IInv, TypeOK, WorkersOK, StagedPart, Take, WorkerGoto,
         SendSchema, StageExport, SendPart, ReadOk, Complete, EndJob, Fail,
         Stop, Exit, Die, workers, inside
<1>8. ASSUME IdleTerminate PROVE StagedPart'
  BY <1>8
     DEF IdleTerminate, IInv, TypeOK, WorkersOK, StagedPart, TerminatePool,
         Die, workers, inside
<1>. QED
  BY <1>1, <1>2, <1>3, <1>4, <1>5, <1>6, <1>7, <1>8 DEF Next, Coordinate

\* A worker goes on with its job; a worker is given the current one.
GoesOn(w) == Executing(w) /\ wjob'[w] = wjob[w]
Starts(w) == SendSpec /\ w = pool

(* Only writing a specification makes a worker compute, and no step gives
   a computing worker another job. *)
LEMMA NoNewExecutor ==
    ASSUME IInv, Next, NEW v \in Workers, Executing(v)'
    PROVE  GoesOn(v) \/ Starts(v)
<1>1. ASSUME Recovery PROVE GoesOn(v) \/ Starts(v)
  BY <1>1 DEF Recovery, IInv, TypeOK, WorkersOK, TookSpec, GoesOn, Executing,
         Busy, WorkerPlaces, StartCoordinator, RecoverKilled, Alive,
         RecoverDone, RecoverClean, RecoverKill, Die, RecoverFinish, workers,
         inside
<1>2. ASSUME SendSpec PROVE GoesOn(v) \/ Starts(v)
  BY <1>2
     DEF IInv, TypeOK, WorkersOK, GoesOn, Starts, Executing, SendSpec, Tell
<1>3. ASSUME AnswerOk PROVE GoesOn(v) \/ Starts(v)
  BY <1>3
     DEF IInv, TypeOK, WorkersOK, GoesOn, Executing, AnswerOk, Tell, inside
<1>4. ASSUME AnswerCancel PROVE GoesOn(v) \/ Starts(v)
  BY <1>4
     DEF IInv, TypeOK, WorkersOK, GoesOn, Executing, AnswerCancel, Tell,
         inside
<1>5. ASSUME Signal PROVE GoesOn(v) \/ Starts(v)
  <2>1. UNCHANGED <<wpc, wjob>> /\ (inbox' = inbox \/ Tell("term"))
    BY <1>5 DEF Signal, inside
  <2>. QED
    BY <2>1 DEF IInv, TypeOK, WorkersOK, GoesOn, Executing, Tell
<1>6. ASSUME Running PROVE GoesOn(v) \/ Starts(v) \/ SendSpec \/ AnswerOk \/
       AnswerCancel \/ Signal
  BY <1>6
     DEF Running, IInv, TypeOK, WorkersOK, TookSpec, GoesOn, Executing, Busy,
         WorkerPlaces, Queued, SpawnWorker, Alive, ReuseWorker, SetWorker,
         BrokenPipe, HandleSchema, PublishInline, PublishRename,
         PublishCommit, PublishReject, HandleCompleted, HandleFailed,
         HandleEof, Timeout, Kill, Die, workers, inside
<1>7. ASSUME Ending PROVE GoesOn(v) \/ Starts(v)
  BY <1>7 DEF Ending, IInv, TypeOK, WorkersOK, TookSpec, GoesOn, Executing,
         Busy, WorkerPlaces, Decide, Terminate, TerminatePool, Die, Finish,
         LinkSidecar, SidecarExists, LinkTarget, TargetExists, FinishExport,
         Tidy, LostTerminate, LostFinish, Clean, workers, inside
<1>8. ASSUME Misfortune PROVE GoesOn(v) \/ Starts(v)
  BY <1>8 DEF Misfortune, IInv, TypeOK, WorkersOK, TookSpec, GoesOn, Executing,
         Busy, WorkerPlaces, RecoverGivesUp, Alive, RecoverFails, RunJobFails,
         PublishFails, FinishFails, LostFinishFails, CleanFails, Crash,
         Shutdown, Die, workers, inside
<1>9. ASSUME Clients PROVE GoesOn(v) \/ Starts(v)
  BY <1>9 DEF Clients, IInv, TypeOK, WorkersOK, TookSpec, GoesOn, Executing,
         Busy, WorkerPlaces, ForeignTarget, Submit, Cancel, workers, inside
<1>10. ASSUME NEW w \in Workers, Work(w) PROVE GoesOn(v) \/ Starts(v)
  BY <1>10
     DEF Work, IInv, TypeOK, WorkersOK, TookSpec, GoesOn, Executing, Busy,
         WorkerPlaces, Take, WorkerGoto, SendSchema, StageExport, Stage,
         SendPart, ReadOk, Complete, EndJob, Fail, Stop, Interruptible, Exit,
         Die, workers, inside
<1>11. ASSUME IdleTerminate PROVE GoesOn(v) \/ Starts(v)
  BY <1>11 DEF IdleTerminate, IInv, TypeOK, WorkersOK, TookSpec, GoesOn,
         Executing, Busy, WorkerPlaces, TerminatePool, Die, workers, inside
<1>. QED
  BY <1>1, <1>2, <1>3, <1>4, <1>5, <1>6, <1>7, <1>8, <1>9, <1>10, <1>11 DEF
         Next, Coordinate

\* Where the transaction that ends a job is due.
Finishing == {"recover", "finish", "target", "lost_finish"}

(* A job stops being active only when its row is finished: by recovery or
   at the end of its own run. *)
LEMMA ActiveStays ==
    ASSUME IInv, Next, NEW i \in Jobs, state[i] \in Active
    PROVE  state'[i] \in Active \/ pc \in Finishing
<1>1. ASSUME Recovery PROVE state'[i] \in Active \/ pc \in Finishing
  BY <1>1 DEF Recovery, IInv, TypeOK, JobsOK, Active, Finishing,
         StartCoordinator, Goto, RecoverKilled, RecoverDone, RecoverClean,
         RecoverKill, RecoverFinish, FinishRows, rows, jobRows, coordinator
<1>2. ASSUME Running PROVE state'[i] \in Active \/ pc \in Finishing
  BY <1>2 DEF Running, IInv, TypeOK, JobsOK, Active, Finishing, Queued,
         SpawnWorker, ReuseWorker, Goto, SetWorker, SendSpec, BrokenPipe,
         Reports, HandleSchema, PublishInline, PublishRows, PublishRename,
         PublishCommit, PublishReject, AnswerOk, AnswerCancel, HandleCompleted,
         HandleFailed, HandleEof, Timeout, RequestStop, Signal, Kill, rows,
         jobRows, coordinator
<1>3. ASSUME Ending PROVE state'[i] \in Active \/ pc \in Finishing
  BY <1>3 DEF Ending, IInv, TypeOK, JobsOK, Active, Finishing, Decide, Goto,
         Terminate, TerminatePool, Finish, FinishRows, LinkSidecar,
         SidecarExists, Reports, LinkTarget, TargetExists, FinishExport, Tidy,
         LostTerminate, LostFinish, Clean, EndRun, rows, jobRows, coordinator
<1>4. ASSUME Misfortune PROVE state'[i] \in Active \/ pc \in Finishing
  BY <1>4
     DEF Misfortune, IInv, TypeOK, JobsOK, Active, Finishing, RecoverGivesUp,
         Goto, RecoverFails, RunJobFails, Reports, PublishFails, FinishFails,
         LostFinishFails, CleanFails, EndRun, Crash, Stopped, Shutdown, rows,
         jobRows, coordinator
<1>5. ASSUME Clients PROVE state'[i] \in Active \/ pc \in Finishing
  BY <1>5 DEF Clients, IInv, TypeOK, JobsOK, Active, Finishing, ForeignTarget,
         Submit, Cancel, RequestStop, rows, jobRows, coordinator
<1>6. ASSUME NEW w \in Workers, Work(w) PROVE state'[i] \in Active \/ pc \in
       Finishing
  BY <1>6 DEF Work, IInv, TypeOK, JobsOK, Active, Finishing, Take, WorkerGoto,
         SendSchema, StageExport, Stage, SendPart, ReadOk, Complete, EndJob,
         Fail, Stop, Exit, rows, jobRows, coordinator
<1>7. ASSUME IdleTerminate PROVE state'[i] \in Active \/ pc \in Finishing
  BY <1>7 DEF IdleTerminate, IInv, TypeOK, JobsOK, Active, Finishing,
         TerminatePool, rows, jobRows, coordinator
<1>. QED
  BY <1>1, <1>2, <1>3, <1>4, <1>5, <1>6, <1>7 DEF Next, Coordinate

(* Only the coordinator about to start a job changes a row's token. *)
LEMMA TokenStays == ASSUME IInv, Next PROVE recorded' = recorded \/ SetWorker
<1>1. ASSUME Recovery PROVE recorded' = recorded \/ SetWorker
  BY <1>1 DEF Recovery, StartCoordinator, RecoverKilled, RecoverDone,
         RecoverClean, RecoverKill, RecoverFinish, FinishRows, rows, jobRows
<1>2. ASSUME SetWorker PROVE recorded' = recorded \/ SetWorker
  BY <1>2
<1>3. ASSUME Running PROVE recorded' = recorded \/ SetWorker \/ SetWorker
  BY <1>3
     DEF Running, Queued, SpawnWorker, ReuseWorker, SendSpec, BrokenPipe,
         HandleSchema, PublishInline, PublishRows, PublishRename,
         PublishCommit, PublishReject, AnswerOk, AnswerCancel,
         HandleCompleted, HandleFailed, HandleEof, Timeout, RequestStop,
         Signal, Kill, rows, jobRows
<1>4. ASSUME Ending PROVE recorded' = recorded \/ SetWorker
  BY <1>4 DEF Ending, Decide, Terminate, TerminatePool, Finish, FinishRows,
         LinkSidecar, SidecarExists, LinkTarget, TargetExists, FinishExport,
         Tidy, LostTerminate, LostFinish, Clean, rows, jobRows
<1>5. ASSUME Misfortune PROVE recorded' = recorded \/ SetWorker
  BY <1>5
     DEF Misfortune, RecoverGivesUp, RecoverFails, RunJobFails, PublishFails,
         FinishFails, LostFinishFails, CleanFails, Crash, Stopped, Shutdown,
         rows, jobRows
<1>6. ASSUME Clients PROVE recorded' = recorded \/ SetWorker
  BY <1>6
     DEF Clients, ForeignTarget, Submit, Cancel, RequestStop, rows, jobRows
<1>7. ASSUME NEW w \in Workers, Work(w) PROVE recorded' = recorded \/ SetWorker
  BY <1>7 DEF Work, Take, WorkerGoto, SendSchema, StageExport, Stage, SendPart,
         ReadOk, Complete, EndJob, Fail, Stop, Exit, rows, jobRows
<1>8. ASSUME IdleTerminate PROVE recorded' = recorded \/ SetWorker
  BY <1>8 DEF IdleTerminate, TerminatePool, rows, jobRows
<1>. QED
  BY <1>1, <1>2, <1>3, <1>4, <1>5, <1>6, <1>7, <1>8 DEF Next, Coordinate

(* A computing worker stays the one that the row of its active job names.   *)
LEMMA OwnedKept == ASSUME IInv, Next PROVE Owned'
<1>. SUFFICES ASSUME NEW v \in Workers, Executing(v)'
              PROVE  wjob'[v] \in Jobs /\ state'[wjob'[v]] \in Active
                         /\ recorded'[wjob'[v]] = v
  BY DEF Owned
<1>1. CASE Starts(v)
  <2>1. /\ pool \in Workers /\ cur \in Jobs
        /\ state[cur] \in Active /\ recorded[cur] = pool
    BY <1>1
       DEF Starts, IInv, Present, CurActive, RecordedPool, SendSpec, Pooled,
           Held, Unfinished, Places
  <2>2. wjob'[v] = cur
    BY <1>1, <2>1 DEF Starts, IInv, TypeOK, WorkersOK, SendSpec
  <2>. QED
    BY <1>1, <2>1, <2>2 DEF Starts, SendSpec, rows, jobRows
<1>2. CASE GoesOn(v)
  <2>1. wjob[v] \in Jobs /\ state[wjob[v]] \in Active /\ recorded[wjob[v]] = v
    BY <1>2 DEF GoesOn, IInv, Owned
  <2>2. pc \in {"down", "kill"} \cup Computing
    BY <1>2 DEF GoesOn, IInv, PoolExecutes
  <2>3. state'[wjob[v]] \in Active
    BY <2>1, <2>2, ActiveStays DEF Computing, Finishing
  <2>4. recorded' = recorded
    BY <2>2, TokenStays DEF Computing, SetWorker
  <2>. QED
    BY <1>2, <2>1, <2>3, <2>4 DEF GoesOn
<1>. QED
  BY <1>1, <1>2, NoNewExecutor

\* The steps after which the worker is known to be done with the job.
RunEnds == HandleCompleted \/ HandleFailed \/ HandleEof \/ Kill \/ LostTerminate

\* The run goes on.
RunGoesOn == pc' \in Computing /\ UNCHANGED <<cur, pool>>

(* While its worker may compute, the coordinator stays with the job and the
   worker, unless it ends or one of the named steps ends the run. *)
LEMMA RunStays ==
    ASSUME IInv, Next, pc \in Computing
    PROVE  pc' = "down" \/ RunEnds \/ RunGoesOn
<1>1. ASSUME Recovery PROVE pc' = "down" \/ RunEnds \/ RunGoesOn
  BY <1>1 DEF Recovery, Computing, RunGoesOn, StartCoordinator, Goto,
         RecoverKilled, RecoverDone, RecoverClean, RecoverKill, RecoverFinish,
         coordinator
<1>2. ASSUME HandleCompleted PROVE pc' = "down" \/ RunEnds \/ RunGoesOn
  BY <1>2 DEF RunEnds
<1>3. ASSUME HandleFailed PROVE pc' = "down" \/ RunEnds \/ RunGoesOn
  BY <1>3 DEF RunEnds
<1>4. ASSUME HandleEof PROVE pc' = "down" \/ RunEnds \/ RunGoesOn
  BY <1>4 DEF RunEnds
<1>5. ASSUME Kill PROVE pc' = "down" \/ RunEnds \/ RunGoesOn
  BY <1>5 DEF RunEnds
<1>6. ASSUME Running PROVE pc' = "down" \/ RunEnds \/ RunGoesOn \/
       HandleCompleted \/ HandleFailed \/ HandleEof \/ Kill
  BY <1>6 DEF Running, Computing, RunGoesOn, Queued, SpawnWorker, ReuseWorker,
         Goto, SetWorker, SendSpec, Tell, BrokenPipe, Reports, HandleSchema,
         Received, Consume, PublishInline, PublishRows, PublishRename,
         PublishCommit, PublishReject, AnswerOk, AnswerCancel, Timeout, Signal,
         coordinator
<1>7. ASSUME LostTerminate PROVE pc' = "down" \/ RunEnds \/ RunGoesOn
  BY <1>7 DEF RunEnds
<1>8. ASSUME Ending PROVE pc' = "down" \/ RunEnds \/ RunGoesOn \/ LostTerminate
  BY <1>8 DEF Ending, Computing, RunGoesOn, Decide, Goto, Terminate,
         TerminatePool, ClosePipe, Finish, LinkSidecar, SidecarExists, Reports,
         LinkTarget, TargetExists, FinishExport, Tidy, LostFinish, Clean,
         EndRun, coordinator
<1>9. ASSUME Misfortune PROVE pc' = "down" \/ RunEnds \/ RunGoesOn
  BY <1>9
     DEF Misfortune, Computing, RunGoesOn, RecoverGivesUp, Goto, RecoverFails,
         RunJobFails, Reports, PublishFails, Consume, FinishFails,
         LostFinishFails, CleanFails, EndRun, Crash, Stopped, ClosePipe,
         Shutdown, coordinator
<1>10. ASSUME Clients PROVE pc' = "down" \/ RunEnds \/ RunGoesOn
  BY <1>10 DEF Clients, Computing, RunGoesOn, ForeignTarget, Submit, Cancel,
         coordinator
<1>11. ASSUME NEW w \in Workers, Work(w) PROVE pc' = "down" \/ RunEnds \/
       RunGoesOn
  BY <1>11 DEF Work, Computing, RunGoesOn, Take, WorkerGoto, SendSchema, Send,
         StageExport, Stage, SendPart, ReadOk, Complete, EndJob, Fail, Stop,
         Exit, coordinator
<1>12. ASSUME IdleTerminate PROVE pc' = "down" \/ RunEnds \/ RunGoesOn
  BY <1>12 DEF IdleTerminate, Computing, RunGoesOn, TerminatePool, ClosePipe,
         coordinator
<1>. QED
  BY <1>1, <1>2, <1>3, <1>4, <1>5, <1>6, <1>7, <1>8, <1>9, <1>10, <1>11, <1>12
         DEF Next, Coordinate

(* Nothing but the end of the killing lets a coordinator start. *)
LEMMA StartStays ==
    ASSUME IInv, Next, pc \in {"down", "kill"}
    PROVE  pc' \in {"down", "kill"} \/ RecoverKilled
<1>1. ASSUME RecoverKilled PROVE pc' \in {"down", "kill"} \/ RecoverKilled
  BY <1>1
<1>2. ASSUME Recovery PROVE pc' \in {"down", "kill"} \/ RecoverKilled \/
       RecoverKilled
  BY <1>2 DEF Recovery, StartCoordinator, Goto, RecoverDone, RecoverClean,
         RecoverKill, RecoverFinish, coordinator
<1>3. ASSUME Running PROVE pc' \in {"down", "kill"} \/ RecoverKilled
  BY <1>3 DEF Running, Queued, SpawnWorker, ReuseWorker, Goto, SetWorker,
         SendSpec, BrokenPipe, Reports, HandleSchema, Received, PublishInline,
         PublishRename, PublishCommit, PublishReject, AnswerOk, AnswerCancel,
         HandleCompleted, HandleFailed, HandleEof, Timeout, Signal, Kill,
         coordinator
<1>4. ASSUME Ending PROVE pc' \in {"down", "kill"} \/ RecoverKilled
  BY <1>4 DEF Ending, Decide, Goto, Terminate, TerminatePool, Finish,
         LinkSidecar, SidecarExists, Reports, LinkTarget, TargetExists,
         FinishExport, Tidy, LostTerminate, LostFinish, Clean, EndRun,
         coordinator
<1>5. ASSUME Misfortune PROVE pc' \in {"down", "kill"} \/ RecoverKilled
  BY <1>5 DEF Misfortune, RecoverGivesUp, Goto, RecoverFails, RunJobFails,
         Reports, PublishFails, FinishFails, LostFinishFails, CleanFails,
         EndRun, Crash, Stopped, Shutdown, coordinator
<1>6. ASSUME Clients PROVE pc' \in {"down", "kill"} \/ RecoverKilled
  BY <1>6 DEF Clients, ForeignTarget, Submit, Cancel, coordinator
<1>7. ASSUME NEW w \in Workers, Work(w) PROVE pc' \in {"down", "kill"} \/
       RecoverKilled
  BY <1>7 DEF Work, Take, WorkerGoto, SendSchema, StageExport, Stage, SendPart,
         ReadOk, Complete, EndJob, Fail, Stop, Exit, coordinator
<1>8. ASSUME IdleTerminate PROVE pc' \in {"down", "kill"} \/ RecoverKilled
  BY <1>8 DEF IdleTerminate, TerminatePool, coordinator
<1>. QED
  BY <1>1, <1>2, <1>3, <1>4, <1>5, <1>6, <1>7, <1>8 DEF Next, Coordinate

(* Outside its start, only the coordinator's worker computes, for its job. *)
LEMMA PoolExecutesKept == ASSUME IInv, Next PROVE PoolExecutes'
<1>. SUFFICES ASSUME pc' \notin {"down", "kill"}, NEW v \in Workers,
                     Executing(v)'
              PROVE  v = pool' /\ wjob'[v] = cur' /\ pc' \in Computing
  BY DEF PoolExecutes
<1>1. CASE Starts(v)
  BY <1>1 DEF Starts, IInv, TypeOK, WorkersOK, SendSpec, Goto, Computing
<1>2. CASE GoesOn(v) /\ pc \in {"down", "kill"}
  <2>1. RecoverKilled
    BY <1>2, StartStays
  <2>2. wjob[v] \in Jobs /\ state[wjob[v]] \in Active /\ recorded[wjob[v]] = v
    BY <1>2 DEF GoesOn, IInv, Owned
  <2>3. Alive(v)
    BY <1>2 DEF GoesOn, IInv, DeadQuiet, Alive, Executing, Busy
  <2>. QED
    BY <2>1, <2>2, <2>3 DEF RecoverKilled, Recorded
<1>3. CASE GoesOn(v) /\ pc \notin {"down", "kill"}
  <2>1. v = pool /\ wjob[v] = cur /\ pc \in Computing
    BY <1>3 DEF GoesOn, IInv, PoolExecutes
  <2>2. ASSUME HandleCompleted \/ HandleFailed PROVE FALSE
    <3>1. /\ outbox[pool] \in Seq(Message) /\ outbox[pool] # <<>>
          /\ IsReport(outbox[pool][1])
      BY <2>1, <2>2 DEF IInv, TypeOK, WorkersOK, HandleCompleted, HandleFailed,
         Received, IsReport
    <3>. QED
      BY <1>3, <2>1, <3>1 DEF GoesOn, IInv, ReportLast
  <2>3. ~HandleEof
    BY <1>3, <2>1
       DEF GoesOn, IInv, HandleEof, DeadQuiet, Alive, Executing, Busy
  <2>4. ~Die({pool})
    BY <2>1 DEF Die, Executing, Busy
  <2>. QED
    BY <1>3, <2>1, <2>2, <2>3, <2>4, RunStays
    DEF GoesOn, RunGoesOn, RunEnds, Kill, LostTerminate, TerminatePool
<1>. QED
  BY <1>1, <1>2, <1>3, NoNewExecutor

(* At most one worker computes, also after its coordinator died.            *)
LEMMA SingleExecutorKept == ASSUME IInv, Next PROVE SingleExecutor'
<1>1. CASE pc' \notin {"down", "kill"}
  BY <1>1, PoolExecutesKept DEF PoolExecutes, SingleExecutor
<1>2. CASE pc' \in {"down", "kill"}
  <2>1. ~SendSpec
    BY <1>2 DEF SendSpec, Goto
  <2>. QED
    BY <2>1, NoNewExecutor DEF GoesOn, Starts, IInv, SingleExecutor
<1>. QED
  BY <1>1, <1>2

\* The coordinator takes a message; a worker adds one.
Reads == HandleSchema \/ PublishInline \/ PublishCommit \/ PublishReject
         \/ PublishFails \/ HandleCompleted \/ HandleFailed
Writes(w) == SendSchema(w) \/ SendPart(w) \/ Complete(w) \/ Fail(w) \/ Stop(w)
PipeUsed == Reads \/ \E w \in Workers : Writes(w) \/ SpawnWorker(w)

(* The pipe of the pooled worker changes when it writes or is read, and the
   pool changes when a worker is started or let go. *)
LEMMA PipeStays ==
    ASSUME IInv, Next
    PROVE  pool' = NoWorker \/ UNCHANGED <<outbox, pool>> \/ PipeUsed
<1>1. ASSUME Recovery PROVE pool' = NoWorker \/ UNCHANGED <<outbox, pool>> \/
       PipeUsed
  BY <1>1 DEF Recovery, IInv, Present, Starting, StartCoordinator, Goto,
         RecoverKilled, RecoverDone, RecoverClean, RecoverKill, RecoverFinish,
         workers, coordinator
<1>2. ASSUME NEW w \in Workers, SpawnWorker(w)
      PROVE  pool' = NoWorker \/ UNCHANGED <<outbox, pool>> \/ PipeUsed
  BY <1>2 DEF PipeUsed
<1>3. ASSUME HandleSchema
      PROVE  pool' = NoWorker \/ UNCHANGED <<outbox, pool>> \/ PipeUsed
  BY <1>3 DEF PipeUsed, Reads
<1>4. ASSUME PublishInline
      PROVE  pool' = NoWorker \/ UNCHANGED <<outbox, pool>> \/ PipeUsed
  BY <1>4 DEF PipeUsed, Reads
<1>5. ASSUME PublishCommit
      PROVE  pool' = NoWorker \/ UNCHANGED <<outbox, pool>> \/ PipeUsed
  BY <1>5 DEF PipeUsed, Reads
<1>6. ASSUME PublishReject
      PROVE  pool' = NoWorker \/ UNCHANGED <<outbox, pool>> \/ PipeUsed
  BY <1>6 DEF PipeUsed, Reads
<1>7. ASSUME HandleCompleted
      PROVE  pool' = NoWorker \/ UNCHANGED <<outbox, pool>> \/ PipeUsed
  BY <1>7 DEF PipeUsed, Reads
<1>8. ASSUME HandleFailed
      PROVE  pool' = NoWorker \/ UNCHANGED <<outbox, pool>> \/ PipeUsed
  BY <1>8 DEF PipeUsed, Reads
<1>9. ASSUME Running PROVE pool' = NoWorker \/ UNCHANGED <<outbox, pool>> \/
       PipeUsed \/ (\E w \in Workers : SpawnWorker(w)) \/ HandleSchema \/
       PublishInline \/ PublishCommit \/ PublishReject \/ HandleCompleted \/
       HandleFailed
  BY <1>9 DEF Running, IInv, Present, Starting, Queued, ReuseWorker, Goto,
         SetWorker, SendSpec, Tell, BrokenPipe, Reports, PublishRename,
         AnswerOk, AnswerCancel, HandleEof, Timeout, Signal, Kill, workers,
         coordinator
<1>10. ASSUME Ending PROVE pool' = NoWorker \/ UNCHANGED <<outbox, pool>> \/
       PipeUsed
  BY <1>10 DEF Ending, IInv, Present, Starting, Decide, Goto, Terminate,
         TerminatePool, ClosePipe, Finish, LinkSidecar, SidecarExists, Reports,
         LinkTarget, TargetExists, FinishExport, Tidy, LostTerminate,
         LostFinish, Clean, EndRun, workers, coordinator
<1>11. ASSUME PublishFails
       PROVE  pool' = NoWorker \/ UNCHANGED <<outbox, pool>> \/ PipeUsed
  BY <1>11 DEF PipeUsed, Reads
<1>12. ASSUME Misfortune
       PROVE  pool' = NoWorker \/ UNCHANGED <<outbox, pool>> \/
       PipeUsed \/ PublishFails
  BY <1>12 DEF Misfortune, IInv, Present, Starting, RecoverGivesUp, Goto,
         RecoverFails, RunJobFails, Reports, FinishFails, LostFinishFails,
         CleanFails, EndRun, Crash, Stopped, ClosePipe, Shutdown, workers,
         coordinator
<1>13. ASSUME Clients PROVE pool' = NoWorker \/ UNCHANGED <<outbox, pool>> \/
       PipeUsed
  BY <1>13 DEF Clients, IInv, Present, Starting, ForeignTarget, Submit, Cancel,
         workers, coordinator
<1>14. ASSUME NEW w \in Workers, SendSchema(w)
       PROVE  pool' = NoWorker \/ UNCHANGED <<outbox, pool>> \/ PipeUsed
  BY <1>14 DEF PipeUsed, Writes
<1>15. ASSUME NEW w \in Workers, SendPart(w)
       PROVE  pool' = NoWorker \/ UNCHANGED <<outbox, pool>> \/ PipeUsed
  BY <1>15 DEF PipeUsed, Writes
<1>16. ASSUME NEW w \in Workers, Complete(w)
       PROVE  pool' = NoWorker \/ UNCHANGED <<outbox, pool>> \/ PipeUsed
  BY <1>16 DEF PipeUsed, Writes
<1>17. ASSUME NEW w \in Workers, Fail(w)
       PROVE  pool' = NoWorker \/ UNCHANGED <<outbox, pool>> \/ PipeUsed
  BY <1>17 DEF PipeUsed, Writes
<1>18. ASSUME NEW w \in Workers, Stop(w)
       PROVE  pool' = NoWorker \/ UNCHANGED <<outbox, pool>> \/ PipeUsed
  BY <1>18 DEF PipeUsed, Writes
<1>19. ASSUME NEW w \in Workers, Work(w) PROVE pool' = NoWorker \/ UNCHANGED
       <<outbox, pool>> \/ PipeUsed \/ SendSchema(w) \/ SendPart(w) \/
       Complete(w) \/ Fail(w) \/ Stop(w)
  BY <1>19 DEF Work, IInv, Present, Starting, Take, WorkerGoto, StageExport,
         Stage, ReadOk, Exit, workers, coordinator
<1>20. ASSUME IdleTerminate
       PROVE  pool' = NoWorker \/ UNCHANGED <<outbox, pool>>
       \/ PipeUsed
  BY <1>20
     DEF IdleTerminate, IInv, Present, Starting, TerminatePool, ClosePipe,
         workers, coordinator
<1>. QED
  BY <1>1, <1>2, <1>3, <1>4, <1>5, <1>6, <1>7, <1>8, <1>9, <1>10, <1>11, <1>12,
         <1>13, <1>14, <1>15, <1>16, <1>17, <1>18, <1>19, <1>20 DEF Next,
         Coordinate

(* Reading shortens the pipe and changes no worker.                         *)
LEMMA ReadsShorten ==
    ASSUME IInv, Reads
    PROVE  /\ pool \in Workers /\ pool' = pool
           /\ outbox[pool] \in Seq(Message) /\ outbox[pool] # <<>>
           /\ outbox'[pool] = Tail(outbox[pool])
           /\ UNCHANGED <<wpc, inbox>>
<1>1. pool \in Workers /\ outbox[pool] # <<>> /\ Consume
  BY DEF Reads, IInv, Present, RenamedPart, Pooled, Received, HandleSchema,
     PublishInline, PublishCommit, PublishReject, PublishFails,
     HandleCompleted, HandleFailed
<1>2. pool' = pool /\ UNCHANGED <<wpc, inbox>>
  BY DEF Reads, HandleSchema, PublishInline, PublishCommit, PublishReject,
     PublishFails, HandleCompleted, HandleFailed, Goto, Reports, coordinator,
     inside
<1>. QED
  BY <1>1, <1>2 DEF IInv, TypeOK, WorkersOK, Consume

(* Writing lengthens it by one message, and who reports is done.            *)
LEMMA WritesExtend ==
    ASSUME IInv, NEW v \in Workers, Writes(v)
    PROVE  /\ v = pool /\ wpc[v] \in Busy /\ outbox[v] \in Seq(Message)
           /\ UNCHANGED <<rows, store, coordinator>>
           /\ \E m : /\ outbox'[v] = Append(outbox[v], m)
                     /\ IsReport(m) => ~Executing(v)'
<1>. outbox[v] \in Seq(Message)
  BY DEF IInv, TypeOK, WorkersOK
<1>1. v = pool /\ wpc[v] \in Busy /\ UNCHANGED <<rows, store, coordinator>>
  BY DEF Writes, SendSchema, SendPart, Complete, Fail, Stop, Send,
     Interruptible, Busy, WorkerPlaces, EndJob, WorkerGoto
<1>2. ASSUME SendSchema(v) \/ SendPart(v)
      PROVE  \E m : outbox'[v] = Append(outbox[v], m) /\ ~IsReport(m)
  <2>1. CASE SendSchema(v)
    BY <2>1 DEF SendSchema, Send, IsReport, IInv, TypeOK, WorkersOK
  <2>2. CASE SendPart(v)
    BY <2>2 DEF SendPart, Send, IsReport, IInv, TypeOK, WorkersOK, StagedPart,
       PartMessage
  <2>. QED
    BY <1>2, <2>1, <2>2
<1>3. ASSUME Complete(v) \/ Fail(v) \/ Stop(v)
      PROVE  \E m : outbox'[v] = Append(outbox[v], m)
  BY <1>3 DEF Complete, Fail, Stop, Send, IInv, TypeOK, WorkersOK
<1>4. ASSUME Complete(v) \/ Fail(v) \/ Stop(v)
      PROVE  ~Executing(v)'
  <2>1. wpc'[v] = "idle"
    BY <1>4
       DEF Complete, Fail, Stop, EndJob, WorkerGoto, IInv, TypeOK, WorkersOK
  <2>2. "spec" \notin inbox'[v]
    BY <1>1, <1>4 DEF Complete, Fail, Stop, IInv, TypeOK, WorkersOK, TookSpec
  <2>. QED
    BY <2>1, <2>2 DEF Executing, Busy
<1>. QED
  BY <1>1, <1>2, <1>3, <1>4 DEF Writes

(* A report stays the last message of a worker that is done.                *)
LEMMA ReportLastKept == ASSUME IInv, Next PROVE ReportLast'
<1>. SUFFICES ASSUME pool' \in Workers, NEW i \in 1 .. Len(outbox'[pool']),
                     IsReport(outbox'[pool'][i])
              PROVE  i = Len(outbox'[pool']) /\ ~Executing(pool)'
  BY DEF ReportLast
<1>1. CASE UNCHANGED <<outbox, pool>>
  <2>1. i = Len(outbox[pool]) /\ ~Executing(pool)
    BY <1>1 DEF IInv, ReportLast
  <2>2. ~SendSpec
    BY <1>1 DEF SendSpec, IInv, QuietPipe, Quiet
  <2>. QED
    BY <1>1, <2>1, <2>2, NoNewExecutor DEF GoesOn, Starts, Executing
<1>2. CASE Reads
  <2>1. /\ outbox[pool] \in Seq(Message) /\ outbox[pool] # <<>>
        /\ pool \in Workers /\ pool' = pool
        /\ outbox'[pool] = Tail(outbox[pool])
        /\ UNCHANGED <<wpc, inbox>>
    BY <1>2, ReadsShorten
  <2>2. /\ i + 1 \in 1 .. Len(outbox[pool])
        /\ outbox'[pool'][i] = outbox[pool][i + 1]
    BY <2>1
  <2>3. i + 1 = Len(outbox[pool]) /\ ~Executing(pool)
    BY <2>1, <2>2 DEF IInv, ReportLast
  <2>4. Len(outbox'[pool]) = Len(outbox[pool]) - 1
    BY <2>1
  <2>5. ~Executing(pool)'
    BY <2>1, <2>3 DEF Executing
  <2>. QED
    BY <2>1, <2>3, <2>4, <2>5
<1>3. ASSUME NEW v \in Workers, Writes(v)
      PROVE  i = Len(outbox'[pool']) /\ ~Executing(pool)'
  <2>1. /\ v = pool /\ pool' = pool /\ outbox[pool] \in Seq(Message)
        /\ Executing(pool)
    BY <1>3, WritesExtend DEF Executing, coordinator
  <2>2. PICK m : /\ outbox'[pool] = Append(outbox[pool], m)
                 /\ IsReport(m) => ~Executing(pool)'
    BY <1>3, <2>1, WritesExtend
  <2>3. \A k \in 1 .. Len(outbox[pool]) : ~IsReport(outbox[pool][k])
    BY <2>1, <1>3 DEF IInv, ReportLast
  <2>4. i = Len(outbox[pool]) + 1 /\ outbox'[pool'][i] = m
    BY <2>1, <2>2, <2>3
  <2>. QED
    BY <2>1, <2>2, <2>4
<1>4. ASSUME NEW v \in Workers, SpawnWorker(v) PROVE FALSE
  <2>1. pool' = v /\ outbox'[v] = <<>>
    BY <1>4 DEF SpawnWorker, IInv, TypeOK, WorkersOK
  <2>. QED
    BY <2>1
<1>. QED
  BY <1>1, <1>2, <1>3, <1>4, PipeStays, WorkersAssumption DEF PipeUsed

\* Nothing of an earlier job can be in the pipe.
AtRest == pc \in Quiet \/ (pc = "decide" /\ report = "completed")
Comes == HandleCompleted \/ \E w \in Workers : SpawnWorker(w)

(* Before a job, or after a completed one, the coordinator has not written
   to the worker since it read the report. *)
LEMMA QuietStays ==
    ASSUME IInv, Next, AtRest'
    PROVE  pool' = NoWorker \/ Comes \/ AtRest
<1>1. ASSUME RecoverDone PROVE pool' = NoWorker \/ Comes \/ AtRest
  BY <1>1 DEF RecoverDone, Goto, IInv, Present, Starting, AtRest
<1>2. ASSUME Recovery PROVE pool' = NoWorker \/ Comes \/ AtRest \/ RecoverDone
  BY <1>2 DEF Recovery, Quiet, AtRest, StartCoordinator, Goto, RecoverKilled,
         RecoverClean, RecoverKill, RecoverFinish, coordinator
<1>3. ASSUME NEW w \in Workers, SpawnWorker(w)
      PROVE  pool' = NoWorker \/ Comes \/ AtRest
  BY <1>3 DEF Comes
<1>4. ASSUME HandleCompleted PROVE pool' = NoWorker \/ Comes \/ AtRest
  BY <1>4 DEF Comes
<1>5. ASSUME HandleFailed PROVE pool' = NoWorker \/ Comes \/ AtRest
  BY <1>5 DEF HandleFailed, Reports, StateOfCode, Quiet, AtRest
<1>6. ASSUME Running PROVE pool' = NoWorker \/ Comes \/ AtRest \/ (\E w \in
       Workers : SpawnWorker(w)) \/ HandleCompleted \/ HandleFailed
  BY <1>6 DEF Running, Quiet, AtRest, Queued, ReuseWorker, Goto, SetWorker,
         SendSpec, Tell, BrokenPipe, Reports, HandleSchema, Received, Consume,
         PublishInline, PublishRename, PublishCommit, PublishReject, AnswerOk,
         AnswerCancel, HandleEof, Timeout, Signal, Kill, coordinator
<1>7. ASSUME Terminate PROVE pool' = NoWorker \/ Comes \/ AtRest
  BY <1>7 DEF Terminate, TerminatePool
<1>8. ASSUME LostTerminate PROVE pool' = NoWorker \/ Comes \/ AtRest
  BY <1>8 DEF LostTerminate, TerminatePool
<1>9. ASSUME Ending PROVE pool' = NoWorker \/ Comes \/ AtRest \/ Terminate \/
       LostTerminate
  BY <1>9 DEF Ending, Quiet, AtRest, Decide, Goto, Reusable, Finish,
         LinkSidecar, SidecarExists, Reports, LinkTarget, TargetExists,
         FinishExport, Tidy, LostFinish, Clean, EndRun, coordinator
<1>10. ASSUME Misfortune PROVE pool' = NoWorker \/ Comes \/ AtRest
  BY <1>10 DEF Misfortune, Quiet, AtRest, RecoverGivesUp, Goto, RecoverFails,
         RunJobFails, Reports, PublishFails, Consume, FinishFails,
         LostFinishFails, CleanFails, EndRun, Crash, Stopped, ClosePipe,
         Shutdown, coordinator
<1>11. ASSUME Clients PROVE pool' = NoWorker \/ Comes \/ AtRest
  BY <1>11 DEF Clients, Quiet, AtRest, ForeignTarget, Submit, Cancel,
         coordinator
<1>12. ASSUME NEW w \in Workers, Work(w) PROVE pool' = NoWorker \/ Comes \/
       AtRest
  BY <1>12 DEF Work, Quiet, AtRest, Take, WorkerGoto, SendSchema, Send,
         StageExport, Stage, SendPart, ReadOk, Complete, EndJob, Fail, Stop,
         Exit, coordinator
<1>13. ASSUME IdleTerminate PROVE pool' = NoWorker \/ Comes \/ AtRest
  BY <1>13 DEF IdleTerminate, Quiet, AtRest, TerminatePool, ClosePipe,
         coordinator
<1>. QED
  BY <1>1, <1>2, <1>3, <1>4, <1>5, <1>6, <1>7, <1>8, <1>9, <1>10, <1>11, <1>12,
         <1>13 DEF Next, Coordinate

(* A worker is given a job only when nothing of the last one is in its pipe. *)
LEMMA QuietPipeKept == ASSUME IInv, Next PROVE QuietPipe'
<1>. SUFFICES ASSUME pool' \in Workers,
                     AtRest'
              PROVE  outbox'[pool'] = <<>>
  BY DEF QuietPipe, AtRest
<1>1. CASE Reads
  <2>1. HandleCompleted
    BY <1>1
       DEF Reads, HandleSchema, PublishInline, PublishCommit, PublishReject,
           PublishFails, HandleFailed, StateOfCode, Goto, Reports, Received,
           coordinator, Quiet, AtRest
  <2>2. /\ outbox[pool] \in Seq(Message) /\ outbox[pool] # <<>>
        /\ pool \in Workers /\ pool' = pool
        /\ outbox'[pool] = Tail(outbox[pool])
    BY <1>1, ReadsShorten
  <2>3. IsReport(outbox[pool][1])
    BY <2>1, <2>2 DEF HandleCompleted, Received, IsReport
  <2>4. Len(outbox[pool]) = 1
    <3>1. 1 \in 1 .. Len(outbox[pool])
      BY <2>2, EmptySeq
    <3>. QED
      BY <2>2, <2>3, <3>1 DEF IInv, ReportLast
  <2>5. outbox'[pool] \in Seq(Message) /\ Len(outbox'[pool]) = 0
    BY <2>2, <2>4
  <2>. QED
    BY <2>2, <2>5, EmptySeq
<1>2. ASSUME NEW v \in Workers, Writes(v) PROVE FALSE
  <2>1. /\ v = pool /\ Executing(v)
        /\ UNCHANGED <<pc, report>>
    BY <1>2, WritesExtend DEF Executing, coordinator
  <2>2. pc \in Computing
    BY <2>1, WorkersAssumption DEF IInv, PoolExecutes, Present, Starting
  <2>. QED
    BY <2>1, <2>2 DEF Computing, Quiet, AtRest
<1>3. ASSUME NEW v \in Workers, SpawnWorker(v) PROVE outbox'[pool'] = <<>>
  BY <1>3 DEF SpawnWorker, IInv, TypeOK, WorkersOK
<1>4. CASE UNCHANGED <<outbox, pool>>
  <2>1. CASE HandleCompleted
    BY <1>1, <2>1 DEF Reads
  <2>. QED
    BY <1>3, <1>4, <2>1, QuietStays, WorkersAssumption
    DEF IInv, QuietPipe, AtRest, Comes
<1>. QED
  BY <1>1, <1>2, <1>3, <1>4, PipeStays, WorkersAssumption DEF PipeUsed

(* What a worker writes goes behind the message that is being published.    *)
LEMMA WritesKeepFrame ==
    ASSUME IInv, NEW v \in Workers, Writes(v) PROVE RenamedPart'
<1>. SUFFICES ASSUME pc' = "renamed" PROVE RenamedPart'
  BY DEF RenamedPart
<1>1. /\ v = pool /\ outbox[pool] \in Seq(Message)
      /\ UNCHANGED <<pc, cur, pool, count, store>>
  BY WritesExtend DEF coordinator, rows, resultRows
<1>2. PICK m : outbox'[pool] = Append(outbox[pool], m)
  BY <1>1, WritesExtend
<1>3. RenamedPart /\ outbox[pool] # <<>>
  BY <1>1 DEF IInv, RenamedPart
<1>4. Frame' = Frame /\ outbox'[pool] # <<>>
  BY <1>1, <1>2, <1>3 DEF Frame
<1>. QED
  BY <1>1, <1>3, <1>4 DEF RenamedPart

(* Inside publish the file that moved and its message stay in place. *)
LEMMA RenamedPartKept == ASSUME IInv, Next PROVE RenamedPart'
<1>1. ASSUME Recovery PROVE RenamedPart'
  BY <1>1 DEF Recovery, IInv, RenamedPart, Frame, StartCoordinator, Goto,
         RecoverKilled, RecoverDone, RecoverClean, CleanAttempt, RecoverKill,
         RecoverFinish, FinishRows, coordinator, workers, rows, resultRows,
         files
<1>2. ASSUME PublishRename PROVE RenamedPart'
  <2>1. cur \in Jobs /\ pool \in Workers
    BY <1>2 DEF IInv, Present, PublishRename, Received, Held, Pooled, Places
  <2>2. Frame \in PartMessage
    BY <1>2, <2>1, HeadIsPart DEF IInv, TypeOK, PublishRename
  <2>3. Frame' = Frame /\ count' = count
    BY <1>2 DEF PublishRename, Goto, Frame, rows, resultRows, workers
  <2>. QED
    BY <1>2, <2>2, <2>3
       DEF RenamedPart, PublishRename, Received, Publishable, Goto, workers
<1>3. ASSUME NEW j \in Jobs, Queued(j) PROVE RenamedPart'
  BY <1>3 DEF IInv, RenamedPart, Frame, Queued, coordinator, workers, rows,
         resultRows, files
<1>4. ASSUME NEW w \in Workers, SpawnWorker(w) PROVE RenamedPart'
  BY <1>4
     DEF IInv, RenamedPart, Frame, SpawnWorker, coordinator, workers, rows,
         resultRows, files
<1>5. ASSUME ReuseWorker PROVE RenamedPart'
  BY <1>5
     DEF IInv, RenamedPart, Frame, ReuseWorker, Goto, coordinator, workers,
         rows, resultRows, files
<1>6. ASSUME SetWorker PROVE RenamedPart'
  BY <1>6 DEF IInv, RenamedPart, Frame, SetWorker, Goto, coordinator, workers,
         rows, resultRows, files
<1>7. ASSUME SendSpec PROVE RenamedPart'
  BY <1>7 DEF IInv, RenamedPart, Frame, SendSpec, Tell, Goto, coordinator,
         workers, rows, resultRows, files
<1>8. ASSUME BrokenPipe PROVE RenamedPart'
  BY <1>8 DEF IInv, RenamedPart, Frame, BrokenPipe, Reports, coordinator,
         workers, rows, resultRows, files
<1>9. ASSUME HandleSchema PROVE RenamedPart'
  BY <1>9 DEF IInv, RenamedPart, Frame, HandleSchema, Received, Consume,
         coordinator, workers, rows, resultRows, files
<1>10. ASSUME PublishInline PROVE RenamedPart'
  BY <1>10 DEF IInv, RenamedPart, Frame, PublishInline, Received, PublishRows,
         Consume, Goto, coordinator, workers, rows, resultRows, files
<1>11. ASSUME PublishCommit PROVE RenamedPart'
  BY <1>11 DEF IInv, RenamedPart, Frame, PublishCommit, PublishRows, Consume,
         Goto, coordinator, workers, rows, resultRows, files
<1>12. ASSUME PublishReject PROVE RenamedPart'
  BY <1>12
     DEF IInv, RenamedPart, Frame, PublishReject, Received, Consume, Goto,
         coordinator, workers, rows, resultRows, files
<1>13. ASSUME AnswerOk PROVE RenamedPart'
  BY <1>13 DEF IInv, RenamedPart, Frame, AnswerOk, Tell, Goto, coordinator,
         workers, rows, resultRows, files
<1>14. ASSUME AnswerCancel PROVE RenamedPart'
  BY <1>14 DEF IInv, RenamedPart, Frame, AnswerCancel, Tell, Goto, Reports,
         coordinator, workers, rows, resultRows, files
<1>15. ASSUME HandleCompleted PROVE RenamedPart'
  BY <1>15 DEF IInv, RenamedPart, Frame, HandleCompleted, Received, Consume,
         Reports, coordinator, workers, rows, resultRows, files
<1>16. ASSUME HandleFailed PROVE RenamedPart'
  BY <1>16 DEF IInv, RenamedPart, Frame, HandleFailed, Received, Consume,
         Reports, coordinator, workers, rows, resultRows, files
<1>17. ASSUME HandleEof PROVE RenamedPart'
  BY <1>17 DEF IInv, RenamedPart, Frame, HandleEof, Reports, coordinator,
         workers, rows, resultRows, files
<1>18. ASSUME Timeout PROVE RenamedPart'
  BY <1>18 DEF IInv, RenamedPart, Frame, Timeout, RequestStop, coordinator,
         workers, rows, resultRows, files
<1>19. ASSUME Signal PROVE RenamedPart'
  BY <1>19 DEF IInv, RenamedPart, Frame, Signal, Tell, coordinator, workers,
         rows, resultRows, files
<1>20. ASSUME Kill PROVE RenamedPart'
  BY <1>20 DEF IInv, RenamedPart, Frame, Kill, Reports, coordinator, workers,
         rows, resultRows, files
<1>21. ASSUME Ending PROVE RenamedPart'
  BY <1>21 DEF Ending, IInv, RenamedPart, Frame, Decide, Goto, Terminate,
         TerminatePool, ClosePipe, Finish, FinishRows, LinkSidecar,
         SidecarExists, Reports, LinkTarget, TargetExists, FinishExport, Tidy,
         LostTerminate, LostFinish, Clean, CleanAttempt, EndRun, coordinator,
         workers, rows, resultRows, files
<1>22. ASSUME Crash PROVE RenamedPart'
  BY <1>22 DEF RenamedPart, Crash, Stopped
<1>23. ASSUME Shutdown PROVE RenamedPart'
  BY <1>23 DEF RenamedPart, Shutdown, Stopped
<1>24. ASSUME Misfortune PROVE RenamedPart' \/ Crash \/ Shutdown
  BY <1>24
     DEF Misfortune, IInv, RenamedPart, Frame, RecoverGivesUp, Goto,
         RecoverFails, RunJobFails, Reports, PublishFails, Consume,
         FinishFails, LostFinishFails, CleanFails, EndRun, coordinator,
         workers, rows, resultRows, files
<1>25. ASSUME Clients PROVE RenamedPart'
  BY <1>25
     DEF Clients, IInv, RenamedPart, Frame, ForeignTarget, Submit, Cancel,
         RequestStop, coordinator, workers, rows, resultRows, files
<1>26. ASSUME NEW w \in Workers, SendSchema(w) PROVE RenamedPart'
  BY <1>26, WritesKeepFrame DEF Writes
<1>27. ASSUME NEW w \in Workers, SendPart(w) PROVE RenamedPart'
  BY <1>27, WritesKeepFrame DEF Writes
<1>28. ASSUME NEW w \in Workers, Complete(w) PROVE RenamedPart'
  BY <1>28, WritesKeepFrame DEF Writes
<1>29. ASSUME NEW w \in Workers, Fail(w) PROVE RenamedPart'
  BY <1>29, WritesKeepFrame DEF Writes
<1>30. ASSUME NEW w \in Workers, Stop(w) PROVE RenamedPart'
  BY <1>30, WritesKeepFrame DEF Writes
<1>31. ASSUME NEW w \in Workers, Work(w) PROVE RenamedPart' \/ SendSchema(w) \/
       SendPart(w) \/ Complete(w) \/ Fail(w) \/ Stop(w)
  BY <1>31 DEF Work, IInv, RenamedPart, Frame, Take, WorkerGoto, StageExport,
         Stage, ReadOk, Exit, coordinator, workers, rows, resultRows, files
<1>32. ASSUME IdleTerminate PROVE RenamedPart'
  BY <1>32 DEF IdleTerminate, IInv, RenamedPart, Frame, TerminatePool,
         ClosePipe, coordinator, workers, rows, resultRows, files
<1>. QED
  BY <1>1, <1>2, <1>3, <1>4, <1>5, <1>6, <1>7, <1>8, <1>9, <1>10, <1>11, <1>12,
         <1>13, <1>14, <1>15, <1>16, <1>17, <1>18, <1>19, <1>20, <1>21, <1>22,
         <1>23, <1>24, <1>25, <1>26, <1>27, <1>28, <1>29, <1>30, <1>31, <1>32
         DEF Next, Coordinate, Running

-----------------------------------------------------------------------------
(***************************************************************************)
(* The theorems.                                                           *)
(***************************************************************************)

(* A workspace nobody has opened yet is as the invariant says.               *)
LEMMA InitIInv == ASSUME Init PROVE IInv
<1>1. JobsOK /\ ResultsOK
  BY DEF Init, JobsOK, ResultsOK, Kinds, States
<1>2. FilesOK /\ CoordinatorOK /\ BoundsOK
  BY DEF Init, FilesOK, CoordinatorOK, BoundsOK, Places
<1>3. WorkersOK
  BY DEF Init, WorkersOK, WorkerPlaces, Outputs, NoOutput, Holding
<1>4. Present /\ CurActive /\ RecordedPool /\ RenamedPart
  BY DEF Init, Present, Starting, Held, Pooled, Judged, Places, CurActive,
     Unfinished, RecordedPool, RenamedPart
<1>5. \A w \in Workers : ~Executing(w)
  BY DEF Init, Executing, Busy
<1>6. DeadQuiet /\ TookSpec /\ StagedPart
  BY DEF Init, DeadQuiet, TookSpec, StagedPart, Busy
<1>7. ReportLast /\ QuietPipe
  BY WorkersAssumption DEF Init, ReportLast, QuietPipe
<1>. QED
  BY <1>1, <1>2, <1>3, <1>4, <1>5, <1>6, <1>7
     DEF IInv, TypeOK, Owned, PoolExecutes, SingleExecutor

(* Every step keeps the invariant, one part at a time.                      *)
LEMMA NextIInv == ASSUME IInv, [Next]_vars PROVE IInv'
<1>1. CASE Next
  BY <1>1, TypeKept, PresentKept, CurActiveKept, RecordedPoolKept,
     RenamedPartKept, DeadQuietKept, TookSpecKept, StagedPartKept, OwnedKept,
     PoolExecutesKept, SingleExecutorKept, ReportLastKept, QuietPipeKept
     DEF IInv
<1>2. CASE UNCHANGED vars
  <2>1. UNCHANGED <<arrivals, kind, state, stop, recorded, schema, count, filed,
                    progress, revs, dataset, changed, staging, store, temps,
                    target, sidecar, pc, cur, pool, report, signalled, wpc,
                    wjob, output, inbox, outbox, crashes, faults>>
    BY <1>2 DEF vars, rows, jobRows, resultRows, files, coordinator, workers,
       inside, bounds
  <2>2. TypeOK'
    BY <1>2, TypeKept
  <2>3. (Present /\ CurActive /\ RecordedPool /\ RenamedPart)'
    BY <2>1 DEF IInv, Present, CurActive, RecordedPool, RenamedPart, Frame
  <2>4. (DeadQuiet /\ TookSpec /\ StagedPart)'
    BY <2>1 DEF IInv, DeadQuiet, TookSpec, StagedPart
  <2>5. (Owned /\ PoolExecutes /\ SingleExecutor)'
    BY <2>1 DEF IInv, Owned, PoolExecutes, SingleExecutor, Executing
  <2>6. (ReportLast /\ QuietPipe)'
    BY <2>1 DEF IInv, ReportLast, QuietPipe, Executing
  <2>. QED
    BY <2>2, <2>3, <2>4, <2>5, <2>6 DEF IInv
<1>. QED
  BY <1>1, <1>2

(* The invariant all others rest on: where every process can stand while    *)
(* another one starts, serves, recovers or dies.                           *)
THEOREM Inductive == Spec => []IInv
<1>1. Init => IInv
  BY InitIInv
<1>2. IInv /\ [Next]_vars => IInv'
  BY NextIInv
<1>. QED
  BY <1>1, <1>2, PTL DEF Spec

(* Rows, files, messages and local variables keep their shape.              *)
THEOREM TypeCorrect == Spec => []TypeOK
<1>1. IInv => TypeOK
  BY DEF IInv
<1>. QED
  BY <1>1, Inductive, PTL

(* No process computes for a job that is over: the worker that executes,    *)
(* whoever started it, does so for a job whose row is running or stopping. *)
THEOREM NoComputationAfterTheEnd == Spec => []ExecutingIsActive
<1>1. IInv => ExecutingIsActive
  BY DEF IInv, Owned, ExecutingIsActive
<1>. QED
  BY <1>1, Inductive, PTL

(* However often the coordinator is killed and started again, no two        *)
(* processes compute at the same time in one workspace.                    *)
THEOREM OneJobAtATime == Spec => []SingleExecutor
<1>1. IInv => SingleExecutor
  BY DEF IInv
<1>. QED
  BY <1>1, Inductive, PTL

-----------------------------------------------------------------------------
(***************************************************************************)
(* What is shown of a job: how stops decide, which revisions can be read,  *)
(* which are final, what an export leaves at its destination, that         *)
(* coordinator and worker agree on the parts, and that all of it is what   *)
(* JobContract promises a client.                                          *)
(*                                                                         *)
(* A row changes in five ways only.  JobSteps says so once; most of what   *)
(* follows is about these five and not about the actions.                  *)
(***************************************************************************)

Same(i) ==
    /\ kind'[i] = kind[i] /\ state'[i] = state[i] /\ stop'[i] = stop[i]
    /\ count'[i] = count[i] /\ revs'[i] = revs[i]

\* Accepted from a client.
AcceptStep(i) ==
    /\ state[i] = "absent" /\ state'[i] = "queued"
    /\ stop'[i] = stop[i] /\ count'[i] = count[i] /\ revs'[i] = revs[i]

\* Asked to stop, by a client or the run timeout.
StopStep(i) ==
    /\ state[i] \in {"queued"} \cup Active
    /\ \E reason \in Reasons :
          /\ state'[i] = IF state[i] = "queued" THEN reason ELSE "stopping"
          /\ stop'[i] = IF stop[i] = "none" THEN reason ELSE stop[i]
    /\ kind'[i] = kind[i] /\ count'[i] = count[i] /\ revs'[i] = revs[i]

\* Taken by the scheduler.
BeginStep(i) ==
    /\ state[i] = "queued" /\ state'[i] = "running"
    /\ kind'[i] = kind[i] /\ stop'[i] = stop[i]
    /\ count'[i] = count[i] /\ revs'[i] = revs[i]

\* Given one more part.
PublishStep(i) ==
    /\ i = cur /\ state[i] \in Active
    /\ pc = "renamed" \/ state[i] = "running"
    /\ \E part \in PartMessage :
          part.seq = count[i] /\ revs'[i] = revs[i] \o Shown(part)
    /\ count'[i] = count[i] + 1
    /\ kind'[i] = kind[i] /\ state'[i] = state[i] /\ stop'[i] = stop[i]

\* Ended, by its run or by recovery.
EndStep(i) ==
    /\ state[i] \in Active /\ pc \in Finishing
    /\ \E s \in Terminal :
          /\ pc = "recover" \/ (s = report /\ i = cur)
          /\ pc = "recover" => s = "interrupted"
          /\ Accepted(i, s)
          /\ state'[i] = Outcome(i, s)
          /\ revs'[i] = RevisionsAfter(i, Outcome(i, s))
    /\ kind'[i] = kind[i] /\ stop'[i] = stop[i] /\ count'[i] = count[i]

JobStep(i) ==
    AcceptStep(i) \/ StopStep(i) \/ BeginStep(i) \/ PublishStep(i) \/ EndStep(i)
-----------------------------------------------------------------------------
(* Every step leaves a job's row alone or is one of the five.               *)
LEMMA JobSteps ==
    ASSUME IInv, Next, NEW i \in Jobs
    PROVE  Same(i) \/ JobStep(i)
<1>1. ASSUME NEW j \in Jobs, RecoverFinish(j) PROVE Same(i) \/ JobStep(i)
  <2>1. CASE i = j
    <3>1. "interrupted" \in Terminal
      BY DEF Terminal
    <3>2. /\ pc = "recover" /\ state[i] \in Active
          /\ Accepted(i, "interrupted")
          /\ state'[i] = Outcome(i, "interrupted")
          /\ revs'[i] = RevisionsAfter(i, Outcome(i, "interrupted"))
          /\ kind'[i] = kind[i] /\ stop'[i] = stop[i] /\ count'[i] = count[i]
      BY <1>1, <2>1
         DEF IInv, TypeOK, JobsOK, ResultsOK, RecoverFinish, FinishRows
    <3>3. EndStep(i)
      BY <3>1, <3>2, Zenon DEF EndStep, Finishing
    <3>. QED
      BY <3>3 DEF JobStep
  <2>2. CASE i # j
    BY <1>1, <2>2
       DEF IInv, TypeOK, JobsOK, ResultsOK, RecoverFinish, FinishRows, Same
  <2>. QED
    BY <2>1, <2>2
<1>2. ASSUME Recovery PROVE Same(i) \/ JobStep(i) \/ (\E j \in Jobs :
       RecoverFinish(j))
  BY <1>2 DEF Recovery, Same, StartCoordinator, RecoverKilled, RecoverDone,
         RecoverClean, RecoverKill, rows, jobRows, resultRows
<1>3. ASSUME NEW j \in Jobs, Queued(j) PROVE Same(i) \/ JobStep(i)
  BY <1>3
     DEF IInv, TypeOK, JobsOK, Queued, resultRows, BeginStep, JobStep, Same
<1>4. ASSUME PublishInline PROVE Same(i) \/ JobStep(i)
  <2>1. cur \in Jobs /\ state[cur] \in Active /\ pool \in Workers
    BY <1>4
       DEF IInv, Present, CurActive, PublishInline, Received, Held,
           Unfinished, Pooled, Places
  <2>2. Frame \in PartMessage /\ Frame.seq = count[cur]
    BY <1>4, HeadIsPart, <2>1 DEF IInv, TypeOK, PublishInline, Publishable
  <2>3. CASE i = cur
    BY <1>4, <2>1, <2>2, <2>3
       DEF IInv, TypeOK, JobsOK, ResultsOK, PublishInline, PublishRows,
           Publishable, jobRows, PublishStep, JobStep
  <2>4. CASE i # cur
    BY <1>4, <2>1, <2>4
       DEF IInv, TypeOK, JobsOK, ResultsOK, PublishInline, PublishRows,
           jobRows, Same
  <2>. QED
    BY <2>3, <2>4
<1>5. ASSUME PublishCommit PROVE Same(i) \/ JobStep(i)
  <2>1. cur \in Jobs /\ state[cur] \in Active /\ pool \in Workers
    BY <1>5
       DEF IInv, Present, CurActive, PublishCommit, Received, Held,
           Unfinished, Pooled, Places
  <2>2. Frame \in PartMessage /\ Frame.seq = count[cur]
    BY <1>5, <2>1 DEF IInv, TypeOK, PublishCommit, RenamedPart
  <2>3. CASE i = cur
    BY <1>5, <2>1, <2>2, <2>3
       DEF IInv, TypeOK, JobsOK, ResultsOK, PublishCommit, PublishRows,
           Publishable, jobRows, PublishStep, JobStep
  <2>4. CASE i # cur
    BY <1>5, <2>1, <2>4
       DEF IInv, TypeOK, JobsOK, ResultsOK, PublishCommit, PublishRows,
           jobRows, Same
  <2>. QED
    BY <2>3, <2>4
<1>6. ASSUME Timeout PROVE Same(i) \/ JobStep(i)
  BY <1>6
     DEF IInv, TypeOK, JobsOK, Timeout, RequestStop, resultRows, Reasons,
         StopStep, JobStep, Same
<1>7. ASSUME Running PROVE Same(i) \/ JobStep(i) \/ (\E j \in Jobs : Queued(j))
       \/ PublishInline \/ PublishCommit \/ Timeout
  BY <1>7 DEF Running, Same, SpawnWorker, ReuseWorker, SetWorker, SendSpec,
         BrokenPipe, HandleSchema, PublishRename, PublishReject, AnswerOk,
         AnswerCancel, HandleCompleted, HandleFailed, HandleEof, Signal, Kill,
         rows, jobRows, resultRows
<1>8. ASSUME Finish PROVE Same(i) \/ JobStep(i)
  <2>1. cur \in Jobs /\ report \in Terminal /\ state[cur] \in Active
    BY <1>8
       DEF IInv, Present, CurActive, Finish, Judged, Held, Unfinished, Places
  <2>2. CASE i = cur
    BY <1>8, <2>1, <2>2
       DEF IInv, TypeOK, JobsOK, ResultsOK, Finish, FinishRows, EndStep,
           Finishing, JobStep
  <2>3. CASE i # cur
    BY <1>8, <2>1, <2>3
       DEF IInv, TypeOK, JobsOK, ResultsOK, Finish, FinishRows, Same
  <2>. QED
    BY <2>2, <2>3
<1>9. ASSUME FinishExport PROVE Same(i) \/ JobStep(i)
  <2>1. cur \in Jobs /\ report \in Terminal /\ state[cur] \in Active
    BY <1>9
       DEF IInv, Present, CurActive, FinishExport, Judged, Held, Unfinished,
           Places
  <2>2. CASE i = cur
    BY <1>9, <2>1, <2>2
       DEF IInv, TypeOK, JobsOK, ResultsOK, FinishExport, FinishRows, EndStep,
           Finishing, JobStep
  <2>3. CASE i # cur
    BY <1>9, <2>1, <2>3
       DEF IInv, TypeOK, JobsOK, ResultsOK, FinishExport, FinishRows, Same
  <2>. QED
    BY <2>2, <2>3
<1>10. ASSUME LostFinish PROVE Same(i) \/ JobStep(i)
  <2>1. cur \in Jobs /\ report \in Terminal /\ state[cur] \in Active
    BY <1>10
       DEF IInv, Present, CurActive, LostFinish, Judged, Held, Unfinished,
           Places
  <2>2. CASE i = cur
    BY <1>10, <2>1, <2>2
       DEF IInv, TypeOK, JobsOK, ResultsOK, LostFinish, FinishRows, EndStep,
           Finishing, JobStep
  <2>3. CASE i # cur
    BY <1>10, <2>1, <2>3
       DEF IInv, TypeOK, JobsOK, ResultsOK, LostFinish, FinishRows, Same
  <2>. QED
    BY <2>2, <2>3
<1>11. ASSUME Ending PROVE Same(i) \/ JobStep(i) \/ Finish \/ FinishExport \/
       LostFinish
  BY <1>11 DEF Ending, Same, Decide, Terminate, TerminatePool, LinkSidecar,
         SidecarExists, LinkTarget, TargetExists, Tidy, LostTerminate, Clean,
         rows, jobRows, resultRows
<1>12. ASSUME Misfortune PROVE Same(i) \/ JobStep(i)
  BY <1>12
     DEF Misfortune, Same, RecoverGivesUp, RecoverFails, RunJobFails,
         PublishFails, FinishFails, LostFinishFails, CleanFails, Crash,
         Stopped, Shutdown, rows, jobRows, resultRows
<1>13. ASSUME NEW j \in Jobs, Submit(j) PROVE Same(i) \/ JobStep(i)
  BY <1>13
     DEF IInv, TypeOK, JobsOK, Submit, resultRows, AcceptStep, JobStep, Same
<1>14. ASSUME NEW j \in Jobs, Cancel(j) PROVE Same(i) \/ JobStep(i)
  BY <1>14
     DEF IInv, TypeOK, JobsOK, Cancel, RequestStop, resultRows, Reasons,
         StopStep, JobStep, Same
<1>15. ASSUME Clients
       PROVE  Same(i) \/ JobStep(i) \/ (\E j \in Jobs : Submit(j))
       \/ (\E j \in Jobs : Cancel(j))
  BY <1>15 DEF Clients, Same, ForeignTarget, rows, jobRows, resultRows
<1>16. ASSUME NEW w \in Workers, Work(w) PROVE Same(i) \/ JobStep(i)
  BY <1>16 DEF Work, Same, Take, WorkerGoto, SendSchema, StageExport, Stage,
         SendPart, ReadOk, Complete, EndJob, Fail, Stop, Exit, rows, jobRows,
         resultRows
<1>17. ASSUME IdleTerminate PROVE Same(i) \/ JobStep(i)
  BY <1>17 DEF IdleTerminate, Same, TerminatePool, rows, jobRows, resultRows
<1>. QED
  BY <1>1, <1>2, <1>3, <1>4, <1>5, <1>6, <1>7, <1>8, <1>9, <1>10, <1>11, <1>12,
         <1>13, <1>14, <1>15, <1>16, <1>17 DEF Next, Coordinate

-----------------------------------------------------------------------------
(***************************************************************************)
(* The invariant.                                                          *)
(***************************************************************************)

\* A reason is on record exactly while and after a stop.
StopKnown ==
    \A j \in Jobs :
        /\ state[j] \in {"absent", "queued", "running"} => stop[j] = "none"
        /\ state[j] \in Terminal /\ stop[j] # "none" => state[j] = stop[j]

\* Nobody can ask for a stop while a publication is under way.
PublishRunning == pc = "renamed" => state[cur] = "running"

\* Rows name only files that are in place.
FiledStored == filed \subseteq store

\* Revisions show only parts that are committed.
CutoffsIn ==
    \A j \in Jobs : \A i \in 1 .. Len(revs[j]) : revs[j][i].cutoff <= count[j]

\* FinalIffCompleted of one job.
FinalsOf(j) ==
    /\ \A i \in 1 .. Len(revs[j]) : revs[j][i].final =>
          i = Len(revs[j]) /\ state[j] = "completed"
    /\ state[j] = "completed" /\ kind[j] \in Query \cup Analysis =>
          revs[j] # <<>> /\ revs[j][Len(revs[j])].final

RInv == IInv /\ StopKnown /\ PublishRunning /\ FiledStored /\ CutoffsIn
        /\ FinalIffCompleted

(* A stop keeps its first reason, and that reason is how the job ends.      *)
LEMMA StopKnownKept == ASSUME RInv, Next PROVE StopKnown'
<1>. SUFFICES ASSUME NEW j \in Jobs
     PROVE /\ state'[j] \in {"absent", "queued", "running"} => stop'[j] = "none"
           /\ state'[j] \in Terminal /\ stop'[j] # "none" =>
                 state'[j] = stop'[j]
  BY DEF StopKnown
<1>. /\ state[j] \in States /\ stop[j] \in {"none"} \cup Reasons
     /\ state[j] \in {"absent", "queued", "running"} => stop[j] = "none"
     /\ state[j] \in Terminal /\ stop[j] # "none" => state[j] = stop[j]
  BY DEF RInv, IInv, TypeOK, JobsOK, StopKnown
<1>1. CASE Same(j) \/ AcceptStep(j) \/ BeginStep(j) \/ PublishStep(j)
  BY <1>1 DEF Same, AcceptStep, BeginStep, PublishStep, Terminal, Reasons
<1>2. CASE StopStep(j)
  BY <1>2 DEF StopStep, Terminal, Reasons, Active
<1>3. CASE EndStep(j)
  BY <1>3 DEF EndStep, Outcome, Terminal, Reasons
<1>. QED
  BY <1>1, <1>2, <1>3, JobSteps DEF RInv, JobStep

(* The transaction of a publication shuts requests out until it commits.     *)
LEMMA PublishRunningKept == ASSUME RInv, Next PROVE PublishRunning'
<1>1. ASSUME Recovery PROVE PublishRunning'
  BY <1>1 DEF Recovery, RInv, IInv, TypeOK, JobsOK, PublishRunning, Unlocked,
         Active, StartCoordinator, Goto, RecoverKilled, RecoverDone,
         RecoverClean, RecoverKill, RecoverFinish, FinishRows, coordinator,
         rows, jobRows
<1>2. ASSUME NEW j \in Jobs, Queued(j) PROVE PublishRunning'
  BY <1>2 DEF RInv, IInv, TypeOK, JobsOK, PublishRunning, Unlocked, Active,
         Queued, coordinator, rows, jobRows
<1>3. ASSUME NEW w \in Workers, SpawnWorker(w) PROVE PublishRunning'
  BY <1>3 DEF RInv, IInv, TypeOK, JobsOK, PublishRunning, Unlocked, Active,
         SpawnWorker, coordinator, rows, jobRows
<1>4. ASSUME ReuseWorker PROVE PublishRunning'
  BY <1>4 DEF RInv, IInv, TypeOK, JobsOK, PublishRunning, Unlocked, Active,
         ReuseWorker, Goto, coordinator, rows, jobRows
<1>5. ASSUME SetWorker PROVE PublishRunning'
  BY <1>5 DEF RInv, IInv, TypeOK, JobsOK, PublishRunning, Unlocked, Active,
         SetWorker, Goto, coordinator, rows, jobRows
<1>6. ASSUME SendSpec PROVE PublishRunning'
  BY <1>6 DEF RInv, IInv, TypeOK, JobsOK, PublishRunning, Unlocked, Active,
         SendSpec, Goto, coordinator, rows, jobRows
<1>7. ASSUME BrokenPipe PROVE PublishRunning'
  BY <1>7 DEF RInv, IInv, TypeOK, JobsOK, PublishRunning, Unlocked, Active,
         BrokenPipe, Reports, coordinator, rows, jobRows
<1>8. ASSUME HandleSchema PROVE PublishRunning'
  BY <1>8 DEF RInv, IInv, TypeOK, JobsOK, PublishRunning, Unlocked, Active,
         HandleSchema, Received, coordinator, rows, jobRows
<1>9. ASSUME PublishInline PROVE PublishRunning'
  BY <1>9 DEF RInv, IInv, TypeOK, JobsOK, PublishRunning, Unlocked, Active,
         PublishInline, Received, Publishable, PublishRows, Goto, coordinator,
         rows, jobRows
<1>10. ASSUME PublishRename PROVE PublishRunning'
  BY <1>10 DEF RInv, IInv, TypeOK, JobsOK, PublishRunning, Unlocked, Active,
         PublishRename, Received, Publishable, Goto, coordinator, rows, jobRows
<1>11. ASSUME PublishCommit PROVE PublishRunning'
  BY <1>11 DEF RInv, IInv, TypeOK, JobsOK, PublishRunning, Unlocked, Active,
         PublishCommit, PublishRows, Goto, coordinator, rows, jobRows
<1>12. ASSUME PublishReject PROVE PublishRunning'
  BY <1>12 DEF RInv, IInv, TypeOK, JobsOK, PublishRunning, Unlocked, Active,
         PublishReject, Received, Publishable, Goto, coordinator, rows, jobRows
<1>13. ASSUME AnswerOk PROVE PublishRunning'
  BY <1>13 DEF RInv, IInv, TypeOK, JobsOK, PublishRunning, Unlocked, Active,
         AnswerOk, Goto, coordinator, rows, jobRows
<1>14. ASSUME AnswerCancel PROVE PublishRunning'
  BY <1>14 DEF RInv, IInv, TypeOK, JobsOK, PublishRunning, Unlocked, Active,
         AnswerCancel, Goto, Reports, coordinator, rows, jobRows
<1>15. ASSUME HandleCompleted PROVE PublishRunning'
  BY <1>15 DEF RInv, IInv, TypeOK, JobsOK, PublishRunning, Unlocked, Active,
         HandleCompleted, Received, Reports, coordinator, rows, jobRows
<1>16. ASSUME HandleFailed PROVE PublishRunning'
  BY <1>16 DEF RInv, IInv, TypeOK, JobsOK, PublishRunning, Unlocked, Active,
         HandleFailed, Received, Reports, coordinator, rows, jobRows
<1>17. ASSUME HandleEof PROVE PublishRunning'
  BY <1>17 DEF RInv, IInv, TypeOK, JobsOK, PublishRunning, Unlocked, Active,
         HandleEof, Reports, coordinator, rows, jobRows
<1>18. ASSUME Timeout PROVE PublishRunning'
  BY <1>18 DEF RInv, IInv, TypeOK, JobsOK, PublishRunning, Unlocked, Active,
         Timeout, RequestStop, coordinator, rows, jobRows
<1>19. ASSUME Signal PROVE PublishRunning'
  BY <1>19 DEF RInv, IInv, TypeOK, JobsOK, PublishRunning, Unlocked, Active,
         Signal, coordinator, rows, jobRows
<1>20. ASSUME Kill PROVE PublishRunning'
  BY <1>20 DEF RInv, IInv, TypeOK, JobsOK, PublishRunning, Unlocked, Active,
         Kill, Reports, coordinator, rows, jobRows
<1>21. ASSUME Ending PROVE PublishRunning'
  BY <1>21 DEF Ending, RInv, IInv, TypeOK, JobsOK, PublishRunning, Unlocked,
         Active, Decide, Goto, Terminate, TerminatePool, Finish, FinishRows,
         LinkSidecar, SidecarExists, Reports, LinkTarget, TargetExists,
         FinishExport, Tidy, LostTerminate, LostFinish, Clean, EndRun,
         coordinator, rows, jobRows
<1>22. ASSUME Misfortune PROVE PublishRunning'
  BY <1>22
     DEF Misfortune, RInv, IInv, TypeOK, JobsOK, PublishRunning, Unlocked,
         Active, RecoverGivesUp, Goto, RecoverFails, RunJobFails, Reports,
         PublishFails, FinishFails, LostFinishFails, CleanFails, EndRun,
         Crash, Stopped, Shutdown, coordinator, rows, jobRows
<1>23. ASSUME Clients PROVE PublishRunning'
  BY <1>23 DEF Clients, RInv, IInv, TypeOK, JobsOK, PublishRunning, Unlocked,
         Active, ForeignTarget, Submit, Cancel, RequestStop, coordinator, rows,
         jobRows
<1>24. ASSUME NEW w \in Workers, Work(w) PROVE PublishRunning'
  BY <1>24 DEF Work, RInv, IInv, TypeOK, JobsOK, PublishRunning, Unlocked,
         Active, Take, WorkerGoto, SendSchema, StageExport, Stage, SendPart,
         ReadOk, Complete, EndJob, Fail, Stop, Exit, coordinator, rows, jobRows
<1>25. ASSUME IdleTerminate PROVE PublishRunning'
  BY <1>25 DEF IdleTerminate, RInv, IInv, TypeOK, JobsOK, PublishRunning,
         Unlocked, Active, TerminatePool, coordinator, rows, jobRows
<1>. QED
  BY <1>1, <1>2, <1>3, <1>4, <1>5, <1>6, <1>7, <1>8, <1>9, <1>10, <1>11, <1>12,
         <1>13, <1>14, <1>15, <1>16, <1>17, <1>18, <1>19, <1>20, <1>21, <1>22,
         <1>23, <1>24, <1>25 DEF Next, Coordinate, Running

(* No file that a row names is ever removed, and none is named too early.    *)
LEMMA FiledStoredKept == ASSUME RInv, Next PROVE FiledStored'
<1>1. ASSUME RecoverClean PROVE FiledStored'
  BY <1>1 DEF RInv, FiledStored, RecoverClean, CleanAttempt, rows, resultRows
<1>2. ASSUME Recovery PROVE FiledStored' \/ RecoverClean
  BY <1>2 DEF Recovery, RInv, FiledStored, StartCoordinator, RecoverKilled,
         RecoverDone, RecoverKill, RecoverFinish, FinishRows, rows, resultRows,
         files
<1>3. ASSUME PublishCommit PROVE FiledStored'
  <2>1. <<cur, Frame.seq>> \in store
    BY <1>3 DEF RInv, IInv, RenamedPart, PublishCommit
  <2>. QED
    BY <1>3, <2>1 DEF RInv, FiledStored, PublishCommit, PublishRows, files
<1>4. ASSUME Running PROVE FiledStored' \/ PublishCommit
  BY <1>4
     DEF Running, RInv, FiledStored, Queued, SpawnWorker, ReuseWorker,
         SetWorker, SendSpec, BrokenPipe, HandleSchema, PublishInline,
         PublishRows, PublishRename, PublishReject, AnswerOk, AnswerCancel,
         HandleCompleted, HandleFailed, HandleEof, Timeout, RequestStop,
         Signal, Kill, rows, resultRows, files
<1>5. ASSUME Ending PROVE FiledStored'
  BY <1>5 DEF Ending, RInv, FiledStored, Decide, Terminate, TerminatePool,
         Finish, FinishRows, LinkSidecar, SidecarExists, LinkTarget,
         TargetExists, FinishExport, Tidy, LostTerminate, LostFinish, Clean,
         CleanAttempt, rows, resultRows, files
<1>6. ASSUME Misfortune PROVE FiledStored'
  BY <1>6 DEF Misfortune, RInv, FiledStored, RecoverGivesUp, RecoverFails,
         RunJobFails, PublishFails, FinishFails, LostFinishFails, CleanFails,
         Crash, Stopped, Shutdown, rows, resultRows, files
<1>7. ASSUME Clients PROVE FiledStored'
  BY <1>7 DEF Clients, RInv, FiledStored, ForeignTarget, Submit, Cancel,
         RequestStop, rows, resultRows, files
<1>8. ASSUME NEW w \in Workers, Work(w) PROVE FiledStored'
  BY <1>8 DEF Work, RInv, FiledStored, Take, WorkerGoto, SendSchema,
         StageExport, Stage, SendPart, ReadOk, Complete, EndJob, Fail, Stop,
         Exit, rows, resultRows, files
<1>9. ASSUME IdleTerminate PROVE FiledStored'
  BY <1>9
     DEF IdleTerminate, RInv, FiledStored, TerminatePool, rows, resultRows,
         files
<1>. QED
  BY <1>1, <1>2, <1>3, <1>4, <1>5, <1>6, <1>7, <1>8, <1>9 DEF Next, Coordinate

(* Revisions are cut off at the parts committed with or before them.        *)
LEMMA CutoffsInKept == ASSUME RInv, Next PROVE CutoffsIn'
<1>. SUFFICES ASSUME NEW j \in Jobs, NEW i \in 1 .. Len(revs'[j])
              PROVE  revs'[j][i].cutoff <= count'[j]
  BY DEF CutoffsIn
<1>. /\ count[j] \in Nat /\ progress[j] \in Nat
     /\ revs[j] \in Seq(Revision) /\ Len(revs[j]) \in Nat
  BY DEF RInv, IInv, TypeOK, ResultsOK
<1>. \A k \in 1 .. Len(revs[j]) : revs[j][k] \in Revision
  OBVIOUS
<1>. \A k \in 1 .. Len(revs[j]) :
        revs[j][k].cutoff \in Nat /\ revs[j][k].cutoff <= count[j]
  BY DEF RInv, CutoffsIn, Revision
<1>1. CASE UNCHANGED <<revs[j], count[j]>>
  BY <1>1
<1>2. CASE PublishStep(j)
  <2>1. PICK part \in PartMessage :
            part.seq = count[j] /\ revs'[j] = revs[j] \o Shown(part)
    BY <1>2 DEF PublishStep
  <2>2. CASE Shown(part) = <<>>
    BY <1>2, <2>1, <2>2, ConcatEmptySeq DEF PublishStep
  <2>3. CASE Shown(part) # <<>>
    <3>1. Shown(part) = <<[cutoff |-> part.seq + 1, final |-> FALSE,
                           coverage |-> part.progress]>>
      BY <2>3 DEF Shown
    <3>2. /\ Len(revs'[j]) = Len(revs[j]) + 1
          /\ revs'[j][Len(revs[j]) + 1].cutoff = count[j] + 1
          /\ \A k \in 1 .. Len(revs[j]) : revs'[j][k] = revs[j][k]
      BY <2>1, <3>1
    <3>3. count'[j] = count[j] + 1
      BY <1>2 DEF PublishStep
    <3>4. CASE i = Len(revs[j]) + 1
      BY <3>2, <3>3, <3>4
    <3>5. CASE i \in 1 .. Len(revs[j])
      <4>1. revs[j][i].cutoff \in Nat /\ revs[j][i].cutoff <= count[j]
        BY <3>5
      <4>2. revs'[j][i].cutoff = revs[j][i].cutoff
        BY <3>2, <3>5
      <4>. QED
        BY <3>3, <4>1, <4>2
    <3>. QED
      BY <3>2, <3>4, <3>5
  <2>. QED
    BY <2>2, <2>3
<1>3. CASE EndStep(j)
  <2>1. PICK s \in Terminal : revs'[j] = RevisionsAfter(j, s)
    BY <1>3 DEF EndStep, Outcome, Terminal, RInv, IInv, TypeOK, JobsOK
  <2>2. CASE revs'[j] = revs[j]
    BY <1>3, <2>2 DEF EndStep
  <2>3. CASE revs'[j] # revs[j]
    <3>1. PICK r : revs'[j] = Append(revs[j], r) /\ r.cutoff = count[j]
      BY <2>1, <2>3 DEF RevisionsAfter
    <3>. QED
      BY <1>3, <3>1 DEF EndStep
  <2>. QED
    BY <2>2, <2>3
<1>. QED
  BY <1>1, <1>2, <1>3, JobSteps
  DEF RInv, JobStep, Same, AcceptStep, StopStep, BeginStep

(* Only the end of a job adds a final revision, exactly when it completes.  *)
LEMMA FinalsKept == ASSUME RInv, Next PROVE FinalIffCompleted'
<1>. SUFFICES ASSUME NEW j \in Jobs PROVE FinalsOf(j)'
  BY DEF FinalIffCompleted, FinalsOf
<1>. /\ state[j] \in States /\ stop[j] \in {"none"} \cup Reasons
     /\ revs[j] \in Seq(Revision) /\ Len(revs[j]) \in Nat
     /\ FinalsOf(j)
  BY DEF RInv, IInv, TypeOK, JobsOK, ResultsOK, FinalIffCompleted, FinalsOf
<1>1. CASE Same(j)
  BY <1>1 DEF Same, FinalsOf
<1>2. CASE AcceptStep(j) \/ StopStep(j) \/ BeginStep(j)
  <2>1. revs'[j] = revs[j] /\ state[j] # "completed" /\ state'[j] # "completed"
    BY <1>2 DEF AcceptStep, StopStep, BeginStep, Reasons, Active
  <2>. QED
    BY <2>1 DEF FinalsOf
<1>3. CASE PublishStep(j)
  <2>1. state[j] # "completed" /\ state'[j] = state[j]
    BY <1>3 DEF PublishStep, Active
  <2>2. PICK part \in PartMessage : revs'[j] = revs[j] \o Shown(part)
    BY <1>3 DEF PublishStep
  <2>3. CASE Shown(part) = <<>>
    BY <2>1, <2>2, <2>3, ConcatEmptySeq DEF FinalsOf
  <2>4. CASE Shown(part) # <<>>
    <3>1. Shown(part) = <<[cutoff |-> part.seq + 1, final |-> FALSE,
                           coverage |-> part.progress]>>
      BY <2>4 DEF Shown
    <3>2. \A i \in 1 .. Len(revs'[j]) : ~revs'[j][i].final
      BY <2>1, <2>2, <3>1 DEF FinalsOf
    <3>. QED
      BY <2>1, <3>2 DEF FinalsOf
  <2>. QED
    BY <2>3, <2>4
<1>4. CASE EndStep(j)
  <2>1. \A i \in 1 .. Len(revs[j]) : ~revs[j][i].final
    BY <1>4 DEF EndStep, Active, FinalsOf
  <2>2. PICK s \in Terminal : /\ revs'[j] = RevisionsAfter(j, s)
                             /\ state'[j] = s /\ kind'[j] = kind[j]
    BY <1>4 DEF EndStep, Outcome, Terminal
  <2>3. CASE s = "completed" /\ kind[j] \in Query \cup Analysis
    <3>1. revs'[j] = Append(revs[j], [cutoff |-> count[j], final |-> TRUE,
                                      coverage |-> progress[j]])
      BY <2>2, <2>3 DEF RevisionsAfter
    <3>2. /\ Len(revs'[j]) = Len(revs[j]) + 1
          /\ revs'[j][Len(revs[j]) + 1].final
          /\ \A i \in 1 .. Len(revs[j]) : revs'[j][i] = revs[j][i]
      BY <3>1
    <3>3. \A i \in 1 .. Len(revs'[j]) : revs'[j][i].final => i = Len(revs'[j])
      BY <2>1, <3>2
    <3>4. Len(revs'[j]) # 0 /\ revs'[j][Len(revs'[j])].final
      BY <3>2
    <3>. QED
      BY <2>2, <2>3, <3>3, <3>4 DEF FinalsOf
  <2>4. CASE ~(s = "completed" /\ kind[j] \in Query \cup Analysis)
    <3>1. \/ revs'[j] = revs[j]
          \/ revs'[j] = Append(revs[j], [cutoff |-> count[j], final |-> FALSE,
                                         coverage |-> 0])
      BY <2>2, <2>4 DEF RevisionsAfter
    <3>2. \A i \in 1 .. Len(revs'[j]) : ~revs'[j][i].final
      <4>1. CASE revs'[j] = revs[j]
        BY <2>1, <4>1
      <4>2. CASE revs'[j] = Append(revs[j], [cutoff |-> count[j],
                                             final |-> FALSE, coverage |-> 0])
        BY <2>1, <4>2
      <4>. QED
        BY <3>1, <4>1, <4>2
    <3>. QED
      BY <2>2, <2>4, <3>2 DEF FinalsOf
  <2>. QED
    BY <2>3, <2>4
<1>. QED
  BY <1>1, <1>2, <1>3, <1>4, JobSteps DEF RInv, JobStep

(* Readable, final and stopped are kept together by every step.             *)
LEMMA NextRInv == ASSUME RInv, [Next]_vars PROVE RInv'
<1>1. CASE Next
  BY <1>1, NextIInv, StopKnownKept, PublishRunningKept, FiledStoredKept,
     CutoffsInKept, FinalsKept DEF RInv
<1>2. CASE UNCHANGED vars
  <2>1. UNCHANGED <<kind, state, stop, count, filed, revs, store, pc, cur>>
    BY <1>2 DEF vars, rows, jobRows, resultRows, files, coordinator
  <2>2. IInv'
    BY <1>2, NextIInv DEF RInv
  <2>. QED
    BY <2>1, <2>2 DEF RInv, StopKnown, PublishRunning, FiledStored, CutoffsIn,
       FinalIffCompleted
<1>. QED
  BY <1>1, <1>2

(* Nothing is shown before the first job.                                   *)
LEMMA InitRInv == ASSUME Init PROVE RInv
<1>1. \A j \in Jobs : state[j] = "absent" /\ stop[j] = "none" /\ revs[j] = <<>>
  BY DEF Init
<1>2. StopKnown
  BY <1>1 DEF StopKnown, Terminal, Reasons
<1>3. CutoffsIn /\ FinalIffCompleted
  BY <1>1 DEF CutoffsIn, FinalIffCompleted
<1>. QED
  BY <1>2, <1>3, InitIInv DEF Init, RInv, PublishRunning, FiledStored

(* The invariant of what a job shows.                                       *)
THEOREM ResultsInductive == Spec => []RInv
<1>1. Init => RInv
  BY InitRInv
<1>2. RInv /\ [Next]_vars => RInv'
  BY NextRInv
<1>. QED
  BY <1>1, <1>2, PTL DEF Spec

(* A requested stop decides how the job ends, whatever its worker reports   *)
(* and however often the coordinator dies on the way.                       *)
THEOREM StopsDecide == Spec => []StopDecides
<1>1. RInv => StopDecides
  BY DEF RInv, StopKnown, StopDecides
<1>. QED
  BY <1>1, ResultsInductive, PTL

(* Whatever a committed revision covers is committed, and is a file in      *)
(* store/ unless it was stored inline, at every moment of a publication, a  *)
(* recovery or a cleaning.                                                  *)
THEOREM RevisionsReadable == Spec => []ReadableRevisions
<1>1. RInv => ReadableRevisions
  BY DEF RInv, CutoffsIn, FiledStored, ReadableRevisions
<1>. QED
  BY <1>1, ResultsInductive, PTL

(* A revision says it is final exactly in completed queries and aggregates. *)
THEOREM FinalMeansCompleted == Spec => []FinalIffCompleted
<1>1. RInv => FinalIffCompleted
  BY DEF RInv
<1>. QED
  BY <1>1, ResultsInductive, PTL
-----------------------------------------------------------------------------
(***************************************************************************)
(* What a step may never do.                                               *)
(***************************************************************************)

(* Revisions are added at the end, one at a time, and only while active.    *)
LEMMA RevisionsGrow ==
    ASSUME IInv, Next, NEW j \in Jobs
    PROVE  /\ revs'[j] = revs[j] \/ \E r : revs'[j] = Append(revs[j], r)
           /\ state[j] \in Terminal => /\ state'[j] = state[j]
                                       /\ revs'[j] = revs[j]
                                       /\ count'[j] = count[j]
<1>. revs[j] \in Seq(Revision)
  BY DEF IInv, TypeOK, ResultsOK
<1>1. CASE Same(j) \/ AcceptStep(j) \/ StopStep(j) \/ BeginStep(j)
  BY <1>1 DEF Same, AcceptStep, StopStep, BeginStep, Terminal, Reasons, Active
<1>2. CASE PublishStep(j)
  <2>1. PICK part \in PartMessage : revs'[j] = revs[j] \o Shown(part)
    BY <1>2 DEF PublishStep
  <2>. DEFINE r == [cutoff |-> part.seq + 1, final |-> FALSE,
                    coverage |-> part.progress]
  <2>2. Shown(part) = <<>> \/ Shown(part) = <<r>>
    BY DEF Shown
  <2>3. r \in Revision
    BY DEF Revision, PartMessage
  <2>. HIDE DEF r
  <2>5. revs[j] \o <<r>> = Append(revs[j], r)
    BY <2>3, AppendIsConcat
  <2>6. revs[j] \o <<>> = revs[j]
    BY ConcatEmptySeq
  <2>4. state[j] \notin Terminal
    BY <1>2 DEF PublishStep, Active, Terminal, Reasons
  <2>. QED
    BY <2>1, <2>2, <2>4, <2>5, <2>6
<1>3. CASE EndStep(j)
  <2>1. PICK s : revs'[j] = RevisionsAfter(j, s)
    BY <1>3 DEF EndStep
  <2>2. revs'[j] = revs[j] \/ \E r : revs'[j] = Append(revs[j], r)
    BY <2>1 DEF RevisionsAfter
  <2>3. state[j] \notin Terminal
    BY <1>3 DEF EndStep, Active, Terminal, Reasons
  <2>. QED
    BY <2>2, <2>3
<1>. QED
  BY <1>1, <1>2, <1>3, JobSteps DEF JobStep

(* A prepared dataset stays visible.                                        *)
LEMMA DatasetsStay == ASSUME IInv, Next PROVE dataset \subseteq dataset'
<1>1. ASSUME Recovery PROVE dataset \subseteq dataset'
  BY <1>1 DEF Recovery, DatasetsAfter, StartCoordinator, RecoverKilled,
         RecoverDone, RecoverClean, RecoverKill, RecoverFinish, FinishRows,
         rows, resultRows
<1>2. ASSUME Running PROVE dataset \subseteq dataset'
  BY <1>2 DEF Running, DatasetsAfter, Queued, SpawnWorker, ReuseWorker,
         SetWorker, SendSpec, BrokenPipe, HandleSchema, PublishInline,
         PublishRows, PublishRename, PublishCommit, PublishReject, AnswerOk,
         AnswerCancel, HandleCompleted, HandleFailed, HandleEof, Timeout,
         RequestStop, Signal, Kill, rows, resultRows
<1>3. ASSUME Ending PROVE dataset \subseteq dataset'
  BY <1>3 DEF Ending, DatasetsAfter, Decide, Terminate, TerminatePool, Finish,
         FinishRows, LinkSidecar, SidecarExists, LinkTarget, TargetExists,
         FinishExport, Tidy, LostTerminate, LostFinish, Clean, rows, resultRows
<1>4. ASSUME Misfortune PROVE dataset \subseteq dataset'
  BY <1>4 DEF Misfortune, DatasetsAfter, RecoverGivesUp, RecoverFails,
         RunJobFails, PublishFails, FinishFails, LostFinishFails, CleanFails,
         Crash, Stopped, Shutdown, rows, resultRows
<1>5. ASSUME Clients PROVE dataset \subseteq dataset'
  BY <1>5 DEF Clients, DatasetsAfter, ForeignTarget, Submit, Cancel,
         RequestStop, rows, resultRows
<1>6. ASSUME NEW w \in Workers, Work(w) PROVE dataset \subseteq dataset'
  BY <1>6 DEF Work, DatasetsAfter, Take, WorkerGoto, SendSchema, StageExport,
         Stage, SendPart, ReadOk, Complete, EndJob, Fail, Stop, Exit, rows,
         resultRows
<1>7. ASSUME IdleTerminate PROVE dataset \subseteq dataset'
  BY <1>7 DEF IdleTerminate, DatasetsAfter, TerminatePool, rows, resultRows
<1>. QED
  BY <1>1, <1>2, <1>3, <1>4, <1>5, <1>6, <1>7 DEF Next, Coordinate

(* Links never replace what stands at the destination.                      *)
LEMMA TargetStays ==
    ASSUME IInv, Next
    PROVE  target # NoJob => target' = target
<1>1. ASSUME Recovery PROVE target # NoJob => target' = target
  BY <1>1 DEF Recovery, StartCoordinator, RecoverKilled, RecoverDone,
         RecoverClean, CleanAttempt, RecoverKill, RecoverFinish, files
<1>2. ASSUME Running PROVE target # NoJob => target' = target
  BY <1>2 DEF Running, Queued, SpawnWorker, ReuseWorker, SetWorker, SendSpec,
         BrokenPipe, HandleSchema, PublishInline, PublishRename, PublishCommit,
         PublishReject, AnswerOk, AnswerCancel, HandleCompleted, HandleFailed,
         HandleEof, Timeout, Signal, Kill, files
<1>3. ASSUME Ending PROVE target # NoJob => target' = target
  BY <1>3 DEF Ending, Decide, Terminate, TerminatePool, Finish, LinkSidecar,
         SidecarExists, LinkTarget, TargetExists, FinishExport, Tidy,
         LostTerminate, LostFinish, Clean, CleanAttempt, files
<1>4. ASSUME Misfortune PROVE target # NoJob => target' = target
  BY <1>4
     DEF Misfortune, RecoverGivesUp, RecoverFails, RunJobFails, PublishFails,
         FinishFails, LostFinishFails, CleanFails, Crash, Stopped, Shutdown,
         files
<1>5. ASSUME Clients PROVE target # NoJob => target' = target
  BY <1>5 DEF Clients, ForeignTarget, Submit, Cancel, files
<1>6. ASSUME NEW w \in Workers, Work(w)
      PROVE  target # NoJob => target' = target
  BY <1>6 DEF Work, Take, WorkerGoto, SendSchema, StageExport, Stage, SendPart,
         ReadOk, Complete, EndJob, Fail, Stop, Exit, files
<1>7. ASSUME IdleTerminate PROVE target # NoJob => target' = target
  BY <1>7 DEF IdleTerminate, TerminatePool, files
<1>. QED
  BY <1>1, <1>2, <1>3, <1>4, <1>5, <1>6, <1>7 DEF Next, Coordinate

(* What HistoryStable says of one step.                                     *)
HistoryStep ==
    /\ \A j \in Jobs :
          /\ state[j] \in Terminal =>
                state'[j] = state[j] /\ revs'[j] = revs[j] /\ count'[j] = count[j]
          /\ Len(revs[j]) <= Len(revs'[j])
          /\ \A i \in 1 .. Len(revs[j]) : revs'[j][i] = revs[j][i]
    /\ dataset \subseteq dataset'
    /\ target # NoJob => target' = target

(* Every step of the system is such a step. *)
LEMMA NextHistoryStep == ASSUME IInv, Next PROVE HistoryStep
<1>1. ASSUME NEW j \in Jobs
      PROVE  /\ Len(revs[j]) <= Len(revs'[j])
             /\ \A i \in 1 .. Len(revs[j]) : revs'[j][i] = revs[j][i]
  <2>1. revs[j] \in Seq(Revision) /\ Len(revs[j]) \in Nat
    BY DEF IInv, TypeOK, ResultsOK
  <2>2. CASE revs'[j] = revs[j]
    BY <2>1, <2>2
  <2>3. ASSUME NEW r, revs'[j] = Append(revs[j], r)
        PROVE  /\ Len(revs'[j]) = Len(revs[j]) + 1
               /\ \A i \in 1 .. Len(revs[j]) : revs'[j][i] = revs[j][i]
    BY <2>1, <2>3
  <2>. QED
    BY <2>1, <2>2, <2>3, RevisionsGrow
<1>. QED
  BY <1>1, RevisionsGrow, DatasetsStay, TargetStays DEF HistoryStep

(* What ended stays as it ended, revisions are only added, and datasets and *)
(* exports are never taken back.                                            *)
THEOREM HistoryIsStable == Spec => HistoryStable
<1>1. IInv /\ [Next]_vars => [HistoryStep]_vars
  BY NextHistoryStep
<1>. QED
  BY <1>1, Inductive, PTL DEF Spec, HistoryStable, HistoryStep

(* What NothingAfterStop says of one step.                                  *)
StoppedStep ==
    \A j \in Jobs : stop[j] # "none" =>
        /\ count'[j] = count[j]
        /\ revs'[j] # revs[j] => revs[j] = <<>> /\ state'[j] \in Terminal

(* Every step of the system keeps what a stop decided. *)
LEMMA NextStoppedStep == ASSUME RInv, Next PROVE StoppedStep
<1>. SUFFICES ASSUME NEW j \in Jobs, stop[j] # "none"
              PROVE  /\ count'[j] = count[j]
                     /\ revs'[j] # revs[j] =>
                           revs[j] = <<>> /\ state'[j] \in Terminal
  BY DEF StoppedStep
<1>1. CASE Same(j) \/ AcceptStep(j) \/ StopStep(j) \/ BeginStep(j)
  BY <1>1 DEF Same, AcceptStep, StopStep, BeginStep
<1>2. ~PublishStep(j)
  BY DEF PublishStep, RInv, StopKnown, PublishRunning
<1>3. CASE EndStep(j)
  <2>1. state'[j] = stop[j] /\ revs'[j] = RevisionsAfter(j, stop[j])
    BY <1>3 DEF EndStep, Outcome
  <2>2. stop[j] \in Reasons
    BY DEF RInv, IInv, TypeOK, JobsOK
  <2>. QED
    BY <1>3, <2>1, <2>2 DEF EndStep, RevisionsAfter, Reasons, Terminal
<1>. QED
  BY <1>1, <1>2, <1>3, JobSteps DEF RInv, JobStep

(* Once a stop is requested the job gains no part and no preview.           *)
THEOREM NothingFollowsAStop == Spec => NothingAfterStop
<1>1. RInv /\ [Next]_vars => [StoppedStep]_vars
  BY NextStoppedStep
<1>. QED
  BY <1>1, ResultsInductive, PTL DEF Spec, NothingAfterStop, StoppedStep

(* Files are staged only for the job of a computing worker.                 *)
LEMMA StagingShrinks ==
    ASSUME IInv, Next, NEW i \in Jobs, state[i] \in Terminal
    PROVE  StagedBy(i)' \subseteq StagedBy(i)
<1>1. ASSUME Recovery PROVE StagedBy(i)' \subseteq StagedBy(i)
  BY <1>1 DEF Recovery, StagedBy, StartCoordinator, RecoverKilled, RecoverDone,
         RecoverClean, CleanAttempt, RecoverKill, RecoverFinish, files
<1>2. ASSUME Running PROVE StagedBy(i)' \subseteq StagedBy(i)
  BY <1>2 DEF Running, StagedBy, Queued, SpawnWorker, ReuseWorker, SetWorker,
         SendSpec, BrokenPipe, HandleSchema, PublishInline, PublishRename,
         PublishCommit, PublishReject, AnswerOk, AnswerCancel, HandleCompleted,
         HandleFailed, HandleEof, Timeout, Signal, Kill, files
<1>3. ASSUME Ending PROVE StagedBy(i)' \subseteq StagedBy(i)
  BY <1>3 DEF Ending, StagedBy, Decide, Terminate, TerminatePool, Finish,
         LinkSidecar, SidecarExists, LinkTarget, TargetExists, FinishExport,
         Tidy, LostTerminate, LostFinish, Clean, CleanAttempt, files
<1>4. ASSUME Misfortune PROVE StagedBy(i)' \subseteq StagedBy(i)
  BY <1>4
     DEF Misfortune, StagedBy, RecoverGivesUp, RecoverFails, RunJobFails,
         PublishFails, FinishFails, LostFinishFails, CleanFails, Crash,
         Stopped, Shutdown, files
<1>5. ASSUME Clients PROVE StagedBy(i)' \subseteq StagedBy(i)
  BY <1>5 DEF Clients, StagedBy, ForeignTarget, Submit, Cancel, files
<1>6. ASSUME NEW w \in Workers, Stage(w)
      PROVE  StagedBy(i)' \subseteq StagedBy(i)
  <2>1. state[wjob[w]] \in Active
    BY <1>6 DEF IInv, Owned, Executing, Busy, WorkerPlaces, Stage
  <2>2. wjob[w] # i
    BY <2>1 DEF Active, Terminal, Reasons
  <2>. QED
    BY <1>6, <2>2 DEF Stage, StagedBy
<1>7. ASSUME NEW w \in Workers, Work(w)
      PROVE  StagedBy(i)' \subseteq StagedBy(i)
       \/ Stage(w)
  BY <1>7 DEF Work, StagedBy, Take, SendSchema, StageExport, SendPart, ReadOk,
         Complete, EndJob, Fail, Stop, Exit, files
<1>8. ASSUME IdleTerminate PROVE StagedBy(i)' \subseteq StagedBy(i)
  BY <1>8 DEF IdleTerminate, StagedBy, TerminatePool, files
<1>. QED
  BY <1>1, <1>2, <1>3, <1>4, <1>5, <1>6, <1>7, <1>8 DEF Next, Coordinate

(* No process stages files for a job that is over, also not a worker whose  *)
(* coordinator died.                                                        *)
THEOREM StagingEnds == Spec => NoLateStaging
<1>1. IInv /\ [Next]_vars =>
        [\A j \in Jobs :
            state[j] \in Terminal => StagedBy(j)' \subseteq StagedBy(j)]_vars
  BY StagingShrinks
<1>. QED
  BY <1>1, Inductive, PTL DEF Spec, NoLateStaging
-----------------------------------------------------------------------------
(***************************************************************************)
(* The destination of an export.                                           *)
(***************************************************************************)

\* Links are made for an export that completed and that nobody stopped.
Linking ==
    pc \in {"sidecar", "target"} =>
        kind[cur] = "export" /\ report = "completed" /\ stop[cur] = "none"

\* The sidecar comes first and goes last.
Links ==
    /\ pc = "sidecar" => sidecar = cur /\ target \notin Jobs
    /\ pc = "target" => target = cur
    /\ target \in Jobs => sidecar = target

\* The error path never reports completion.
LostReport ==
    pc \in {"lost", "lost_finish"} => report \in {"failed", "interrupted"}

\* A completed export left its file.
ExportsDone ==
    \A j \in Jobs : state[j] = "completed" /\ kind[j] = "export" => target = j

\* While no call fails, only a crash comes between the links and the row.
Placed ==
    \A j \in Jobs : target = j /\ faults = 0 =>
        \/ state[j] \in {"completed", "interrupted"}
        \/ /\ state[j] \in Active /\ stop[j] = "none"
           /\ pc \in Starting \/ (pc = "target" /\ cur = j)

XInv == IInv /\ Linking /\ Links /\ LostReport /\ ExportsDone /\ Placed

(* No request is answered while the links are made.                         *)
LEMMA LinkingKept == ASSUME XInv, Next PROVE Linking'
<1>1. ASSUME Recovery PROVE Linking'
  BY <1>1 DEF Recovery, XInv, IInv, TypeOK, JobsOK, Linking, Unlocked,
         StartCoordinator, Goto, RecoverKilled, RecoverDone, RecoverClean,
         RecoverKill, RecoverFinish, FinishRows, coordinator, rows, jobRows
<1>2. ASSUME Running PROVE Linking'
  BY <1>2
     DEF Running, XInv, IInv, TypeOK, JobsOK, Linking, Unlocked, Queued,
         SpawnWorker, ReuseWorker, Goto, SetWorker, SendSpec, BrokenPipe,
         Reports, HandleSchema, Received, PublishInline, PublishRows,
         PublishRename, PublishCommit, PublishReject, AnswerOk, AnswerCancel,
         HandleCompleted, HandleFailed, HandleEof, Timeout, RequestStop,
         Signal, Kill, coordinator, rows, jobRows
<1>3. ASSUME LinkSidecar PROVE Linking'
  <2>1. cur \in Jobs
    BY <1>3 DEF XInv, IInv, Present, Held, Places, LinkSidecar
  <2>2. stop[cur] = "none" /\ report = "completed" /\ kind[cur] = "export"
    BY <1>3, <2>1
       DEF XInv, IInv, TypeOK, JobsOK, LinkSidecar, Exports, Outcome, Reasons
  <2>. QED
    BY <1>3, <2>2 DEF Linking, LinkSidecar, Goto, rows, jobRows
<1>4. ASSUME Ending PROVE Linking' \/ LinkSidecar
  BY <1>4 DEF Ending, XInv, IInv, TypeOK, JobsOK, Linking, Unlocked, Decide,
         Goto, Terminate, TerminatePool, Finish, FinishRows, SidecarExists,
         Reports, LinkTarget, TargetExists, FinishExport, Tidy, LostTerminate,
         LostFinish, Clean, EndRun, coordinator, rows, jobRows
<1>5. ASSUME Misfortune PROVE Linking'
  BY <1>5
     DEF Misfortune, XInv, IInv, TypeOK, JobsOK, Linking, Unlocked,
         RecoverGivesUp, Goto, RecoverFails, RunJobFails, Reports,
         PublishFails, FinishFails, LostFinishFails, CleanFails, EndRun,
         Crash, Stopped, Shutdown, coordinator, rows, jobRows
<1>6. ASSUME Clients PROVE Linking'
  BY <1>6 DEF Clients, XInv, IInv, TypeOK, JobsOK, Linking, Unlocked,
         ForeignTarget, Submit, Cancel, RequestStop, coordinator, rows, jobRows
<1>7. ASSUME NEW w \in Workers, Work(w) PROVE Linking'
  BY <1>7
     DEF Work, XInv, IInv, TypeOK, JobsOK, Linking, Unlocked, Take,
         WorkerGoto, SendSchema, StageExport, Stage, SendPart, ReadOk,
         Complete, EndJob, Fail, Stop, Exit, coordinator, rows, jobRows
<1>8. ASSUME IdleTerminate PROVE Linking'
  BY <1>8 DEF IdleTerminate, XInv, IInv, TypeOK, JobsOK, Linking, Unlocked,
         TerminatePool, coordinator, rows, jobRows
<1>. QED
  BY <1>1, <1>2, <1>3, <1>4, <1>5, <1>6, <1>7, <1>8 DEF Next, Coordinate

(* Errors end a run as failed, a broken pipe as interrupted.                *)
LEMMA LostReportKept == ASSUME XInv, Next PROVE LostReport'
<1>1. ASSUME Recovery PROVE LostReport'
  BY <1>1
     DEF Recovery, XInv, LostReport, StartCoordinator, Goto, RecoverKilled,
         RecoverDone, RecoverClean, RecoverKill, RecoverFinish, coordinator
<1>2. ASSUME Running PROVE LostReport'
  BY <1>2
     DEF Running, XInv, LostReport, Queued, SpawnWorker, ReuseWorker, Goto,
         SetWorker, SendSpec, BrokenPipe, Reports, HandleSchema, Received,
         PublishInline, PublishRename, PublishCommit, PublishReject, AnswerOk,
         AnswerCancel, HandleCompleted, HandleFailed, HandleEof, Timeout,
         Signal, Kill, coordinator
<1>3. ASSUME Ending PROVE LostReport'
  BY <1>3 DEF Ending, XInv, LostReport, Decide, Goto, Terminate, TerminatePool,
         Finish, LinkSidecar, SidecarExists, Reports, LinkTarget, TargetExists,
         FinishExport, Tidy, LostTerminate, LostFinish, Clean, EndRun,
         coordinator
<1>4. ASSUME Misfortune PROVE LostReport'
  BY <1>4 DEF Misfortune, XInv, LostReport, RecoverGivesUp, Goto, RecoverFails,
         RunJobFails, Reports, PublishFails, FinishFails, LostFinishFails,
         CleanFails, EndRun, Crash, Stopped, Shutdown, coordinator
<1>5. ASSUME Clients PROVE LostReport'
  BY <1>5 DEF Clients, XInv, LostReport, ForeignTarget, Submit, Cancel,
         coordinator
<1>6. ASSUME NEW w \in Workers, Work(w) PROVE LostReport'
  BY <1>6
     DEF Work, XInv, LostReport, Take, WorkerGoto, SendSchema, StageExport,
         Stage, SendPart, ReadOk, Complete, EndJob, Fail, Stop, Exit,
         coordinator
<1>7. ASSUME IdleTerminate PROVE LostReport'
  BY <1>7 DEF IdleTerminate, XInv, LostReport, TerminatePool, coordinator
<1>. QED
  BY <1>1, <1>2, <1>3, <1>4, <1>5, <1>6, <1>7 DEF Next, Coordinate

(* Nobody else's data file ever stands beside the sidecar of an export.     *)
LEMMA LinksKept == ASSUME XInv, Next PROVE Links'
<1>1. ASSUME Recovery PROVE Links'
  BY <1>1 DEF Recovery, XInv, IInv, TypeOK, FilesOK, Present, Held, Places,
         Links, StartCoordinator, Goto, RecoverKilled, RecoverDone,
         RecoverClean, CleanAttempt, RecoverKill, RecoverFinish, coordinator,
         files
<1>2. ASSUME Running PROVE Links'
  BY <1>2 DEF Running, XInv, IInv, TypeOK, FilesOK, Present, Held, Places,
         Links, Queued, SpawnWorker, ReuseWorker, Goto, SetWorker, SendSpec,
         BrokenPipe, Reports, HandleSchema, Received, PublishInline,
         PublishRows, PublishRename, PublishCommit, PublishReject, AnswerOk,
         AnswerCancel, HandleCompleted, HandleFailed, HandleEof, Timeout,
         Signal, Kill, coordinator, files
<1>3. ASSUME LinkSidecar PROVE Links'
  <2>1. target \notin Jobs
    BY <1>3, JobsAssumption DEF XInv, Links, LinkSidecar
  <2>. QED
    BY <1>3, <2>1 DEF Links, LinkSidecar, Goto
<1>4. ASSUME LinkTarget PROVE Links'
  <2>1. cur \in Jobs /\ sidecar = cur
    BY <1>4 DEF XInv, IInv, Present, Held, Places, Links, LinkTarget
  <2>. QED
    BY <1>4, <2>1 DEF Links, LinkTarget, Goto
<1>5. ASSUME Ending PROVE Links' \/ LinkSidecar \/ LinkTarget
  BY <1>5
     DEF Ending, XInv, IInv, TypeOK, FilesOK, Present, Held, Places, Links,
         Decide, Goto, Terminate, TerminatePool, Finish, SidecarExists,
         Reports, TargetExists, FinishExport, Tidy, LostTerminate, LostFinish,
         Clean, CleanAttempt, EndRun, coordinator, files
<1>6. ASSUME Misfortune PROVE Links'
  BY <1>6 DEF Misfortune, XInv, IInv, TypeOK, FilesOK, Present, Held, Places,
         Links, RecoverGivesUp, Goto, RecoverFails, RunJobFails, Reports,
         PublishFails, FinishFails, LostFinishFails, CleanFails, EndRun, Crash,
         Stopped, Shutdown, coordinator, files
<1>7. ASSUME ForeignTarget PROVE Links'
  <2>1. target' \notin Jobs /\ pc # "target"
    BY <1>7, JobsAssumption
       DEF XInv, IInv, Present, Held, Places, Links, ForeignTarget
  <2>. QED
    BY <1>7, <2>1 DEF XInv, Links, ForeignTarget, coordinator
<1>8. ASSUME Clients PROVE Links' \/ ForeignTarget
  BY <1>8 DEF Clients, XInv, IInv, TypeOK, FilesOK, Present, Held, Places,
         Links, Submit, Cancel, coordinator, files
<1>9. ASSUME NEW w \in Workers, Work(w) PROVE Links'
  BY <1>9 DEF Work, XInv, IInv, TypeOK, FilesOK, Present, Held, Places, Links,
         Take, WorkerGoto, SendSchema, StageExport, Stage, SendPart, ReadOk,
         Complete, EndJob, Fail, Stop, Exit, coordinator, files
<1>10. ASSUME IdleTerminate PROVE Links'
  BY <1>10 DEF IdleTerminate, XInv, IInv, TypeOK, FilesOK, Present, Held,
         Places, Links, TerminatePool, coordinator, files
<1>. QED
  BY <1>1, <1>2, <1>3, <1>4, <1>5, <1>6, <1>7, <1>8, <1>9, <1>10 DEF Next,
         Coordinate

(* Only the transaction behind both links completes an export.              *)
LEMMA ExportsDoneKept == ASSUME XInv, Next PROVE ExportsDone'
<1>1. ASSUME NEW j \in Jobs, RecoverFinish(j) PROVE ExportsDone'
  <2>1. target' = target /\ kind' = kind
    BY <1>1 DEF RecoverFinish, FinishRows, files
  <2>2. state'[j] # "completed"
    BY <1>1 DEF XInv, IInv, TypeOK, JobsOK, RecoverFinish, FinishRows, Outcome,
       Reasons
  <2>3. \A i \in Jobs \ {j} : state'[i] = state[i]
    BY <1>1 DEF XInv, IInv, TypeOK, JobsOK, RecoverFinish, FinishRows
  <2>. QED
    BY <2>1, <2>2, <2>3 DEF XInv, ExportsDone
<1>2. ASSUME Recovery PROVE ExportsDone' \/ (\E j \in Jobs : RecoverFinish(j))
  BY <1>2 DEF Recovery, XInv, IInv, TypeOK, JobsOK, ExportsDone, Active,
         Reasons, StartCoordinator, RecoverKilled, RecoverDone, RecoverClean,
         CleanAttempt, RecoverKill, rows, jobRows, files
<1>3. ASSUME Running PROVE ExportsDone'
  BY <1>3
     DEF Running, XInv, IInv, TypeOK, JobsOK, ExportsDone, Active, Reasons,
         Queued, SpawnWorker, ReuseWorker, SetWorker, SendSpec, BrokenPipe,
         HandleSchema, PublishInline, PublishRows, PublishRename,
         PublishCommit, PublishReject, AnswerOk, AnswerCancel,
         HandleCompleted, HandleFailed, HandleEof, Timeout, RequestStop,
         Signal, Kill, rows, jobRows, files
<1>4. ASSUME Finish PROVE ExportsDone'
  <2>1. cur \in Jobs /\ report \in Terminal
    BY <1>4 DEF XInv, IInv, Present, Finish, Judged, Held, Places
  <2>2. kind[cur] = "export" /\ state'[cur] = "completed" => target = cur
    BY <1>4, <2>1
       DEF XInv, IInv, TypeOK, JobsOK, Links, LostReport, Finish, FinishRows,
           Exports, Outcome, Reasons
  <2>3. target' = target /\ kind' = kind
    BY <1>4 DEF Finish, FinishRows, files
  <2>4. \A j \in Jobs \ {cur} : state'[j] = state[j]
    BY <1>4, <2>1 DEF XInv, IInv, TypeOK, JobsOK, Finish, FinishRows
  <2>. QED
    BY <2>2, <2>3, <2>4 DEF XInv, ExportsDone
<1>5. ASSUME LinkTarget PROVE ExportsDone'
  BY <1>5, JobsAssumption
     DEF XInv, ExportsDone, LinkTarget, Goto, rows, jobRows
<1>6. ASSUME FinishExport PROVE ExportsDone'
  <2>1. cur \in Jobs /\ report \in Terminal
    BY <1>6 DEF XInv, IInv, Present, FinishExport, Judged, Held, Places
  <2>2. kind[cur] = "export" /\ state'[cur] = "completed" => target = cur
    BY <1>6, <2>1
       DEF XInv, IInv, TypeOK, JobsOK, Links, LostReport, FinishExport,
           FinishRows, Exports, Outcome, Reasons
  <2>3. target' = target /\ kind' = kind
    BY <1>6 DEF FinishExport, FinishRows, files
  <2>4. \A j \in Jobs \ {cur} : state'[j] = state[j]
    BY <1>6, <2>1 DEF XInv, IInv, TypeOK, JobsOK, FinishExport, FinishRows
  <2>. QED
    BY <2>2, <2>3, <2>4 DEF XInv, ExportsDone
<1>7. ASSUME LostFinish PROVE ExportsDone'
  <2>1. cur \in Jobs /\ report \in Terminal
    BY <1>7 DEF XInv, IInv, Present, LostFinish, Judged, Held, Places
  <2>2. kind[cur] = "export" /\ state'[cur] = "completed" => target = cur
    BY <1>7, <2>1
       DEF XInv, IInv, TypeOK, JobsOK, Links, LostReport, LostFinish,
           FinishRows, Exports, Outcome, Reasons
  <2>3. target' = target /\ kind' = kind
    BY <1>7 DEF LostFinish, FinishRows, files
  <2>4. \A j \in Jobs \ {cur} : state'[j] = state[j]
    BY <1>7, <2>1 DEF XInv, IInv, TypeOK, JobsOK, LostFinish, FinishRows
  <2>. QED
    BY <2>2, <2>3, <2>4 DEF XInv, ExportsDone
<1>8. ASSUME Ending PROVE ExportsDone' \/ Finish \/ LinkTarget \/ FinishExport
       \/ LostFinish
  BY <1>8 DEF Ending, XInv, IInv, TypeOK, JobsOK, ExportsDone, Active, Reasons,
         Decide, Terminate, TerminatePool, LinkSidecar, SidecarExists,
         TargetExists, Tidy, LostTerminate, Clean, CleanAttempt, rows, jobRows,
         files
<1>9. ASSUME Misfortune PROVE ExportsDone'
  BY <1>9 DEF Misfortune, XInv, IInv, TypeOK, JobsOK, ExportsDone, Active,
         Reasons, RecoverGivesUp, RecoverFails, RunJobFails, PublishFails,
         FinishFails, LostFinishFails, CleanFails, Crash, Stopped, Shutdown,
         rows, jobRows, files
<1>10. ASSUME ForeignTarget PROVE ExportsDone'
  BY <1>10, JobsAssumption
     DEF XInv, ExportsDone, ForeignTarget, Goto, rows, jobRows
<1>11. ASSUME Clients PROVE ExportsDone' \/ ForeignTarget
  BY <1>11 DEF Clients, XInv, IInv, TypeOK, JobsOK, ExportsDone, Active,
         Reasons, Submit, Cancel, RequestStop, rows, jobRows, files
<1>12. ASSUME NEW w \in Workers, Work(w) PROVE ExportsDone'
  BY <1>12 DEF Work, XInv, IInv, TypeOK, JobsOK, ExportsDone, Active, Reasons,
         Take, WorkerGoto, SendSchema, StageExport, Stage, SendPart, ReadOk,
         Complete, EndJob, Fail, Stop, Exit, rows, jobRows, files
<1>13. ASSUME IdleTerminate PROVE ExportsDone'
  BY <1>13 DEF IdleTerminate, XInv, IInv, TypeOK, JobsOK, ExportsDone, Active,
         Reasons, TerminatePool, rows, jobRows, files
<1>. QED
  BY <1>1, <1>2, <1>3, <1>4, <1>5, <1>6, <1>7, <1>8, <1>9, <1>10, <1>11, <1>12,
         <1>13 DEF Next, Coordinate

(* A stop cannot come between the links and the end of the job.             *)
LEMMA PlacedKept == ASSUME XInv, Next PROVE Placed'
<1>1. ASSUME NEW j \in Jobs, RecoverFinish(j) PROVE Placed'
  <2>1. target = j /\ faults = 0 => state'[j] \in {"completed", "interrupted"}
    BY <1>1
       DEF XInv, IInv, TypeOK, JobsOK, Placed, RecoverFinish, FinishRows,
           Active, Outcome
  <2>2. \A i \in Jobs \ {j} : state'[i] = state[i] /\ stop'[i] = stop[i]
    BY <1>1 DEF XInv, IInv, TypeOK, JobsOK, RecoverFinish, FinishRows
  <2>3. UNCHANGED <<target, faults>> /\ pc' \in Starting /\ pc \notin {"target"}
    BY <1>1 DEF RecoverFinish, files, bounds, Starting
  <2>. QED
    BY <2>1, <2>2, <2>3 DEF XInv, Placed
<1>2. ASSUME Recovery PROVE Placed' \/ (\E j \in Jobs : RecoverFinish(j))
  BY <1>2 DEF Recovery, XInv, IInv, TypeOK, JobsOK, BoundsOK, Placed, Linking,
         Links, Active, Starting, Present, Held, Places, Unlocked, Serving,
         Terminal, Reasons, StartCoordinator, Goto, RecoverKilled, RecoverDone,
         RecoverClean, CleanAttempt, RecoverKill, rows, jobRows, files, bounds,
         coordinator
<1>3. ASSUME NEW j \in Jobs, Queued(j) PROVE Placed'
  BY <1>3 DEF XInv, IInv, TypeOK, JobsOK, BoundsOK, Placed, Linking, Links,
         Active, Starting, Present, Held, Places, Unlocked, Serving, Terminal,
         Reasons, Queued, rows, jobRows, files, bounds, coordinator
<1>4. ASSUME NEW w \in Workers, SpawnWorker(w) PROVE Placed'
  BY <1>4 DEF XInv, IInv, TypeOK, JobsOK, BoundsOK, Placed, Linking, Links,
         Active, Starting, Present, Held, Places, Unlocked, Serving, Terminal,
         Reasons, SpawnWorker, rows, jobRows, files, bounds, coordinator
<1>5. ASSUME ReuseWorker PROVE Placed'
  BY <1>5 DEF XInv, IInv, TypeOK, JobsOK, BoundsOK, Placed, Linking, Links,
         Active, Starting, Present, Held, Places, Unlocked, Serving, Terminal,
         Reasons, ReuseWorker, Goto, rows, jobRows, files, bounds, coordinator
<1>6. ASSUME SetWorker PROVE Placed'
  BY <1>6 DEF XInv, IInv, TypeOK, JobsOK, BoundsOK, Placed, Linking, Links,
         Active, Starting, Present, Held, Places, Unlocked, Serving, Terminal,
         Reasons, SetWorker, Goto, rows, jobRows, files, bounds, coordinator
<1>7. ASSUME SendSpec PROVE Placed'
  BY <1>7 DEF XInv, IInv, TypeOK, JobsOK, BoundsOK, Placed, Linking, Links,
         Active, Starting, Present, Held, Places, Unlocked, Serving, Terminal,
         Reasons, SendSpec, Goto, rows, jobRows, files, bounds, coordinator
<1>8. ASSUME BrokenPipe PROVE Placed'
  BY <1>8
     DEF XInv, IInv, TypeOK, JobsOK, BoundsOK, Placed, Linking, Links, Active,
         Starting, Present, Held, Places, Unlocked, Serving, Terminal,
         Reasons, BrokenPipe, Reports, rows, jobRows, files, bounds,
         coordinator
<1>9. ASSUME HandleSchema PROVE Placed'
  BY <1>9 DEF XInv, IInv, TypeOK, JobsOK, BoundsOK, Placed, Linking, Links,
         Active, Starting, Present, Held, Places, Unlocked, Serving, Terminal,
         Reasons, HandleSchema, Received, rows, jobRows, files, bounds,
         coordinator
<1>10. ASSUME PublishInline PROVE Placed'
  BY <1>10 DEF XInv, IInv, TypeOK, JobsOK, BoundsOK, Placed, Linking, Links,
         Active, Starting, Present, Held, Places, Unlocked, Serving, Terminal,
         Reasons, PublishInline, Received, PublishRows, Goto, rows, jobRows,
         files, bounds, coordinator
<1>11. ASSUME PublishRename PROVE Placed'
  BY <1>11 DEF XInv, IInv, TypeOK, JobsOK, BoundsOK, Placed, Linking, Links,
         Active, Starting, Present, Held, Places, Unlocked, Serving, Terminal,
         Reasons, PublishRename, Received, Goto, rows, jobRows, files, bounds,
         coordinator
<1>12. ASSUME PublishCommit PROVE Placed'
  BY <1>12 DEF XInv, IInv, TypeOK, JobsOK, BoundsOK, Placed, Linking, Links,
         Active, Starting, Present, Held, Places, Unlocked, Serving, Terminal,
         Reasons, PublishCommit, PublishRows, Goto, rows, jobRows, files,
         bounds, coordinator
<1>13. ASSUME PublishReject PROVE Placed'
  BY <1>13 DEF XInv, IInv, TypeOK, JobsOK, BoundsOK, Placed, Linking, Links,
         Active, Starting, Present, Held, Places, Unlocked, Serving, Terminal,
         Reasons, PublishReject, Received, Goto, rows, jobRows, files, bounds,
         coordinator
<1>14. ASSUME AnswerOk PROVE Placed'
  BY <1>14 DEF XInv, IInv, TypeOK, JobsOK, BoundsOK, Placed, Linking, Links,
         Active, Starting, Present, Held, Places, Unlocked, Serving, Terminal,
         Reasons, AnswerOk, Goto, rows, jobRows, files, bounds, coordinator
<1>15. ASSUME AnswerCancel PROVE Placed'
  BY <1>15 DEF XInv, IInv, TypeOK, JobsOK, BoundsOK, Placed, Linking, Links,
         Active, Starting, Present, Held, Places, Unlocked, Serving, Terminal,
         Reasons, AnswerCancel, Goto, Reports, rows, jobRows, files, bounds,
         coordinator
<1>16. ASSUME HandleCompleted PROVE Placed'
  BY <1>16 DEF XInv, IInv, TypeOK, JobsOK, BoundsOK, Placed, Linking, Links,
         Active, Starting, Present, Held, Places, Unlocked, Serving, Terminal,
         Reasons, HandleCompleted, Received, Reports, rows, jobRows, files,
         bounds, coordinator
<1>17. ASSUME HandleFailed PROVE Placed'
  BY <1>17
     DEF XInv, IInv, TypeOK, JobsOK, BoundsOK, Placed, Linking, Links, Active,
         Starting, Present, Held, Places, Unlocked, Serving, Terminal,
         Reasons, HandleFailed, Received, Reports, rows, jobRows, files,
         bounds, coordinator
<1>18. ASSUME HandleEof PROVE Placed'
  BY <1>18 DEF XInv, IInv, TypeOK, JobsOK, BoundsOK, Placed, Linking, Links,
         Active, Starting, Present, Held, Places, Unlocked, Serving, Terminal,
         Reasons, HandleEof, Reports, rows, jobRows, files, bounds, coordinator
<1>19. ASSUME Timeout PROVE Placed'
  BY <1>19 DEF XInv, IInv, TypeOK, JobsOK, BoundsOK, Placed, Linking, Links,
         Active, Starting, Present, Held, Places, Unlocked, Serving, Terminal,
         Reasons, Timeout, RequestStop, rows, jobRows, files, bounds,
         coordinator
<1>20. ASSUME Signal PROVE Placed'
  BY <1>20 DEF XInv, IInv, TypeOK, JobsOK, BoundsOK, Placed, Linking, Links,
         Active, Starting, Present, Held, Places, Unlocked, Serving, Terminal,
         Reasons, Signal, rows, jobRows, files, bounds, coordinator
<1>21. ASSUME Kill PROVE Placed'
  BY <1>21 DEF XInv, IInv, TypeOK, JobsOK, BoundsOK, Placed, Linking, Links,
         Active, Starting, Present, Held, Places, Unlocked, Serving, Terminal,
         Reasons, Kill, Reports, rows, jobRows, files, bounds, coordinator
<1>22. ASSUME Finish PROVE Placed'
  <2>1. cur \in Jobs /\ report \in Terminal
    BY <1>22 DEF XInv, IInv, Present, Finish, Judged, Held, Places
  <2>2. target = cur /\ faults = 0 =>
            state'[cur] \in {"completed", "interrupted"}
    BY <1>22, <2>1
       DEF XInv, IInv, TypeOK, JobsOK, Links, Linking, Placed, Starting,
           Finish, FinishRows, Active, Outcome, Terminal, Reasons
  <2>3. UNCHANGED <<target, faults>>
    BY <1>22 DEF Finish, files, bounds
  <2>4. \A j \in Jobs \ {cur} : state'[j] = state[j] /\ stop'[j] = stop[j]
    BY <1>22, <2>1 DEF XInv, IInv, TypeOK, JobsOK, Finish, FinishRows
  <2>5. pc \notin Starting
    BY <1>22 DEF Starting, Finish
  <2>. QED
    BY <2>2, <2>3, <2>4, <2>5 DEF XInv, Placed
<1>23. ASSUME LinkTarget PROVE Placed'
  <2>1. /\ cur \in Jobs /\ state[cur] \in Active /\ stop[cur] = "none"
        /\ target' = cur /\ pc' = "target" /\ cur' = cur
        /\ UNCHANGED <<state, stop>>
    BY <1>23
       DEF XInv, IInv, Present, CurActive, Held, Unfinished, Places, Linking,
           LinkTarget, Goto, rows, jobRows
  <2>. QED
    BY <2>1 DEF Placed
<1>24. ASSUME FinishExport PROVE Placed'
  <2>1. cur \in Jobs /\ report \in Terminal
    BY <1>24 DEF XInv, IInv, Present, FinishExport, Judged, Held, Places
  <2>2. target = cur /\ faults = 0 =>
            state'[cur] \in {"completed", "interrupted"}
    BY <1>24, <2>1
       DEF XInv, IInv, TypeOK, JobsOK, Links, Linking, Placed, Starting,
           FinishExport, FinishRows, Active, Outcome, Terminal, Reasons
  <2>3. UNCHANGED <<target, faults>>
    BY <1>24 DEF FinishExport, files, bounds
  <2>4. \A j \in Jobs \ {cur} : state'[j] = state[j] /\ stop'[j] = stop[j]
    BY <1>24, <2>1 DEF XInv, IInv, TypeOK, JobsOK, FinishExport, FinishRows
  <2>5. pc \notin Starting
    BY <1>24 DEF Starting, FinishExport
  <2>. QED
    BY <2>2, <2>3, <2>4, <2>5 DEF XInv, Placed
<1>25. ASSUME LostFinish PROVE Placed'
  <2>1. cur \in Jobs /\ report \in Terminal
    BY <1>25 DEF XInv, IInv, Present, LostFinish, Judged, Held, Places
  <2>2. target = cur /\ faults = 0 =>
            state'[cur] \in {"completed", "interrupted"}
    BY <1>25, <2>1
       DEF XInv, IInv, TypeOK, JobsOK, Links, Linking, Placed, Starting,
           LostFinish, FinishRows, Active, Outcome, Terminal, Reasons
  <2>3. UNCHANGED <<target, faults>>
    BY <1>25 DEF LostFinish, files, bounds
  <2>4. \A j \in Jobs \ {cur} : state'[j] = state[j] /\ stop'[j] = stop[j]
    BY <1>25, <2>1 DEF XInv, IInv, TypeOK, JobsOK, LostFinish, FinishRows
  <2>5. pc \notin Starting
    BY <1>25 DEF Starting, LostFinish
  <2>. QED
    BY <2>2, <2>3, <2>4, <2>5 DEF XInv, Placed
<1>26. ASSUME Ending PROVE Placed' \/ Finish \/ LinkTarget \/ FinishExport \/
       LostFinish
  BY <1>26
     DEF Ending, XInv, IInv, TypeOK, JobsOK, BoundsOK, Placed, Linking, Links,
         Active, Starting, Present, Held, Places, Unlocked, Serving, Terminal,
         Reasons, Decide, Goto, Terminate, TerminatePool, LinkSidecar,
         SidecarExists, Reports, TargetExists, Tidy, LostTerminate, Clean,
         CleanAttempt, EndRun, rows, jobRows, files, bounds, coordinator
<1>27. ASSUME FinishFails PROVE Placed'
  <2>1. pc = "target" => faults' = faults + 1
    BY <1>27 DEF XInv, Linking, FinishFails, Accepted, Query, Analysis
  <2>2. faults \in Nat /\ faults' \in {faults, faults + 1}
    BY <1>27 DEF XInv, IInv, TypeOK, BoundsOK, FinishFails
  <2>3. pc # "target" => pc = "finish"
    BY <1>27 DEF FinishFails
  <2>4. UNCHANGED <<state, stop, target, cur>>
    BY <1>27 DEF FinishFails, Reports, rows, jobRows, files
  <2>. QED
    BY <2>1, <2>2, <2>3, <2>4 DEF XInv, Placed, Starting
<1>28. ASSUME Misfortune PROVE Placed' \/ FinishFails
  BY <1>28 DEF Misfortune, XInv, IInv, TypeOK, JobsOK, BoundsOK, Placed,
         Linking, Links, Active, Starting, Present, Held, Places, Unlocked,
         Serving, Terminal, Reasons, RecoverGivesUp, Goto, RecoverFails, Fault,
         RunJobFails, Reports, PublishFails, LostFinishFails, CleanFails,
         EndRun, Crash, Stopped, Shutdown, rows, jobRows, files, bounds,
         coordinator
<1>29. ASSUME ForeignTarget PROVE Placed'
  BY <1>29, JobsAssumption DEF Placed, ForeignTarget
<1>30. ASSUME Clients PROVE Placed' \/ ForeignTarget
  BY <1>30 DEF Clients, XInv, IInv, TypeOK, JobsOK, BoundsOK, Placed, Linking,
         Links, Active, Starting, Present, Held, Places, Unlocked, Serving,
         Terminal, Reasons, Submit, Cancel, RequestStop, rows, jobRows, files,
         bounds, coordinator
<1>31. ASSUME NEW w \in Workers, Work(w) PROVE Placed'
  BY <1>31 DEF Work, XInv, IInv, TypeOK, JobsOK, BoundsOK, Placed, Linking,
         Links, Active, Starting, Present, Held, Places, Unlocked, Serving,
         Terminal, Reasons, Take, WorkerGoto, SendSchema, StageExport, Stage,
         SendPart, ReadOk, Complete, EndJob, Fail, Stop, Exit, rows, jobRows,
         files, bounds, coordinator
<1>32. ASSUME IdleTerminate PROVE Placed'
  BY <1>32 DEF IdleTerminate, XInv, IInv, TypeOK, JobsOK, BoundsOK, Placed,
         Linking, Links, Active, Starting, Present, Held, Places, Unlocked,
         Serving, Terminal, Reasons, TerminatePool, rows, jobRows, files,
         bounds, coordinator
<1>. QED
  BY <1>1, <1>2, <1>3, <1>4, <1>5, <1>6, <1>7, <1>8, <1>9, <1>10, <1>11, <1>12,
         <1>13, <1>14, <1>15, <1>16, <1>17, <1>18, <1>19, <1>20, <1>21, <1>22,
         <1>23, <1>24, <1>25, <1>26, <1>27, <1>28, <1>29, <1>30, <1>31, <1>32
         DEF Next, Coordinate, Running

(* The invariant of exports is kept by every step.                          *)
LEMMA NextXInv == ASSUME XInv, [Next]_vars PROVE XInv'
<1>1. CASE Next
  BY <1>1, NextIInv, LinkingKept, LinksKept, LostReportKept, ExportsDoneKept,
     PlacedKept DEF XInv
<1>2. CASE UNCHANGED vars
  <2>1. UNCHANGED <<kind, state, stop, target, sidecar, pc, cur, report,
                    faults>>
    BY <1>2 DEF vars, rows, jobRows, files, coordinator, bounds
  <2>2. IInv'
    BY <1>2, NextIInv DEF XInv
  <2>. QED
    BY <2>1, <2>2 DEF XInv, Linking, Links, LostReport, ExportsDone, Placed
<1>. QED
  BY <1>1, <1>2

(* The destination is empty before the first job.                           *)
LEMMA InitXInv == ASSUME Init PROVE XInv
  BY InitIInv, JobsAssumption DEF Init, XInv, Linking, Links, LostReport,
     ExportsDone, Placed

(* The invariant of what stands at the destination of an export.            *)
THEOREM ExportsInductive == Spec => []XInv
<1>1. Init => XInv
  BY InitXInv
<1>2. XInv /\ [Next]_vars => XInv'
  BY NextXInv
<1>. QED
  BY <1>1, <1>2, PTL DEF Spec

(* The data file of an export never stands without the sidecar that         *)
(* qualifies it, and a completed export has left both.                      *)
THEOREM ExportsPaired == Spec => []ExportPair
<1>1. XInv => ExportPair
  BY DEF XInv, Links, ExportsDone, ExportPair
<1>. QED
  BY <1>1, ExportsInductive, PTL

(* An export that was stopped leaves nothing at its destination, unless a   *)
(* call of the coordinator failed.                                          *)
THEOREM StoppedExportsLeaveNothing == Spec => []StoppedExportLeavesNothing
<1>1. XInv => StoppedExportLeavesNothing
  BY DEF XInv, Placed, Reasons, Active, StoppedExportLeavesNothing
<1>. QED
  BY <1>1, ExportsInductive, PTL

-----------------------------------------------------------------------------
(***************************************************************************)
(* The parts of a result.  A worker reports one part at a time and waits   *)
(* for the answer: a part is pending while it is in the pipe, before its   *)
(* answer, or in the answer.  What the worker counts and what the rows     *)
(* count differ by the pending part only.                                  *)
(***************************************************************************)
IsPart(message) == message.type = "part"
Flying == \E i \in 1 .. Len(outbox[pool]) : IsPart(outbox[pool][i])
Answering == pc \in {"acked", "rejected"}
Pending == Flying \/ Answering \/ "ok" \in inbox[pool]

\* The run did not complete.
Verdict == pc = "terminate" \/ (pc = "decide" /\ report # "completed")

\* The pooled worker will not go on with the job.
GivenUp ==
    \/ wpc[pool] = "dead"
    \/ Verdict
    \/ \E i \in 1 .. Len(outbox[pool]) : outbox[pool][i].type = "failed"

\* A job begins without parts, and so does a worker.
Unstarted == 
    \A j \in Jobs : state[j] \in {"absent", "queued"} =>
        count[j] = 0 /\ progress[j] = 0
Fresh == pc \in {"pool", "record", "send"}
NewJob == Fresh => count[cur] = 0
IdleOutput ==
    \A w \in Workers : wpc[w] \in {"dead", "idle"} => output[w].parts = 0

\* One part at a time, and in one place.
OneExchange ==
    pool \in Workers =>
        /\ \A i, k \in 1 .. Len(outbox[pool]) :
              IsPart(outbox[pool][i]) /\ IsPart(outbox[pool][k]) => i = k
        /\ Answering => ~Flying
        /\ "ok" \in inbox[pool] => ~Flying /\ ~Answering

\* While a part is pending its worker waits, or is not listened to any more.
Awaited == pool \in Workers /\ Pending => wpc[pool] = "await" \/ GivenUp

\* What a worker counts, in each of its places.
Early ==
    \A w \in Workers : "spec" \in inbox[w] \/ wpc[w] = "planning" =>
        output[w].parts = 0 /\ count[wjob[w]] = 0
Working ==
    \A w \in Workers : wpc[w] \in {"running", "staged"} =>
        count[wjob[w]] = output[w].parts
Waiting ==
    \A w \in Workers : wpc[w] = "await" =>
        /\ count[wjob[w]] \in {output[w].parts, output[w].parts + 1}
        /\ "ok" \in inbox[w] => count[wjob[w]] = output[w].parts + 1
        /\ w = pool => /\ Flying => count[wjob[w]] = output[w].parts
                       /\ pc = "acked" => count[wjob[w]] = output[w].parts + 1

\* A worker reports completion when nothing is pending.
CompleteReport ==
    pool \in Workers => \A i \in 1 .. Len(outbox[pool]) :
        outbox[pool][i].type = "completed" =>
            outbox[pool][i].parts = count[cur] /\ ~Pending

\* What a worker stages and sends fits the job: the parts of a preparation are
\* files, those of an analysis are not, and only these cover input.
Fits(j, part) ==
    /\ kind[j] = "prepare" => ~part.inline
    /\ kind[j] \in Analysis => part.inline
    /\ kind[j] \notin Analysis => part.progress = 0
StagedFits ==
    \A w \in Workers : wpc[w] = "staged" => Fits(wjob[w], output[w].staged)
SentFits ==
    pool \in Workers => \A i \in 1 .. Len(outbox[pool]) :
        IsPart(outbox[pool][i]) => Fits(cur, outbox[pool][i])
PreparedFiled ==
    \A j \in Jobs : kind[j] = "prepare" =>
        \A seq \in 0 .. count[j] - 1 : <<j, seq>> \in filed
Datasets ==
    \A j \in Jobs :
        j \in dataset <=> kind[j] = "prepare" /\ state[j] = "completed"

\* Revisions have covered what the rows say, at most.
Covering ==
    \A j \in Jobs :
        /\ kind[j] \notin Analysis => progress[j] = 0
        /\ \A i \in 1 .. Len(revs[j]) : revs[j][i].coverage <= progress[j]

\* An active job that is to stop was asked to.
StopAsked == \A j \in Jobs : state[j] = "stopping" => stop[j] # "none"

PInv ==
    /\ RInv
    /\ Unstarted /\ NewJob /\ IdleOutput
    /\ OneExchange /\ Awaited /\ Early /\ Working /\ Waiting /\ CompleteReport
    /\ StagedFits /\ SentFits /\ PreparedFiled /\ Datasets
    /\ Covering /\ StopAsked
-----------------------------------------------------------------------------
(***************************************************************************)
(* Steps, once more as what they change.                                   *)
(***************************************************************************)

\* A part is read from the pipe.
Taken == PublishInline \/ PublishCommit \/ PublishReject \/ PublishFails

\* The transaction that ends a job.
Ends == \E j \in Jobs, s \in Terminal : FinishRows(j, s)
CompletedSame ==
    \A j \in Jobs : state'[j] = "completed" <=> state[j] = "completed"

\* The other jobs stay as they are.
OthersSame(j) ==
    \A i \in Jobs \ {j} :
        state'[i] = state[i] /\ stop'[i] = stop[i] /\ revs'[i] = revs[i]

\* A worker is at most told to stop.
Rests(v) ==
    /\ wpc'[v] = wpc[v] /\ wjob'[v] = wjob[v] /\ output'[v] = output[v]
    /\ "spec" \in inbox'[v] <=> "spec" \in inbox[v]
    /\ "ok" \in inbox'[v] <=> "ok" \in inbox[v]

\* Or it ends.
Perishes(v) == wpc'[v] = "dead" /\ inbox'[v] = {} /\ output'[v].parts = 0

WorkerStep(v) ==
    \/ Rests(v) \/ Perishes(v) \/ Starts(v) \/ (v = pool /\ AnswerOk)
    \/ SpawnWorker(v) \/ Work(v)

(* Parts are counted, and filed, by the two publications only.               *)
LEMMA CountStays ==
    ASSUME IInv, Next
    PROVE  UNCHANGED <<count, filed, progress>> \/ PublishInline \/ PublishCommit
<1>1. ASSUME Recovery PROVE UNCHANGED <<count, filed, progress>> \/
       PublishInline \/ PublishCommit
  BY <1>1 DEF Recovery, StartCoordinator, RecoverKilled, RecoverDone,
         RecoverClean, CleanAttempt, RecoverKill, RecoverFinish, FinishRows,
         rows, resultRows
<1>2. ASSUME PublishInline
      PROVE  UNCHANGED <<count, filed, progress>> \/ PublishInline \/ PublishCommit
  BY <1>2
<1>3. ASSUME PublishCommit
      PROVE  UNCHANGED <<count, filed, progress>> \/ PublishInline \/ PublishCommit
  BY <1>3
<1>4. ASSUME Running
      PROVE  UNCHANGED <<count, filed, progress>> \/ PublishInline
       \/ PublishCommit \/ PublishInline \/ PublishCommit
  BY <1>4 DEF Running, Queued, SpawnWorker, ReuseWorker, SetWorker, SendSpec,
         BrokenPipe, HandleSchema, PublishRename, PublishReject, AnswerOk,
         AnswerCancel, HandleCompleted, HandleFailed, HandleEof, Timeout,
         RequestStop, Signal, Kill, rows, resultRows
<1>5. ASSUME Ending PROVE UNCHANGED <<count, filed, progress>> \/ PublishInline
       \/ PublishCommit
  BY <1>5 DEF Ending, Decide, Terminate, TerminatePool, Finish, FinishRows,
         LinkSidecar, SidecarExists, LinkTarget, TargetExists, FinishExport,
         Tidy, LostTerminate, LostFinish, Clean, CleanAttempt, rows, resultRows
<1>6. ASSUME Misfortune PROVE UNCHANGED <<count, filed, progress>> \/
       PublishInline \/ PublishCommit
  BY <1>6
     DEF Misfortune, RecoverGivesUp, RecoverFails, RunJobFails, PublishFails,
         FinishFails, LostFinishFails, CleanFails, Crash, Stopped, Shutdown,
         rows, resultRows
<1>7. ASSUME Clients
      PROVE  UNCHANGED <<count, filed, progress>> \/ PublishInline
       \/ PublishCommit
  BY <1>7 DEF Clients, ForeignTarget, Submit, Cancel, RequestStop, rows,
         resultRows
<1>8. ASSUME NEW w \in Workers, Work(w) PROVE UNCHANGED <<count, filed,
       progress>> \/ PublishInline \/ PublishCommit
  BY <1>8 DEF Work, Take, WorkerGoto, SendSchema, StageExport, Stage, SendPart,
         ReadOk, Complete, EndJob, Fail, Stop, Exit, rows, resultRows
<1>9. ASSUME IdleTerminate PROVE UNCHANGED <<count, filed, progress>> \/
       PublishInline \/ PublishCommit
  BY <1>9 DEF IdleTerminate, TerminatePool, rows, resultRows
<1>. QED
  BY <1>1, <1>2, <1>3, <1>4, <1>5, <1>6, <1>7, <1>8, <1>9 DEF Next, Coordinate

(* An answer is due only after a part was read.                              *)
LEMMA AnswerStays ==
    ASSUME IInv, Next
    PROVE  (Answering' => Answering /\ pc' = pc) \/ Taken
<1>1. ASSUME Recovery PROVE (Answering' => Answering /\ pc' = pc) \/ Taken
  BY <1>1
     DEF Recovery, Answering, Taken, StartCoordinator, Goto, RecoverKilled,
         RecoverDone, RecoverClean, RecoverKill, RecoverFinish, coordinator
<1>2. ASSUME PublishInline PROVE (Answering' => Answering /\ pc' = pc) \/ Taken
  BY <1>2 DEF Taken
<1>3. ASSUME PublishCommit PROVE (Answering' => Answering /\ pc' = pc) \/ Taken
  BY <1>3 DEF Taken
<1>4. ASSUME PublishReject PROVE (Answering' => Answering /\ pc' = pc) \/ Taken
  BY <1>4 DEF Taken
<1>5. ASSUME Running PROVE (Answering' => Answering /\ pc' = pc) \/ Taken \/
       PublishInline \/ PublishCommit \/ PublishReject
  BY <1>5
     DEF Running, Answering, Taken, Queued, SpawnWorker, ReuseWorker, Goto,
         SetWorker, SendSpec, BrokenPipe, Reports, HandleSchema, Received,
         PublishRename, AnswerOk, AnswerCancel, HandleCompleted, HandleFailed,
         HandleEof, Timeout, Signal, Kill, coordinator
<1>6. ASSUME Ending PROVE (Answering' => Answering /\ pc' = pc) \/ Taken
  BY <1>6 DEF Ending, Answering, Taken, Decide, Goto, Terminate, TerminatePool,
         Finish, LinkSidecar, SidecarExists, Reports, LinkTarget, TargetExists,
         FinishExport, Tidy, LostTerminate, LostFinish, Clean, EndRun,
         coordinator
<1>7. ASSUME PublishFails PROVE (Answering' => Answering /\ pc' = pc) \/ Taken
  BY <1>7 DEF Taken
<1>8. ASSUME Misfortune PROVE (Answering' => Answering /\ pc' = pc) \/ Taken \/
       PublishFails
  BY <1>8
     DEF Misfortune, Answering, Taken, RecoverGivesUp, Goto, RecoverFails,
         RunJobFails, Reports, FinishFails, LostFinishFails, CleanFails,
         EndRun, Crash, Stopped, Shutdown, coordinator
<1>9. ASSUME Clients PROVE (Answering' => Answering /\ pc' = pc) \/ Taken
  BY <1>9 DEF Clients, Answering, Taken, ForeignTarget, Submit, Cancel,
         coordinator
<1>10. ASSUME NEW w \in Workers, Work(w)
       PROVE  (Answering' => Answering /\ pc' =
       pc) \/ Taken
  BY <1>10 DEF Work, Answering, Taken, Take, WorkerGoto, SendSchema,
         StageExport, Stage, SendPart, ReadOk, Complete, EndJob, Fail, Stop,
         Exit, coordinator
<1>11. ASSUME IdleTerminate
       PROVE  (Answering' => Answering /\ pc' = pc) \/ Taken
  BY <1>11 DEF IdleTerminate, Answering, Taken, TerminatePool, coordinator
<1>. QED
  BY <1>1, <1>2, <1>3, <1>4, <1>5, <1>6, <1>7, <1>8, <1>9, <1>10, <1>11 DEF
         Next, Coordinate

(* The pooled worker keeps its job until the pipe is empty.                  *)
LEMMA CurStays ==
    ASSUME IInv, Next
    PROVE  cur' = cur \/ pc \in Quiet \/ pool' = NoWorker
<1>1. ASSUME Recovery PROVE cur' = cur \/ pc \in Quiet \/ pool' = NoWorker
  BY <1>1 DEF Recovery, IInv, Present, Starting, Quiet, StartCoordinator, Goto,
         RecoverKilled, RecoverDone, RecoverClean, RecoverKill, RecoverFinish,
         coordinator
<1>2. ASSUME Running PROVE cur' = cur \/ pc \in Quiet \/ pool' = NoWorker
  BY <1>2 DEF Running, IInv, Present, Starting, Quiet, Queued, SpawnWorker,
         ReuseWorker, Goto, SetWorker, SendSpec, Tell, BrokenPipe, Reports,
         HandleSchema, Consume, PublishInline, PublishRows, PublishRename,
         PublishCommit, PublishReject, AnswerOk, AnswerCancel, HandleCompleted,
         HandleFailed, HandleEof, Timeout, Signal, Kill, coordinator
<1>3. ASSUME Ending PROVE cur' = cur \/ pc \in Quiet \/ pool' = NoWorker
  BY <1>3 DEF Ending, IInv, Present, Starting, Quiet, Decide, Goto, Terminate,
         TerminatePool, ClosePipe, Finish, LinkSidecar, SidecarExists, Reports,
         LinkTarget, TargetExists, FinishExport, Tidy, LostTerminate,
         LostFinish, Clean, EndRun, coordinator
<1>4. ASSUME Misfortune PROVE cur' = cur \/ pc \in Quiet \/ pool' = NoWorker
  BY <1>4
     DEF Misfortune, IInv, Present, Starting, Quiet, RecoverGivesUp, Goto,
         RecoverFails, RunJobFails, Reports, PublishFails, Consume,
         FinishFails, LostFinishFails, CleanFails, EndRun, Crash, Stopped,
         ClosePipe, Shutdown, coordinator
<1>5. ASSUME Clients PROVE cur' = cur \/ pc \in Quiet \/ pool' = NoWorker
  BY <1>5 DEF Clients, IInv, Present, Starting, Quiet, ForeignTarget, Submit,
         Cancel, coordinator
<1>6. ASSUME NEW w \in Workers, Work(w) PROVE cur' = cur \/ pc \in Quiet \/
       pool' = NoWorker
  BY <1>6 DEF Work, IInv, Present, Starting, Quiet, Take, WorkerGoto,
         SendSchema, Send, StageExport, Stage, SendPart, ReadOk, Complete,
         EndJob, Fail, Stop, Exit, coordinator
<1>7. ASSUME IdleTerminate PROVE cur' = cur \/ pc \in Quiet \/ pool' = NoWorker
  BY <1>7 DEF IdleTerminate, IInv, Present, Starting, Quiet, TerminatePool,
         ClosePipe, coordinator
<1>. QED
  BY <1>1, <1>2, <1>3, <1>4, <1>5, <1>6, <1>7 DEF Next, Coordinate

(* A run that did not complete ends with its worker.                         *)
LEMMA VerdictStays ==
    ASSUME IInv, Next
    PROVE  Verdict => Verdict' \/ pool' = NoWorker
<1>1. ASSUME Recovery PROVE Verdict => Verdict' \/ pool' = NoWorker
  BY <1>1 DEF Recovery, Verdict, Reusable, Received, StartCoordinator, Goto,
         RecoverKilled, RecoverDone, RecoverClean, RecoverKill, RecoverFinish,
         coordinator
<1>2. ASSUME Running PROVE Verdict => Verdict' \/ pool' = NoWorker
  BY <1>2 DEF Running, Verdict, Reusable, Received, Queued, SpawnWorker,
         ReuseWorker, Goto, SetWorker, SendSpec, Tell, BrokenPipe, Reports,
         HandleSchema, Consume, PublishInline, PublishRename, PublishCommit,
         PublishReject, AnswerOk, AnswerCancel, HandleCompleted, HandleFailed,
         HandleEof, Timeout, Signal, Kill, coordinator
<1>3. ASSUME Ending PROVE Verdict => Verdict' \/ pool' = NoWorker
  BY <1>3 DEF Ending, Verdict, Reusable, Received, Decide, Goto, Terminate,
         TerminatePool, ClosePipe, Finish, LinkSidecar, SidecarExists, Reports,
         LinkTarget, TargetExists, FinishExport, Tidy, LostTerminate,
         LostFinish, Clean, EndRun, coordinator
<1>4. ASSUME Misfortune PROVE Verdict => Verdict' \/ pool' = NoWorker
  BY <1>4
     DEF Misfortune, Verdict, Reusable, Received, RecoverGivesUp, Goto,
         RecoverFails, RunJobFails, Reports, PublishFails, Consume,
         FinishFails, LostFinishFails, CleanFails, EndRun, Crash, Stopped,
         ClosePipe, Shutdown, coordinator
<1>5. ASSUME Clients PROVE Verdict => Verdict' \/ pool' = NoWorker
  BY <1>5 DEF Clients, Verdict, Reusable, Received, ForeignTarget, Submit,
         Cancel, coordinator
<1>6. ASSUME NEW w \in Workers, Work(w) PROVE Verdict => Verdict' \/ pool' =
       NoWorker
  BY <1>6 DEF Work, Verdict, Reusable, Received, Take, WorkerGoto, SendSchema,
         Send, StageExport, Stage, SendPart, ReadOk, Complete, EndJob, Fail,
         Stop, Exit, coordinator
<1>7. ASSUME IdleTerminate PROVE Verdict => Verdict' \/ pool' = NoWorker
  BY <1>7 DEF IdleTerminate, Verdict, Reusable, Received, TerminatePool,
         ClosePipe, coordinator
<1>. QED
  BY <1>1, <1>2, <1>3, <1>4, <1>5, <1>6, <1>7 DEF Next, Coordinate

(* Datasets appear, and jobs complete, in the transaction that ends a job.   *)
LEMMA DatasetSteps ==
    ASSUME IInv, Next
    PROVE  Ends \/ (dataset' = dataset /\ CompletedSame)
<1>1. ASSUME NEW j \in Jobs, RecoverFinish(j)
      PROVE  Ends \/ (dataset' = dataset /\ CompletedSame)
  BY <1>1 DEF RecoverFinish, Ends, Terminal
<1>2. ASSUME Recovery
      PROVE  Ends \/ (dataset' = dataset /\ CompletedSame) \/ (\E
       j \in Jobs : RecoverFinish(j))
  BY <1>2 DEF Recovery, CompletedSame, StartCoordinator, RecoverKilled,
         RecoverDone, RecoverClean, RecoverKill, rows, resultRows, jobRows
<1>3. ASSUME NEW j \in Jobs, Queued(j)
      PROVE  Ends \/ (dataset' = dataset /\ CompletedSame)
  BY <1>3 DEF Queued, IInv, TypeOK, JobsOK, CompletedSame,  resultRows
<1>4. ASSUME Timeout PROVE Ends \/ (dataset' = dataset /\ CompletedSame)
  BY <1>4
     DEF Timeout, IInv, TypeOK, JobsOK, CompletedSame, RequestStop, Active,
         Reasons, resultRows
<1>5. ASSUME Running PROVE Ends \/ (dataset' = dataset /\ CompletedSame) \/ (\E
       j \in Jobs : Queued(j)) \/ Timeout
  BY <1>5 DEF Running, CompletedSame, SpawnWorker, ReuseWorker, SetWorker,
         SendSpec, BrokenPipe, HandleSchema, PublishInline, PublishRows,
         PublishRename, PublishCommit, PublishReject, AnswerOk, AnswerCancel,
         HandleCompleted, HandleFailed, HandleEof, Signal, Kill, rows,
         resultRows, jobRows
<1>6. ASSUME Finish PROVE Ends \/ (dataset' = dataset /\ CompletedSame)
  BY <1>6 DEF Finish, Ends, IInv, Present, Held, Judged, Places
<1>7. ASSUME FinishExport PROVE Ends \/ (dataset' = dataset /\ CompletedSame)
  BY <1>7 DEF FinishExport, Ends, IInv, Present, Held, Judged, Places
<1>8. ASSUME LostFinish PROVE Ends \/ (dataset' = dataset /\ CompletedSame)
  BY <1>8 DEF LostFinish, Ends, IInv, Present, Held, Judged, Places
<1>9. ASSUME Ending PROVE Ends \/ (dataset' = dataset /\ CompletedSame) \/
       Finish \/ FinishExport \/ LostFinish
  BY <1>9 DEF Ending, CompletedSame, Decide, Terminate, TerminatePool,
         LinkSidecar, SidecarExists, LinkTarget, TargetExists, Tidy,
         LostTerminate, Clean, rows, resultRows, jobRows
<1>10. ASSUME Misfortune PROVE Ends \/ (dataset' = dataset /\ CompletedSame)
  BY <1>10 DEF Misfortune, CompletedSame, RecoverGivesUp, RecoverFails,
         RunJobFails, PublishFails, FinishFails, LostFinishFails, CleanFails,
         Crash, Stopped, Shutdown, rows, resultRows, jobRows
<1>11. ASSUME NEW j \in Jobs, Submit(j)
       PROVE  Ends \/ (dataset' = dataset /\ CompletedSame)
  BY <1>11 DEF Submit, IInv, TypeOK, JobsOK, CompletedSame,  resultRows
<1>12. ASSUME NEW j \in Jobs, Cancel(j)
       PROVE  Ends \/ (dataset' = dataset /\ CompletedSame)
  BY <1>12
     DEF Cancel, IInv, TypeOK, JobsOK, CompletedSame, RequestStop, Active,
         Reasons, resultRows
<1>13. ASSUME Clients
       PROVE  Ends \/ (dataset' = dataset /\ CompletedSame) \/ (\E
       j \in Jobs : Submit(j)) \/ (\E j \in Jobs : Cancel(j))
  BY <1>13 DEF Clients, CompletedSame, ForeignTarget, rows, resultRows, jobRows
<1>14. ASSUME NEW w \in Workers, Work(w) PROVE Ends \/ (dataset' = dataset /\
       CompletedSame)
  BY <1>14 DEF Work, CompletedSame, Take, WorkerGoto, SendSchema, StageExport,
         Stage, SendPart, ReadOk, Complete, EndJob, Fail, Stop, Exit, rows,
         resultRows, jobRows
<1>15. ASSUME IdleTerminate PROVE Ends \/ (dataset' = dataset /\ CompletedSame)
  BY <1>15 DEF IdleTerminate, CompletedSame, TerminatePool, rows, resultRows,
         jobRows
<1>. QED
  BY <1>1, <1>2, <1>3, <1>4, <1>5, <1>6, <1>7, <1>8, <1>9, <1>10, <1>11, <1>12,
         <1>13, <1>14, <1>15 DEF Next, Coordinate

(* What can happen to a worker.                                              *)
LEMMA WorkerSteps == ASSUME IInv, Next, NEW v \in Workers PROVE WorkerStep(v)
<1>1. ASSUME Recovery PROVE WorkerStep(v)
  BY <1>1 DEF Recovery, IInv, TypeOK, WorkersOK, WorkerStep, Rests, Perishes,
         NoOutput, Holding, StartCoordinator, RecoverKilled, RecoverDone,
         RecoverClean, RecoverKill, Die, RecoverFinish, workers, inside
<1>2. ASSUME NEW w \in Workers, SpawnWorker(w) PROVE WorkerStep(v)
  BY <1>2 DEF SpawnWorker, IInv, TypeOK, WorkersOK, WorkerStep, Rests
<1>3. ASSUME SendSpec PROVE WorkerStep(v)
  BY <1>3
     DEF SendSpec, Tell, IInv, TypeOK, WorkersOK, WorkerStep, Rests, Starts
<1>4. ASSUME AnswerOk PROVE WorkerStep(v)
  BY <1>4
     DEF AnswerOk, Tell, IInv, TypeOK, WorkersOK, WorkerStep, Rests, inside
<1>5. ASSUME AnswerCancel PROVE WorkerStep(v)
  BY <1>5
     DEF AnswerCancel, Tell, IInv, TypeOK, WorkersOK, WorkerStep, Rests,
         inside
<1>6. ASSUME Signal PROVE WorkerStep(v)
  <2>1. UNCHANGED <<wpc, wjob, output>> /\ (inbox' = inbox \/ Tell("term"))
    BY <1>6 DEF Signal, inside
  <2>. QED
    BY <2>1 DEF IInv, TypeOK, WorkersOK, WorkerStep, Rests, Tell
<1>7. ASSUME Running PROVE WorkerStep(v) \/ (\E w \in Workers : SpawnWorker(w))
       \/ SendSpec \/ AnswerOk \/ AnswerCancel \/ Signal
  BY <1>7
     DEF Running, IInv, TypeOK, WorkersOK, WorkerStep, Rests, Perishes,
         NoOutput, Holding, Queued, ReuseWorker, SetWorker, BrokenPipe,
         HandleSchema, PublishInline, PublishRename, PublishCommit,
         PublishReject, HandleCompleted, HandleFailed, HandleEof, Timeout,
         Kill, Die, workers, inside
<1>8. ASSUME Ending PROVE WorkerStep(v)
  BY <1>8 DEF Ending, IInv, TypeOK, WorkersOK, WorkerStep, Rests, Perishes,
         NoOutput, Holding, Decide, Terminate, TerminatePool, Die, Finish,
         LinkSidecar, SidecarExists, LinkTarget, TargetExists, FinishExport,
         Tidy, LostTerminate, LostFinish, Clean, workers, inside
<1>9. ASSUME Misfortune PROVE WorkerStep(v)
  BY <1>9 DEF Misfortune, IInv, TypeOK, WorkersOK, WorkerStep, Rests, Perishes,
         NoOutput, Holding, RecoverGivesUp, RecoverFails, RunJobFails,
         PublishFails, FinishFails, LostFinishFails, CleanFails, Crash,
         Shutdown, Die, workers, inside
<1>10. ASSUME Clients PROVE WorkerStep(v)
  BY <1>10 DEF Clients, IInv, TypeOK, WorkersOK, WorkerStep, Rests, Perishes,
         NoOutput, Holding, ForeignTarget, Submit, Cancel, workers, inside
<1>11. ASSUME NEW w \in Workers, Take(w) PROVE WorkerStep(v)
  <2>1. CASE w = v
    BY <1>11, <2>1 DEF WorkerStep, Work
  <2>2. CASE w # v
    BY <1>11, <2>2
       DEF Take, WorkerGoto, IInv, TypeOK, WorkersOK, WorkerStep, Rests
  <2>. QED
    BY <2>1, <2>2
<1>12. ASSUME NEW w \in Workers, SendSchema(w) PROVE WorkerStep(v)
  <2>1. CASE w = v
    BY <1>12, <2>1 DEF WorkerStep, Work
  <2>2. CASE w # v
    BY <1>12, <2>2
       DEF SendSchema, WorkerGoto, IInv, TypeOK, WorkersOK, WorkerStep, Rests
  <2>. QED
    BY <2>1, <2>2
<1>13. ASSUME NEW w \in Workers, StageExport(w) PROVE WorkerStep(v)
  <2>1. CASE w = v
    BY <1>13, <2>1 DEF WorkerStep, Work
  <2>2. CASE w # v
    BY <1>13, <2>2
       DEF StageExport, WorkerGoto, IInv, TypeOK, WorkersOK, WorkerStep, Rests
  <2>. QED
    BY <2>1, <2>2
<1>14. ASSUME NEW w \in Workers, Stage(w) PROVE WorkerStep(v)
  <2>1. CASE w = v
    BY <1>14, <2>1 DEF WorkerStep, Work
  <2>2. CASE w # v
    BY <1>14, <2>2
       DEF Stage, WorkerGoto, IInv, TypeOK, WorkersOK, WorkerStep, Rests
  <2>. QED
    BY <2>1, <2>2
<1>15. ASSUME NEW w \in Workers, SendPart(w) PROVE WorkerStep(v)
  <2>1. CASE w = v
    BY <1>15, <2>1 DEF WorkerStep, Work
  <2>2. CASE w # v
    BY <1>15, <2>2
       DEF SendPart, WorkerGoto, IInv, TypeOK, WorkersOK, WorkerStep, Rests
  <2>. QED
    BY <2>1, <2>2
<1>16. ASSUME NEW w \in Workers, ReadOk(w) PROVE WorkerStep(v)
  <2>1. CASE w = v
    BY <1>16, <2>1 DEF WorkerStep, Work
  <2>2. CASE w # v
    BY <1>16, <2>2
       DEF ReadOk, WorkerGoto, IInv, TypeOK, WorkersOK, WorkerStep, Rests
  <2>. QED
    BY <2>1, <2>2
<1>17. ASSUME NEW w \in Workers, Complete(w) PROVE WorkerStep(v)
  <2>1. CASE w = v
    BY <1>17, <2>1 DEF WorkerStep, Work
  <2>2. CASE w # v
    BY <1>17, <2>2
       DEF Complete, EndJob, WorkerGoto, IInv, TypeOK, WorkersOK, WorkerStep,
           Rests
  <2>. QED
    BY <2>1, <2>2
<1>18. ASSUME NEW w \in Workers, Fail(w) PROVE WorkerStep(v)
  <2>1. CASE w = v
    BY <1>18, <2>1 DEF WorkerStep, Work
  <2>2. CASE w # v
    BY <1>18, <2>2
       DEF Fail, EndJob, WorkerGoto, IInv, TypeOK, WorkersOK, WorkerStep,
           Rests
  <2>. QED
    BY <2>1, <2>2
<1>19. ASSUME NEW w \in Workers, Stop(w) PROVE WorkerStep(v)
  <2>1. CASE w = v
    BY <1>19, <2>1 DEF WorkerStep, Work
  <2>2. CASE w # v
    BY <1>19, <2>2
       DEF Stop, EndJob, WorkerGoto, IInv, TypeOK, WorkersOK, WorkerStep,
           Rests
  <2>. QED
    BY <2>1, <2>2
<1>20. ASSUME NEW w \in Workers, Exit(w) PROVE WorkerStep(v)
  <2>1. CASE w = v
    BY <1>20, <2>1 DEF WorkerStep, Work
  <2>2. CASE w # v
    BY <1>20, <2>2 DEF Exit, Die, IInv, TypeOK, WorkersOK, WorkerStep, Rests
  <2>. QED
    BY <2>1, <2>2
<1>21. ASSUME IdleTerminate PROVE WorkerStep(v)
  BY <1>21 DEF IdleTerminate, IInv, TypeOK, WorkersOK, WorkerStep, Rests,
         Perishes, NoOutput, Holding, TerminatePool, Die, workers, inside
<1>. QED
  BY <1>1, <1>2, <1>3, <1>4, <1>5, <1>6, <1>7, <1>8, <1>9, <1>10, <1>11, <1>12,
         <1>13, <1>14, <1>15, <1>16, <1>17, <1>18, <1>19, <1>20, <1>21 DEF Next,
         Coordinate, Work

(* A step changes the row of one job only.                                   *)
LEMMA OneChanges == ASSUME IInv, Next PROVE \E k : OthersSame(k)
<1>1. ASSUME NEW j \in Jobs, RecoverFinish(j) PROVE \E k : OthersSame(k)
  <2>1. OthersSame(j)
    BY <1>1
       DEF RecoverFinish, FinishRows, IInv, TypeOK, JobsOK, ResultsOK,
           OthersSame
  <2>. QED
    BY <2>1
<1>2. ASSUME Recovery PROVE \E k : OthersSame(k) \/ (\E j \in Jobs :
       RecoverFinish(j))
  BY <1>2 DEF Recovery, OthersSame, StartCoordinator, RecoverKilled,
         RecoverDone, RecoverClean, RecoverKill, rows, jobRows, resultRows
<1>3. ASSUME NEW j \in Jobs, Queued(j) PROVE \E k : OthersSame(k)
  <2>1. OthersSame(j)
    BY <1>3 DEF Queued, resultRows, IInv, TypeOK, JobsOK, ResultsOK, OthersSame
  <2>. QED
    BY <2>1
<1>4. ASSUME PublishInline PROVE \E k : OthersSame(k)
  <2>1. OthersSame(cur)
    BY <1>4
       DEF PublishInline, PublishRows, jobRows, IInv, TypeOK, JobsOK,
           ResultsOK, OthersSame
  <2>. QED
    BY <2>1
<1>5. ASSUME PublishCommit PROVE \E k : OthersSame(k)
  <2>1. OthersSame(cur)
    BY <1>5
       DEF PublishCommit, PublishRows, jobRows, IInv, TypeOK, JobsOK,
           ResultsOK, OthersSame
  <2>. QED
    BY <2>1
<1>6. ASSUME Timeout PROVE \E k : OthersSame(k)
  <2>1. OthersSame(cur)
    BY <1>6
       DEF Timeout, RequestStop, resultRows, IInv, TypeOK, JobsOK, ResultsOK,
           OthersSame
  <2>. QED
    BY <2>1
<1>7. ASSUME Running PROVE \E k : OthersSame(k) \/ (\E j \in Jobs : Queued(j))
       \/ PublishInline \/ PublishCommit \/ Timeout
  BY <1>7 DEF Running, OthersSame, SpawnWorker, ReuseWorker, SetWorker,
         SendSpec, BrokenPipe, HandleSchema, PublishRename, PublishReject,
         AnswerOk, AnswerCancel, HandleCompleted, HandleFailed, HandleEof,
         Signal, Kill, rows, jobRows, resultRows
<1>8. ASSUME Finish PROVE \E k : OthersSame(k)
  <2>1. OthersSame(cur)
    BY <1>8 DEF Finish, FinishRows, IInv, TypeOK, JobsOK, ResultsOK, OthersSame
  <2>. QED
    BY <2>1
<1>9. ASSUME FinishExport PROVE \E k : OthersSame(k)
  <2>1. OthersSame(cur)
    BY <1>9
       DEF FinishExport, FinishRows, IInv, TypeOK, JobsOK, ResultsOK,
           OthersSame
  <2>. QED
    BY <2>1
<1>10. ASSUME LostFinish PROVE \E k : OthersSame(k)
  <2>1. OthersSame(cur)
    BY <1>10
       DEF LostFinish, FinishRows, IInv, TypeOK, JobsOK, ResultsOK, OthersSame
  <2>. QED
    BY <2>1
<1>11. ASSUME Ending PROVE \E k : OthersSame(k) \/ Finish \/ FinishExport \/
       LostFinish
  BY <1>11 DEF Ending, OthersSame, Decide, Terminate, TerminatePool,
         LinkSidecar, SidecarExists, LinkTarget, TargetExists, Tidy,
         LostTerminate, Clean, rows, jobRows, resultRows
<1>12. ASSUME Misfortune PROVE \E k : OthersSame(k)
  BY <1>12 DEF Misfortune, OthersSame, RecoverGivesUp, RecoverFails,
         RunJobFails, PublishFails, FinishFails, LostFinishFails, CleanFails,
         Crash, Stopped, Shutdown, rows, jobRows, resultRows
<1>13. ASSUME NEW j \in Jobs, Submit(j) PROVE \E k : OthersSame(k)
  <2>1. OthersSame(j)
    BY <1>13
       DEF Submit, resultRows, IInv, TypeOK, JobsOK, ResultsOK, OthersSame
  <2>. QED
    BY <2>1
<1>14. ASSUME NEW j \in Jobs, Cancel(j) PROVE \E k : OthersSame(k)
  <2>1. OthersSame(j)
    BY <1>14
       DEF Cancel, RequestStop, resultRows, IInv, TypeOK, JobsOK, ResultsOK,
           OthersSame
  <2>. QED
    BY <2>1
<1>15. ASSUME Clients PROVE \E k : OthersSame(k) \/ (\E j \in Jobs : Submit(j))
       \/ (\E j \in Jobs : Cancel(j))
  BY <1>15 DEF Clients, OthersSame, ForeignTarget, rows, jobRows, resultRows
<1>16. ASSUME NEW w \in Workers, Work(w) PROVE \E k : OthersSame(k)
  BY <1>16 DEF Work, OthersSame, Take, WorkerGoto, SendSchema, StageExport,
         Stage, SendPart, ReadOk, Complete, EndJob, Fail, Stop, Exit, rows,
         jobRows, resultRows
<1>17. ASSUME IdleTerminate PROVE \E k : OthersSame(k)
  BY <1>17 DEF IdleTerminate, OthersSame, TerminatePool, rows, jobRows,
         resultRows
<1>. QED
  BY <1>1, <1>2, <1>3, <1>4, <1>5, <1>6, <1>7, <1>8, <1>9, <1>10, <1>11, <1>12,
         <1>13, <1>14, <1>15, <1>16, <1>17 DEF Next, Coordinate

-----------------------------------------------------------------------------
(* A worker that computes is listened to: what is pending, it awaits.       *)
LEMMA Listening ==
    ASSUME PInv, pool \in Workers, Executing(pool), Pending
    PROVE  wpc[pool] = "await"
<1>1. pc \in Computing
  <2>1. pc \notin {"down", "kill"}
    BY WorkersAssumption DEF PInv, RInv, IInv, Present, Starting
  <2>. QED
    BY <2>1 DEF PInv, RInv, IInv, PoolExecutes
<1>2. wpc[pool] # "dead"
  BY DEF PInv, RInv, IInv, DeadQuiet, Executing, Busy
<1>3. \A i \in 1 .. Len(outbox[pool]) : outbox[pool][i].type # "failed"
  BY DEF PInv, RInv, IInv, ReportLast, IsReport
<1>. QED
  BY <1>1, <1>2, <1>3 DEF PInv, Awaited, GivenUp, Verdict, Computing

(* The part that is read is the only one, and the pipe keeps the rest.      *)
LEMMA TakenFirst ==
    ASSUME PInv, Taken
    PROVE  /\ pool \in Workers /\ cur \in Jobs /\ state[cur] \in Active
           /\ outbox[pool] \in Seq(Message) /\ outbox[pool] # <<>>
           /\ IsPart(outbox[pool][1])
           /\ Frame = outbox[pool][1] /\ Frame \in PartMessage
           /\ Flying /\ ~Flying' /\ Answering' /\ pc \in {"loop", "renamed"}
           /\ outbox'[pool] = Tail(outbox[pool])
           /\ UNCHANGED <<pool, cur, wpc, wjob, output, inbox, kind, state, stop>>
<1>1. IInv /\ Reads
  BY DEF PInv, RInv, Taken, Reads
<1>2. /\ pool \in Workers /\ pool' = pool
      /\ outbox[pool] \in Seq(Message) /\ outbox[pool] # <<>>
      /\ outbox'[pool] = Tail(outbox[pool])
      /\ UNCHANGED <<wpc, inbox>>
  BY <1>1, ReadsShorten
<1>3. pc \in {"loop", "renamed"} /\ pc' \in {"acked", "rejected"} /\ cur' = cur
  BY DEF Taken, PublishInline, PublishCommit, PublishReject, PublishFails,
     Received, Goto
<1>4. UNCHANGED <<wjob, output, kind, state, stop>>
  BY DEF Taken, PublishInline, PublishCommit, PublishReject, PublishFails,
     PublishRows, jobRows, rows, inside
<1>5. cur \in Jobs /\ state[cur] \in Active
  BY <1>1, <1>3 DEF IInv, Present, CurActive, Held, Unfinished, Places
<1>6. Frame = outbox[pool][1]
  BY <1>2 DEF Frame
<1>7. Frame \in PartMessage
  <2>1. CASE pc = "renamed"
    BY <1>1, <2>1 DEF IInv, RenamedPart
  <2>2. CASE pc = "loop"
    <3>1. Received("part")
      BY <2>2 DEF Taken, PublishInline, PublishCommit, PublishReject,
         PublishFails
    <3>. QED
      BY <1>1, <1>2, <3>1, HeadIsPart DEF IInv, TypeOK
  <2>. QED
    BY <1>3, <2>1, <2>2
<1>8. IsPart(outbox[pool][1])
  BY <1>6, <1>7 DEF IsPart, PartMessage
<1>9. ~Flying'
  <2>1. SUFFICES ASSUME NEW i \in 1 .. Len(outbox'[pool]),
                        IsPart(outbox'[pool][i])
                 PROVE  FALSE
    BY <1>2 DEF Flying, IsPart
  <2>2. i + 1 \in 1 .. Len(outbox[pool]) /\ i + 1 # 1
        /\ outbox[pool][i + 1] = outbox'[pool][i]
    BY <1>2
  <2>3. 1 \in 1 .. Len(outbox[pool])
    BY <1>2
  <2>. QED
    BY <1>2, <1>8, <2>1, <2>2, <2>3 DEF PInv, OneExchange
<1>10. Flying
  BY <1>2, <1>8 DEF Flying
<1>. QED
  BY <1>1, <1>2, <1>3, <1>4, <1>5, <1>6, <1>7, <1>8, <1>9, <1>10 DEF Answering

(* A publication adds the part that was awaited, and nothing else computes. *)
LEMMA Published ==
    ASSUME PInv, PublishInline \/ PublishCommit
    PROVE  /\ Taken /\ pc' = "acked"
           /\ count[cur] \in Nat /\ Frame.seq = count[cur]
           /\ count' = [count EXCEPT ![cur] = count[cur] + 1]
           /\ filed' = IF Frame.inline THEN filed
                       ELSE filed \cup {<<cur, Frame.seq>>}
           /\ progress' = [progress EXCEPT ![cur] = Frame.progress]
           /\ revs' = [revs EXCEPT ![cur] = revs[cur] \o Shown(Frame)]
           /\ \A v \in Workers : Executing(v) =>
                  /\ v = pool /\ wjob[v] = cur /\ wpc[v] = "await"
                  /\ "spec" \notin inbox[v]
                  /\ count[cur] = output[v].parts
<1>1. Taken
  BY DEF Taken
<1>2. /\ pool \in Workers /\ cur \in Jobs /\ Flying
      /\ pc \in {"loop", "renamed"}
  BY <1>1, TakenFirst
<1>3. count[cur] \in Nat
  BY <1>2 DEF PInv, RInv, IInv, TypeOK, ResultsOK
<1>4. /\ pc' = "acked" /\ Frame.seq = count[cur]
      /\ count' = [count EXCEPT ![cur] = count[cur] + 1]
      /\ filed' = IF Frame.inline THEN filed
                  ELSE filed \cup {<<cur, Frame.seq>>}
      /\ progress' = [progress EXCEPT ![cur] = Frame.progress]
      /\ revs' = [revs EXCEPT ![cur] = revs[cur] \o Shown(Frame)]
  BY DEF PInv, RInv, IInv, RenamedPart, PublishInline, PublishCommit,
     PublishRows, Publishable, Goto
<1>5. ASSUME NEW v \in Workers, Executing(v)
      PROVE  /\ v = pool /\ wjob[v] = cur /\ wpc[v] = "await"
             /\ "spec" \notin inbox[v]
             /\ count[cur] = output[v].parts
  <2>1. v = pool /\ wjob[v] = cur
    BY <1>2, <1>5 DEF PInv, RInv, IInv, PoolExecutes
  <2>2. wpc[v] = "await"
    BY <1>2, <1>5, <2>1, Listening DEF Pending
  <2>3. "spec" \notin inbox[v]
    BY <2>2 DEF PInv, RInv, IInv, TookSpec, Busy, WorkerPlaces
  <2>4. count[cur] = output[v].parts
    BY <1>2, <2>1, <2>2 DEF PInv, Waiting
  <2>. QED
    BY <2>1, <2>2, <2>3, <2>4
<1>. QED
  BY <1>1, <1>3, <1>4, <1>5

-----------------------------------------------------------------------------
(* A job has no parts before it runs.                                       *)
LEMMA UnstartedKept == ASSUME PInv, Next PROVE Unstarted'
<1>. SUFFICES ASSUME NEW j \in Jobs, state'[j] \in {"absent", "queued"}
     PROVE  count'[j] = 0 /\ progress'[j] = 0
  BY DEF Unstarted
<1>1. state[j] \in {"absent", "queued"} => count[j] = 0 /\ progress[j] = 0
  BY DEF PInv, Unstarted
<1>2. state[j] \in {"absent", "queued"}
  <2>1. CASE Same(j) \/ AcceptStep(j) \/ StopStep(j) \/ BeginStep(j)
    BY <2>1 DEF Same, AcceptStep, StopStep, BeginStep, Active, Reasons
  <2>2. CASE PublishStep(j) \/ EndStep(j)
    BY <2>2 DEF PInv, RInv, IInv, TypeOK, JobsOK, PublishStep, EndStep, Active,
       Outcome, Terminal, Reasons
  <2>. QED
    BY <2>1, <2>2, JobSteps DEF PInv, RInv, JobStep
<1>3. CASE PublishInline \/ PublishCommit
  <2>1. cur \in Jobs /\ state[cur] \in Active
    BY <1>3, TakenFirst DEF Taken
  <2>2. j # cur
    BY <1>2, <2>1 DEF Active
  <2>. QED
    BY <1>1, <1>2, <1>3, <2>2, Published
       DEF PInv, RInv, IInv, TypeOK, ResultsOK
<1>4. CASE ~(PublishInline \/ PublishCommit)
  BY <1>1, <1>2, <1>4, CountStays DEF PInv, RInv
<1>. QED
  BY <1>3, <1>4

NewJobStep ==
    Fresh' => (Fresh /\ cur' = cur) \/ (\E j \in Jobs : Queued(j))

(* The scheduler comes to a new job from the queue.                          *)
LEMMA NewJobStays ==
    ASSUME IInv, Next
    PROVE  NewJobStep
<1>1. ASSUME Recovery PROVE NewJobStep
  BY <1>1 DEF Recovery, NewJobStep, Fresh, StartCoordinator, Goto, RecoverKilled,
         RecoverDone, RecoverClean, RecoverKill, RecoverFinish, coordinator
<1>2. ASSUME NEW j \in Jobs, Queued(j)
      PROVE  NewJobStep
  BY <1>2 DEF NewJobStep
<1>3. ASSUME Running PROVE NewJobStep \/ (\E j \in Jobs : Queued(j))
  BY <1>3 DEF Running, NewJobStep, Fresh, SpawnWorker, ReuseWorker, Goto, SetWorker,
         SendSpec, BrokenPipe, Reports, HandleSchema, Received, PublishInline,
         PublishRows, PublishRename, PublishCommit, PublishReject, AnswerOk,
         AnswerCancel, HandleCompleted, HandleFailed, HandleEof, Timeout,
         Signal, Kill, coordinator
<1>4. ASSUME Ending PROVE NewJobStep
  BY <1>4 DEF Ending, NewJobStep, Fresh, Decide, Goto, Terminate, TerminatePool, Finish,
         LinkSidecar, SidecarExists, Reports, LinkTarget, TargetExists,
         FinishExport, Tidy, LostTerminate, LostFinish, Clean, EndRun,
         coordinator
<1>5. ASSUME Misfortune PROVE NewJobStep
  BY <1>5 DEF Misfortune, NewJobStep, Fresh, RecoverGivesUp, Goto, RecoverFails,
         RunJobFails, Reports, PublishFails, FinishFails, LostFinishFails,
         CleanFails, EndRun, Crash, Stopped, Shutdown, coordinator
<1>6. ASSUME Clients PROVE NewJobStep
  BY <1>6 DEF Clients, NewJobStep, Fresh, ForeignTarget, Submit, Cancel, coordinator
<1>7. ASSUME NEW w \in Workers, Work(w) PROVE NewJobStep
  BY <1>7 DEF Work, NewJobStep, Fresh, Take, WorkerGoto, SendSchema, StageExport, Stage,
         SendPart, ReadOk, Complete, EndJob, Fail, Stop, Exit, coordinator
<1>8. ASSUME IdleTerminate PROVE NewJobStep
  BY <1>8 DEF IdleTerminate, NewJobStep, Fresh, TerminatePool, coordinator
<1>. QED
  BY <1>1, <1>2, <1>3, <1>4, <1>5, <1>6, <1>7, <1>8 DEF Next, Coordinate, NewJobStep

(* The current job has no parts before its worker has it.                    *)
LEMMA NewJobKept == ASSUME PInv, Next PROVE NewJob'
<1>. SUFFICES ASSUME Fresh' PROVE count'[cur'] = 0
  BY DEF NewJob, Fresh
<1>1. ASSUME NEW j \in Jobs, Queued(j) PROVE count'[cur'] = 0
  BY <1>1 DEF PInv, Unstarted, Queued, resultRows
<1>2. CASE Fresh /\ cur' = cur
  <2>1. ~(PublishInline \/ PublishCommit)
    BY <1>2, Published, TakenFirst DEF Fresh
  <2>2. count' = count
    BY <2>1, CountStays DEF PInv, RInv
  <2>. QED
    BY <1>2, <2>2 DEF PInv, NewJob, Fresh
<1>. QED
  BY <1>1, <1>2, NewJobStays DEF PInv, RInv, NewJobStep

(* A worker holds parts of its job only.                                     *)
LEMMA IdleOutputKept == ASSUME PInv, Next PROVE IdleOutput'
<1>. SUFFICES ASSUME NEW v \in Workers, wpc'[v] \in {"dead", "idle"}
              PROVE  output'[v].parts = 0
  BY DEF IdleOutput
<1>1. wpc[v] \in {"dead", "idle"} => output[v].parts = 0
  BY DEF PInv, IdleOutput
<1>2. CASE Rests(v) \/ Perishes(v)
  BY <1>1, <1>2 DEF Rests, Perishes
<1>3. CASE Starts(v) \/ SpawnWorker(v) \/ AnswerOk
  <2>1. wpc[v] \in {"dead", "idle"} /\ output' = output
    BY <1>3 DEF Starts, SendSpec, SpawnWorker, AnswerOk, Alive, inside, PInv,
       RInv, IInv, TypeOK, WorkersOK
  <2>. QED
    BY <1>1, <2>1
<1>4. CASE Work(v)
  <2>1. ASSUME Complete(v) \/ Fail(v) \/ Stop(v) PROVE output'[v].parts = 0
    BY <2>1 DEF Complete, Fail, Stop, EndJob, NoOutput, Holding, PInv, RInv,
       IInv, TypeOK, WorkersOK
  <2>2. ASSUME Exit(v) PROVE output'[v].parts = 0
    BY <2>2 DEF Exit, Die, NoOutput, Holding
  <2>3. ASSUME Take(v) \/ SendSchema(v) \/ StageExport(v) \/ Stage(v)
               \/ SendPart(v) \/ ReadOk(v)
        PROVE  wpc'[v] \notin {"dead", "idle"}
    BY <2>3 DEF Take, SendSchema, StageExport, Stage, SendPart, ReadOk,
       WorkerGoto, PInv, RInv, IInv, TypeOK, WorkersOK
  <2>. QED
    BY <1>4, <2>1, <2>2, <2>3 DEF Work
<1>. QED
  BY <1>2, <1>3, <1>4, WorkerSteps DEF PInv, RInv, WorkerStep

-----------------------------------------------------------------------------
(* While the pipe stays as it is, an exchange goes on as it was.             *)
LEMMA PipeKept ==
    ASSUME PInv, Next, pool \in Workers, UNCHANGED <<outbox, pool>>
    PROVE  /\ ~Taken /\ UNCHANGED <<count, filed>>
           /\ Flying' <=> Flying
           /\ Answering' => Answering /\ pc' = pc
           /\ "ok" \in inbox'[pool] => "ok" \in inbox[pool] \/ AnswerOk
           /\ cur' = cur \/ outbox[pool] = <<>>
<1>1. ~Taken
  <2>1. Flying' <=> Flying
    BY DEF Flying
  <2>. QED
    BY <2>1, TakenFirst
<1>2. UNCHANGED <<count, filed>>
  BY <1>1, CountStays DEF PInv, RInv, Taken
<1>3. Flying' <=> Flying
  BY DEF Flying
<1>4. Answering' => Answering /\ pc' = pc
  BY <1>1, AnswerStays DEF PInv, RInv
<1>5. "ok" \in inbox'[pool] => "ok" \in inbox[pool] \/ AnswerOk
  <2>1. CASE Rests(pool) \/ Perishes(pool) \/ AnswerOk
    BY <2>1 DEF Rests, Perishes
  <2>2. CASE Starts(pool)
    BY <2>2 DEF Starts, SendSpec, Tell, PInv, RInv, IInv, TypeOK, WorkersOK
  <2>3. CASE Work(pool)
    BY <2>3 DEF Work, Take, SendSchema, StageExport, Stage, SendPart, ReadOk,
       Complete, Fail, Stop, Exit, Die, PInv, RInv, IInv, TypeOK, WorkersOK
  <2>4. CASE SpawnWorker(pool)
    BY <2>4 DEF SpawnWorker
  <2>. QED
    BY <2>1, <2>2, <2>3, <2>4, WorkerSteps DEF PInv, RInv, WorkerStep
<1>6. cur' = cur \/ outbox[pool] = <<>>
  BY CurStays, WorkersAssumption DEF PInv, RInv, IInv, QuietPipe
<1>. QED
  BY <1>1, <1>2, <1>3, <1>4, <1>5, <1>6

(* A new worker finds everything empty.                                      *)
LEMMA Spawned ==
    ASSUME PInv, NEW v \in Workers, SpawnWorker(v)
    PROVE  /\ pool' = v /\ pc' = "record" /\ cur' = cur
           /\ outbox'[v] = <<>> /\ inbox'[v] = {} /\ ~Pending'
<1>1. /\ pool' = v /\ pc' = "record" /\ cur' = cur
      /\ outbox'[v] = <<>> /\ inbox'[v] = {}
  BY DEF SpawnWorker, Alive, PInv, RInv, IInv, TypeOK, WorkersOK, DeadQuiet
<1>. QED
  BY <1>1 DEF Pending, Flying, Answering

(* What a worker writes: a part it had staged, a report, or the schema.      *)
LEMMA Written ==
    ASSUME PInv, Next, NEW v \in Workers, Writes(v)
    PROVE  /\ v = pool /\ Executing(v) /\ wjob[v] = cur /\ outbox[v] \in Seq(Message)
           /\ pool' = pool /\ pc' = pc /\ cur' = cur /\ report' = report
           /\ UNCHANGED <<count, filed, kind, state>>
           /\ inbox'[v] \subseteq inbox[v]
           /\ \A i \in 1 .. Len(outbox[v]) : ~IsReport(outbox[v][i])
           /\ \E m : /\ outbox'[v] = Append(outbox[v], m)
                     /\ IsPart(m) => SendPart(v) /\ m = output[v].staged
                     /\ m.type = "completed" =>
                           Complete(v) /\ m.parts = output[v].parts
                     /\ Fail(v) \/ Stop(v) => m.type = "failed"
<1>. outbox[v] \in Seq(Message)
  BY DEF PInv, RInv, IInv, TypeOK, WorkersOK
<1>1. /\ v = pool /\ wpc[v] \in Busy
      /\ UNCHANGED <<rows, store, coordinator>>
  BY WritesExtend DEF PInv, RInv
<1>2. Executing(v)
  BY <1>1 DEF Executing
<1>3. wjob[v] = cur
  <2>1. pc \notin {"down", "kill"}
    BY <1>1, WorkersAssumption DEF PInv, RInv, IInv, Present, Starting
  <2>. QED
    BY <1>2, <2>1 DEF PInv, RInv, IInv, PoolExecutes
<1>4. \A i \in 1 .. Len(outbox[v]) : ~IsReport(outbox[v][i])
  BY <1>1, <1>2 DEF PInv, RInv, IInv, ReportLast
<1>5. inbox'[v] \subseteq inbox[v]
  BY DEF Writes, SendSchema, SendPart, Complete, Fail, Stop, PInv, RInv, IInv,
     TypeOK, WorkersOK
<1>6. \E m : /\ outbox'[v] = Append(outbox[v], m)
             /\ IsPart(m) => SendPart(v) /\ m = output[v].staged
             /\ m.type = "completed" => Complete(v) /\ m.parts = output[v].parts
             /\ Fail(v) \/ Stop(v) => m.type = "failed"
  <2>1. ASSUME SendSchema(v)
        PROVE  outbox'[v] = Append(outbox[v], [type |-> "schema"])
    BY <2>1 DEF SendSchema, Send, PInv, RInv, IInv, TypeOK, WorkersOK
  <2>2. ASSUME SendPart(v)
        PROVE  /\ outbox'[v] = Append(outbox[v], output[v].staged)
               /\ output[v].staged \in PartMessage
    BY <2>2 DEF SendPart, Send, PInv, RInv, IInv, TypeOK, WorkersOK, StagedPart
  <2>3. ASSUME Complete(v)
        PROVE  outbox'[v] = Append(outbox[v],
                   [type |-> "completed", parts |-> output[v].parts])
    BY <2>3 DEF Complete, Send, PInv, RInv, IInv, TypeOK, WorkersOK
  <2>4. ASSUME Fail(v) \/ Stop(v)
        PROVE  \E code \in Codes : outbox'[v] = Append(outbox[v],
                   [type |-> "failed", code |-> code])
    BY <2>4 DEF Fail, Stop, Send, Codes, PInv, RInv, IInv, TypeOK, WorkersOK
  <2>5. ASSUME SendSchema(v) \/ SendPart(v) \/ Complete(v)
        PROVE  ~(Fail(v) \/ Stop(v))
    <3>1. wpc'[v] # "idle"  \/ Complete(v)
      BY <2>5 DEF SendSchema, SendPart, WorkerGoto, PInv, RInv, IInv, TypeOK,
         WorkersOK
    <3>2. Fail(v) \/ Stop(v) => wpc'[v] = "idle"
      BY DEF Fail, Stop, EndJob, WorkerGoto, PInv, RInv, IInv, TypeOK,
         WorkersOK
    <3>3. Complete(v) => ~(Fail(v) \/ Stop(v))
      <4>1. SUFFICES ASSUME Complete(v), Fail(v) \/ Stop(v) PROVE FALSE
        OBVIOUS
      <4>2. PICK code \in Codes : outbox'[v] = Append(outbox[v],
                   [type |-> "failed", code |-> code])
        BY <4>1, <2>4
      <4>3. outbox'[v][Len(outbox[v]) + 1].type = "failed"
        BY <4>2
      <4>4. outbox'[v][Len(outbox[v]) + 1].type = "completed"
        BY <4>1, <2>3
      <4>. QED
        BY <4>3, <4>4
    <3>. QED
      BY <3>1, <3>2, <3>3
  <2>6. CASE SendSchema(v)
    <3>. WITNESS [type |-> "schema"]
    <3>. QED
      BY <2>1, <2>5, <2>6 DEF IsPart
  <2>7. CASE SendPart(v)
    <3>. WITNESS output[v].staged
    <3>. QED
      BY <2>2, <2>5, <2>7 DEF IsPart, PartMessage
  <2>8. CASE Complete(v)
    <3>. WITNESS [type |-> "completed", parts |-> output[v].parts]
    <3>. QED
      BY <2>3, <2>5, <2>8 DEF IsPart
  <2>9. CASE Fail(v) \/ Stop(v)
    <3>1. PICK code \in Codes : outbox'[v] = Append(outbox[v],
                   [type |-> "failed", code |-> code])
      BY <2>4, <2>9
    <3>. WITNESS [type |-> "failed", code |-> code]
    <3>. QED
      BY <3>1 DEF IsPart
  <2>. QED
    BY <2>6, <2>7, <2>8, <2>9 DEF Writes
<1>. QED
  BY <1>1, <1>2, <1>3, <1>4, <1>5, <1>6
     DEF rows, jobRows, resultRows, coordinator

(* There is one part at a time, in one place.                                *)
LEMMA OneExchangeKept == ASSUME PInv, Next PROVE OneExchange'
<1>. SUFFICES ASSUME pool' \in Workers
     PROVE  /\ \A i, k \in 1 .. Len(outbox'[pool']) :
                  IsPart(outbox'[pool'][i]) /\ IsPart(outbox'[pool'][k]) => i = k
            /\ Answering' => ~Flying'
            /\ "ok" \in inbox'[pool'] => ~Flying' /\ ~Answering'
  BY DEF OneExchange, IsPart
<1>1. ASSUME NEW v \in Workers, SpawnWorker(v)
      PROVE  /\ Len(outbox'[pool']) = 0 /\ ~Flying' /\ ~Answering'
             /\ "ok" \notin inbox'[pool']
  BY <1>1, Spawned DEF Pending
<1>2. CASE UNCHANGED <<outbox, pool>>
  <2>1. AnswerOk => Answering /\ ~Answering'
    BY DEF AnswerOk, Goto, Answering
  <2>. QED
    BY <1>2, <2>1, PipeKept DEF PInv, OneExchange
<1>3. CASE Taken
  <2>1. ~Flying' /\ Flying /\ Answering' /\ pool' = pool /\ inbox' = inbox
    BY <1>3, TakenFirst
  <2>2. "ok" \notin inbox'[pool']
    BY <2>1 DEF PInv, OneExchange
  <2>. QED
    BY <2>1, <2>2 DEF Flying, IsPart
<1>4. CASE Reads /\ ~Taken
  <2>1. /\ pool \in Workers /\ pool' = pool
        /\ outbox[pool] \in Seq(Message) /\ outbox[pool] # <<>>
        /\ outbox'[pool] = Tail(outbox[pool])
        /\ inbox' = inbox
    BY <1>4, ReadsShorten DEF PInv, RInv
  <2>2. \A i \in 1 .. Len(outbox'[pool']) :
            /\ i + 1 \in 1 .. Len(outbox[pool])
            /\ outbox'[pool'][i] = outbox[pool][i + 1]
    BY <2>1
  <2>3. Flying' => Flying
    BY <2>1, <2>2 DEF Flying, IsPart
  <2>4. ~Answering'
    BY <1>4 DEF Reads, Taken, HandleSchema, HandleCompleted, HandleFailed,
       Received, Reports, coordinator, Answering
  <2>5. \A i, k \in 1 .. Len(outbox[pool]) :
            IsPart(outbox[pool][i]) /\ IsPart(outbox[pool][k]) => i = k
    BY <2>1 DEF PInv, OneExchange
  <2>6. \A i, k \in 1 .. Len(outbox'[pool']) :
            IsPart(outbox'[pool'][i]) /\ IsPart(outbox'[pool'][k]) => i = k
    <3>. SUFFICES ASSUME NEW i \in 1 .. Len(outbox'[pool']),
                         NEW k \in 1 .. Len(outbox'[pool']),
                         IsPart(outbox'[pool'][i]), IsPart(outbox'[pool'][k])
                  PROVE  i = k
      OBVIOUS
    <3>1. i + 1 = k + 1
      BY <2>2, <2>5
    <3>. QED
      BY <3>1
  <2>. QED
    BY <2>1, <2>3, <2>4, <2>6 DEF PInv, OneExchange
<1>5. ASSUME NEW v \in Workers, Writes(v)
      PROVE  /\ \A i, k \in 1 .. Len(outbox'[pool']) :
                   IsPart(outbox'[pool'][i]) /\ IsPart(outbox'[pool'][k])
                   => i = k
             /\ Answering' => ~Flying'
             /\ "ok" \in inbox'[pool'] => ~Flying' /\ ~Answering'
  <2>1. /\ v = pool /\ Executing(v) /\ outbox[v] \in Seq(Message)
        /\ pool' = pool /\ pc' = pc
        /\ inbox'[v] \subseteq inbox[v]
    BY <1>5, Written
  <2>2. PICK m : /\ outbox'[v] = Append(outbox[v], m)
                 /\ IsPart(m) => SendPart(v) /\ m = output[v].staged
    BY <1>5, Written
  <2>3. IsPart(m) => ~Pending
    <3>1. SendPart(v) => wpc[v] = "staged"
      BY DEF SendPart
    <3>. QED
      BY <2>1, <2>2, <3>1, Listening
  <2>4. Answering' <=> Answering
    BY <2>1 DEF Answering
  <2>5. Flying' => Flying \/ IsPart(m)
    BY <2>1, <2>2 DEF Flying, IsPart
  <2>6. \A i, k \in 1 .. Len(outbox'[pool']) :
             IsPart(outbox'[pool'][i]) /\ IsPart(outbox'[pool'][k]) => i = k
    <3>1. CASE IsPart(m)
      <4>1. \A i \in 1 .. Len(outbox[pool]) : ~IsPart(outbox[pool][i])
        BY <2>3, <3>1 DEF Pending, Flying
      <4>. QED
        BY <2>1, <2>2, <4>1
    <3>2. CASE ~IsPart(m)
      <4>1. \A i, k \in 1 .. Len(outbox[pool]) :
             IsPart(outbox[pool][i]) /\ IsPart(outbox[pool][k]) => i = k
        BY <2>1 DEF PInv, OneExchange
      <4>2. \A i \in 1 .. Len(outbox'[pool']) : IsPart(outbox'[pool'][i]) =>
                i \in 1 .. Len(outbox[pool]) /\ IsPart(outbox[pool][i])
        BY <2>1, <2>2, <3>2
      <4>. QED
        BY <4>1, <4>2
    <3>. QED
      BY <3>1, <3>2
  <2>. QED
    BY <2>1, <2>3, <2>4, <2>5, <2>6 DEF PInv, OneExchange, Pending
<1>. QED
  BY <1>1, <1>2, <1>3, <1>4, <1>5, PipeStays, WorkersAssumption
     DEF PInv, RInv, PipeUsed

(* While a part is pending its worker waits for the answer.                  *)
LEMMA AwaitedKept == ASSUME PInv, Next PROVE Awaited'
<1>. SUFFICES ASSUME pool' \in Workers, Pending'
              PROVE  wpc'[pool'] = "await" \/ GivenUp'
  BY DEF Awaited
<1>1. ASSUME NEW v \in Workers, SpawnWorker(v) PROVE FALSE
  BY <1>1, Spawned
<1>2. CASE UNCHANGED <<outbox, pool>>
  <2>1. /\ Flying' <=> Flying
        /\ Answering' => Answering
        /\ "ok" \in inbox'[pool] => "ok" \in inbox[pool] \/ AnswerOk
    BY <1>2, PipeKept
  <2>2. Pending
    BY <1>2, <2>1 DEF Pending, AnswerOk, Answering
  <2>3. CASE wpc[pool] = "await"
    <3>1. CASE Rests(pool) \/ AnswerOk
      <4>1. wpc'[pool] = wpc[pool]
        BY <3>1 DEF Rests, AnswerOk, inside
      <4>. QED
        BY <1>2, <2>3, <4>1
    <3>2. CASE Perishes(pool)
      BY <1>2, <3>2 DEF Perishes, GivenUp
    <3>3. ~Starts(pool)
      BY <1>2, <2>3
         DEF Starts, SendSpec, PInv, RInv, IInv, PoolExecutes, Executing,
             Busy, WorkerPlaces, Computing
    <3>4. CASE Work(pool)
      <4>1. CASE Exit(pool)
        BY <1>2, <4>1 DEF Exit, Die, GivenUp
      <4>2. ~ReadOk(pool)
        <5>1. SUFFICES ASSUME ReadOk(pool) PROVE FALSE
          OBVIOUS
        <5>2. ~Flying /\ ~Answering
          BY <1>2, <5>1 DEF ReadOk, PInv, OneExchange
        <5>3. "ok" \notin inbox'[pool]
          BY <1>2, <5>1 DEF ReadOk, PInv, RInv, IInv, TypeOK, WorkersOK
        <5>. QED
          BY <1>2, <2>1, <5>2, <5>3 DEF Pending
      <4>3. \A w \in Workers : ~Writes(w)
        <5>1. SUFFICES ASSUME NEW w \in Workers, Writes(w) PROVE FALSE
          OBVIOUS
        <5>2. w = pool /\ outbox[w] \in Seq(Message)
              /\ \E m : outbox'[w] = Append(outbox[w], m)
          BY <5>1, Written
        <5>. QED
          BY <1>2, <5>2
      <4>4. ~(Take(pool) \/ StageExport(pool) \/ Stage(pool))
        BY <2>3 DEF Take, StageExport, Stage
      <4>. QED
        BY <1>2, <3>4, <4>1, <4>2, <4>3, <4>4 DEF Work, Writes
    <3>. QED
      BY <1>1, <1>2, <3>1, <3>2, <3>3, <3>4, WorkerSteps
         DEF PInv, RInv, WorkerStep
  <2>4. CASE wpc[pool] = "dead"
    <3>1. wpc'[pool] = "dead"
      <4>1. CASE Rests(pool) \/ Perishes(pool) \/ AnswerOk
        BY <2>4, <4>1 DEF Rests, Perishes, AnswerOk, inside
      <4>2. ~Starts(pool)
        BY <2>4 DEF Starts, SendSpec, Alive
      <4>3. ~Work(pool)
        BY <2>4
           DEF Work, Take, SendSchema, StageExport, Stage, SendPart, ReadOk,
               Complete, Fail, Stop, Exit, Interruptible, Busy, WorkerPlaces
      <4>. QED
        BY <1>1, <1>2, <4>1, <4>2, <4>3, WorkerSteps DEF PInv, RInv, WorkerStep
    <3>. QED
      BY <1>2, <3>1 DEF GivenUp
  <2>5. CASE Verdict
    BY <1>2, <2>5, VerdictStays, WorkersAssumption DEF PInv, RInv, GivenUp
  <2>6. CASE \E i \in 1 .. Len(outbox[pool]) : outbox[pool][i].type = "failed"
    BY <1>2, <2>6 DEF GivenUp
  <2>. QED
    BY <1>2, <2>2, <2>3, <2>4, <2>5, <2>6 DEF PInv, Awaited, GivenUp
<1>3. CASE Reads
  <2>1. /\ pool \in Workers /\ pool' = pool
        /\ outbox[pool] \in Seq(Message) /\ outbox[pool] # <<>>
        /\ outbox'[pool] = Tail(outbox[pool])
        /\ UNCHANGED <<wpc, inbox>>
    BY <1>3, ReadsShorten DEF PInv, RInv
  <2>2. \A i \in 1 .. Len(outbox'[pool']) :
            /\ i + 1 \in 1 .. Len(outbox[pool])
            /\ outbox'[pool'][i] = outbox[pool][i + 1]
    BY <2>1
  <2>3. Flying' => Flying
    BY <2>1, <2>2 DEF Flying, IsPart
  <2>4. CASE HandleFailed
    BY <2>4 DEF HandleFailed, Reports, StateOfCode, GivenUp, Verdict
  <2>5. ~HandleCompleted
    <3>1. SUFFICES ASSUME HandleCompleted PROVE FALSE
      OBVIOUS
    <3>2. outbox[pool][1].type = "completed" /\ 1 \in 1 .. Len(outbox[pool])
      BY <2>1, <3>1 DEF HandleCompleted, Received
    <3>3. ~Pending
      BY <2>1, <3>2 DEF PInv, CompleteReport
    <3>4. ~Answering'
      BY <3>1 DEF HandleCompleted, Reports, Answering
    <3>. QED
      BY <2>1, <2>3, <3>3, <3>4 DEF Pending
  <2>6. CASE HandleSchema \/ Taken
    <3>1. Pending
      <4>1. CASE Taken
        BY <4>1, TakenFirst DEF Pending
      <4>2. CASE HandleSchema
        BY <2>1, <2>3, <4>2 DEF HandleSchema, Received, coordinator, Pending,
           Answering
      <4>. QED
        BY <2>6, <4>1, <4>2
    <3>2. pc \in {"loop", "renamed"}
      BY <2>6, TakenFirst DEF HandleSchema, Received
    <3>3. outbox[pool][1].type # "failed"
      BY <2>1, <2>6, TakenFirst DEF HandleSchema, Received, IsPart
    <3>4. ASSUME NEW i \in 1 .. Len(outbox[pool]),
                 outbox[pool][i].type = "failed"
          PROVE  GivenUp'
      <4>1. i - 1 \in 1 .. Len(outbox'[pool'])
        BY <2>1, <3>3, <3>4
      <4>2. outbox'[pool'][i - 1].type = "failed"
        BY <2>2, <3>4, <4>1
      <4>. QED
        BY <4>1, <4>2 DEF GivenUp
    <3>5. wpc[pool] = "dead" => GivenUp'
      BY <2>1 DEF GivenUp
    <3>. QED
      BY <2>1, <3>1, <3>2, <3>4, <3>5 DEF PInv, Awaited, GivenUp, Verdict
  <2>. QED
    BY <1>3, <2>4, <2>5, <2>6 DEF Reads, Taken
<1>4. ASSUME NEW v \in Workers, Writes(v)
      PROVE  wpc'[pool'] = "await" \/ GivenUp'
  <2>1. /\ v = pool /\ Executing(v) /\ outbox[v] \in Seq(Message)
        /\ pool' = pool /\ pc' = pc
        /\ inbox'[v] \subseteq inbox[v]
    BY <1>4, Written
  <2>2. PICK m : /\ outbox'[v] = Append(outbox[v], m)
                 /\ IsPart(m) => SendPart(v)
                 /\ Fail(v) \/ Stop(v) => m.type = "failed"
    BY <1>4, Written
  <2>3. CASE SendPart(v)
    BY <2>1, <2>3 DEF SendPart, WorkerGoto, PInv, RInv, IInv, TypeOK, WorkersOK
  <2>4. CASE Fail(v) \/ Stop(v)
    <3>1. Len(outbox[v]) + 1 \in 1 .. Len(outbox'[pool'])
          /\ outbox'[pool'][Len(outbox[v]) + 1].type = "failed"
      BY <2>1, <2>2, <2>4
    <3>. QED
      BY <3>1 DEF GivenUp
  <2>5. CASE SendSchema(v) \/ Complete(v)
    <3>1. ~Pending
      BY <2>1, <2>5, Listening DEF SendSchema, Complete
    <3>2. ~SendPart(v)
      BY <2>5 DEF SendPart, SendSchema, Complete
    <3>3. Flying' => Flying
      BY <2>1, <2>2, <3>2 DEF Flying, IsPart
    <3>. QED
      BY <2>1, <3>1, <3>3 DEF Pending, Answering
  <2>. QED
    BY <1>4, <2>3, <2>4, <2>5 DEF Writes
<1>. QED
  BY <1>1, <1>2, <1>3, <1>4, PipeStays, WorkersAssumption DEF PInv, RInv,
     PipeUsed

-----------------------------------------------------------------------------
(* Until it awaits an answer, the rows of a worker's job gain no part.       *)
LEMMA RowsWait ==
    ASSUME PInv, Next, NEW v \in Workers, Executing(v), wpc[v] # "await"
    PROVE  count' = count
<1>1. ~(PublishInline \/ PublishCommit)
  BY Published
<1>. QED
  BY <1>1, CountStays DEF PInv, RInv

(* What a worker does by itself leaves the rows alone.                       *)
LEMMA WorkKeepsRows ==
    ASSUME PInv, NEW v \in Workers, Work(v)
    PROVE  UNCHANGED <<count, filed, kind, state, pc, cur, pool>>
  BY DEF Work, Take, SendSchema, StageExport, Stage, SendPart, ReadOk,
     Complete, Fail, Stop, Exit, EndJob, WorkerGoto, rows, jobRows,
     resultRows, coordinator

(* A worker begins with nothing, for a job that has nothing.                 *)
LEMMA EarlyKept == ASSUME PInv, Next PROVE Early'
<1>. SUFFICES ASSUME NEW v \in Workers,
                     "spec" \in inbox'[v] \/ wpc'[v] = "planning"
              PROVE  output'[v].parts = 0 /\ count'[wjob'[v]] = 0
  BY DEF Early
<1>. wpc \in [Workers -> WorkerPlaces] /\ inbox \in [Workers -> SUBSET Lines]
     /\ output \in [Workers -> Outputs] /\ wjob \in [Workers -> Jobs \cup {NoJob}]
  BY DEF PInv, RInv, IInv, TypeOK, WorkersOK
<1>1. "spec" \in inbox[v] \/ wpc[v] = "planning" =>
          /\ output[v].parts = 0 /\ count[wjob[v]] = 0
          /\ Executing(v) /\ wpc[v] # "await"
  BY DEF PInv, RInv, IInv, Early, TookSpec, Executing, Busy, WorkerPlaces
<1>2. CASE Rests(v)
  BY <1>1, <1>2, RowsWait DEF Rests
<1>3. CASE Perishes(v)
  BY <1>3 DEF Perishes
<1>4. CASE Starts(v)
  <2>1. pc = "send" /\ wpc[v] # "dead"
    BY <1>4 DEF Starts, SendSpec, Alive
  <2>2. wpc[v] = "idle"
    BY <2>1 DEF PInv, RInv, IInv, PoolExecutes, Executing, Computing, Busy,
       WorkerPlaces
  <2>3. output[v].parts = 0 /\ count[cur] = 0
    BY <2>1, <2>2 DEF PInv, IdleOutput, NewJob, Fresh
  <2>4. output' = output /\ wjob'[v] = cur /\ count' = count
    BY <1>4 DEF Starts, SendSpec, rows, resultRows
  <2>. QED
    BY <2>3, <2>4
<1>5. CASE v = pool /\ AnswerOk
  <2>1. "spec" \in inbox'[v] <=> "spec" \in inbox[v]
    BY <1>5 DEF AnswerOk, Tell
  <2>2. UNCHANGED <<wpc, wjob, output, count>>
    BY <1>5 DEF AnswerOk, inside, rows, resultRows
  <2>. QED
    BY <1>1, <2>1, <2>2
<1>6. CASE SpawnWorker(v)
  BY <1>6, Spawned DEF SpawnWorker
<1>7. CASE Work(v)
  <2>1. count' = count
    BY <1>7, WorkKeepsRows
  <2>2. CASE Take(v)
    BY <1>1, <2>1, <2>2 DEF Take, WorkerGoto
  <2>3. CASE Exit(v)
    BY <2>3 DEF Exit, Die
  <2>4. CASE SendSchema(v) \/ StageExport(v) \/ Stage(v) \/ SendPart(v)
             \/ ReadOk(v) \/ Complete(v) \/ Fail(v) \/ Stop(v)
    <3>1. wpc[v] \in Busy
      BY <2>4 DEF SendSchema, StageExport, Stage, SendPart, ReadOk, Complete,
         Fail, Stop, Interruptible, Busy, WorkerPlaces
    <3>2. "spec" \notin inbox'[v]
      BY <2>4, <3>1 DEF SendSchema, StageExport, Stage, SendPart, ReadOk,
         Complete, Fail, Stop, PInv, RInv, IInv, TookSpec
    <3>3. wpc'[v] # "planning"
      BY <2>4 DEF SendSchema, StageExport, Stage, SendPart, ReadOk, Complete,
         Fail, Stop, EndJob, WorkerGoto
    <3>. QED
      BY <3>2, <3>3
  <2>. QED
    BY <1>7, <2>2, <2>3, <2>4 DEF Work
<1>. QED
  BY <1>2, <1>3, <1>4, <1>5, <1>6, <1>7, WorkerSteps DEF PInv, RInv, WorkerStep

(* Between two parts a worker counts what the rows count.                    *)
LEMMA WorkingKept == ASSUME PInv, Next PROVE Working'
<1>. SUFFICES ASSUME NEW v \in Workers, wpc'[v] \in {"running", "staged"}
              PROVE  count'[wjob'[v]] = output'[v].parts
  BY DEF Working
<1>. wpc \in [Workers -> WorkerPlaces] /\ inbox \in [Workers -> SUBSET Lines]
     /\ output \in [Workers -> Outputs] /\ wjob \in [Workers -> Jobs \cup {NoJob}]
  BY DEF PInv, RInv, IInv, TypeOK, WorkersOK
<1>1. wpc[v] \in {"running", "staged"} =>
          /\ count[wjob[v]] = output[v].parts
          /\ Executing(v) /\ wpc[v] # "await"
  BY DEF PInv, Working, Executing, Busy, WorkerPlaces
<1>2. CASE Rests(v)
  BY <1>1, <1>2, RowsWait DEF Rests
<1>3. CASE Perishes(v)
  BY <1>3 DEF Perishes
<1>4. CASE Starts(v)
  <2>1. pc = "send" /\ wpc'[v] = wpc[v]
    BY <1>4 DEF Starts, SendSpec
  <2>. QED
    BY <1>1, <2>1 DEF PInv, RInv, IInv, PoolExecutes, Computing
<1>5. CASE v = pool /\ AnswerOk
  BY <1>1, <1>5 DEF AnswerOk, inside, rows, resultRows
<1>6. CASE SpawnWorker(v)
  BY <1>6 DEF SpawnWorker
<1>7. CASE Work(v)
  <2>1. count' = count
    BY <1>7, WorkKeepsRows
  <2>2. CASE SendSchema(v) \/ StageExport(v)
    <3>1. wpc[v] = "planning" /\ UNCHANGED <<wjob, output>>
      BY <2>2 DEF SendSchema, StageExport
    <3>. QED
      BY <2>1, <3>1 DEF PInv, Early
  <2>3. CASE Stage(v)
    BY <1>1, <2>1, <2>3 DEF Stage, Holding
  <2>4. CASE ReadOk(v)
    <3>1. count[wjob[v]] = output[v].parts + 1
      BY <2>4 DEF ReadOk, PInv, Waiting
    <3>. QED
      BY <2>1, <2>4, <3>1 DEF ReadOk, Holding
  <2>5. CASE Take(v) \/ SendPart(v) \/ Complete(v) \/ Fail(v) \/ Stop(v)
             \/ Exit(v)
    <3>1. wpc'[v] \notin {"running", "staged"}
      BY <2>5
         DEF Take, SendPart, Complete, Fail, Stop, Exit, EndJob, WorkerGoto,
             Die
    <3>. QED
      BY <3>1
  <2>. QED
    BY <1>7, <2>2, <2>3, <2>4, <2>5 DEF Work
<1>. QED
  BY <1>2, <1>3, <1>4, <1>5, <1>6, <1>7, WorkerSteps DEF PInv, RInv, WorkerStep

(* While it awaits an answer, the rows may be one part ahead.                *)
LEMMA WaitingKept == ASSUME PInv, Next PROVE Waiting'
<1>. SUFFICES ASSUME NEW v \in Workers, wpc'[v] = "await"
     PROVE  /\ count'[wjob'[v]] \in {output'[v].parts, output'[v].parts + 1}
            /\ "ok" \in inbox'[v] => count'[wjob'[v]] = output'[v].parts + 1
            /\ v = pool' =>
                   /\ Flying' => count'[wjob'[v]] = output'[v].parts
                   /\ pc' = "acked" => count'[wjob'[v]] = output'[v].parts + 1
  BY DEF Waiting
<1>. wpc \in [Workers -> WorkerPlaces] /\ inbox \in [Workers -> SUBSET Lines]
     /\ output \in [Workers -> Outputs] /\ wjob \in [Workers -> Jobs \cup {NoJob}]
     /\ count \in [Jobs -> Nat]
  BY DEF PInv, RInv, IInv, TypeOK, WorkersOK, ResultsOK
<1>1. wpc[v] = "await" =>
        /\ count[wjob[v]] \in {output[v].parts, output[v].parts + 1}
        /\ "ok" \in inbox[v] => count[wjob[v]] = output[v].parts + 1
        /\ v = pool => /\ Flying => count[wjob[v]] = output[v].parts
                       /\ pc = "acked" => count[wjob[v]] = output[v].parts + 1
  BY DEF PInv, Waiting
<1>2. wpc[v] = "await" =>
        Executing(v) /\ wjob[v] \in Jobs /\ output[v].parts \in Nat
  BY DEF PInv, RInv, IInv, Owned, Executing, Busy, WorkerPlaces, Outputs
<1>3. CASE Rests(v) /\ ~Work(v) /\ ~SpawnWorker(v)
  <2>. wpc[v] = "await" /\ wjob'[v] = wjob[v] /\ output'[v] = output[v]
       /\ ("ok" \in inbox'[v] <=> "ok" \in inbox[v])
    BY <1>3 DEF Rests
  <2>1. CASE PublishInline \/ PublishCommit
    <3>1. /\ v = pool /\ wjob[v] = cur /\ count[cur] = output[v].parts
          /\ count' = [count EXCEPT ![cur] = count[cur] + 1]
      BY <1>2, <2>1, Published
    <3>2. ~Flying'
      BY <2>1, TakenFirst DEF Taken
    <3>. QED
      BY <1>2, <3>1, <3>2
  <2>2. CASE ~(PublishInline \/ PublishCommit)
    <3>1. count' = count
      BY <2>2, CountStays DEF PInv, RInv
    <3>2. SUFFICES ASSUME v = pool'
          PROVE  /\ v = pool /\ (Flying' => Flying)
                 /\ (pc' = "acked" => pc = "acked")
      BY <1>1, <3>1
    <3>3. ASSUME NEW w \in Workers, SpawnWorker(w) PROVE FALSE
      BY <1>3, <3>2, <3>3 DEF SpawnWorker
    <3>4. ASSUME NEW w \in Workers, Writes(w) PROVE FALSE
      <4>1. w = v
        BY <3>2, <3>4, Written
      <4>. QED
        BY <1>3, <3>4, <4>1 DEF Writes, Work
    <3>5. CASE UNCHANGED <<outbox, pool>>
      BY <3>2, <3>5, PipeKept DEF Answering
    <3>6. CASE Reads
      <4>1. CASE Taken
        <5>1. pc' # "acked"
          BY <2>2, <4>1 DEF Taken, PublishReject, PublishFails, Goto
        <5>. QED
          BY <3>2, <4>1, <5>1, TakenFirst
      <4>2. CASE ~Taken
        <5>1. /\ pool \in Workers /\ pool' = pool
              /\ outbox[pool] \in Seq(Message) /\ outbox[pool] # <<>>
              /\ outbox'[pool] = Tail(outbox[pool])
          BY <3>6, ReadsShorten DEF PInv, RInv
        <5>2. \A i \in 1 .. Len(outbox'[pool']) :
                  /\ i + 1 \in 1 .. Len(outbox[pool])
                  /\ outbox'[pool'][i] = outbox[pool][i + 1]
          BY <5>1
        <5>3. Flying' => Flying
          BY <5>1, <5>2 DEF Flying, IsPart
        <5>4. pc' # "acked"
          BY <3>6, <4>2 DEF Reads, Taken, HandleSchema, HandleCompleted,
             HandleFailed, Received, Reports, coordinator
        <5>. QED
          BY <3>2, <5>1, <5>3, <5>4
      <4>. QED
        BY <4>1, <4>2
    <3>. QED
      BY <3>2, <3>3, <3>4, <3>5, <3>6, PipeStays, WorkersAssumption
         DEF PInv, RInv, PipeUsed
  <2>. QED
    BY <2>1, <2>2
<1>4. CASE Perishes(v)
  BY <1>4 DEF Perishes
<1>5. CASE Starts(v)
  <2>1. pc = "send" /\ wpc'[v] = wpc[v]
    BY <1>5 DEF Starts, SendSpec
  <2>. QED
    BY <1>2, <2>1 DEF PInv, RInv, IInv, PoolExecutes, Computing
<1>6. CASE v = pool /\ AnswerOk
  <2>1. /\ UNCHANGED <<wpc, wjob, output, count, outbox, pool>>
        /\ pc = "acked" /\ pc' = "loop"
    BY <1>6 DEF AnswerOk, Goto, inside, rows, resultRows
  <2>2. ~Flying'
    BY <1>6, <2>1 DEF PInv, OneExchange, Answering, Flying
  <2>. QED
    BY <1>1, <1>6, <2>1, <2>2
<1>7. CASE SpawnWorker(v)
  BY <1>7 DEF SpawnWorker
<1>8. CASE Work(v)
  <2>1. UNCHANGED <<count, pc, pool>>
    BY <1>8, WorkKeepsRows
  <2>2. CASE SendPart(v)
    <3>1. wpc[v] = "staged" /\ v = pool
      BY <2>2 DEF SendPart, Send
    <3>2. ~Pending
      BY <3>1, Listening DEF Executing, Busy, WorkerPlaces
    <3>3. count[wjob[v]] = output[v].parts
      BY <3>1 DEF PInv, Working
    <3>4. /\ output'[v].parts = output[v].parts /\ wjob' = wjob
          /\ inbox' = inbox
      BY <2>2 DEF SendPart, Holding
    <3>. QED
      BY <2>1, <3>1, <3>2, <3>3, <3>4 DEF Pending, Answering
  <2>3. CASE ~SendPart(v)
    <3>1. wpc'[v] # "await"
      BY <1>8, <2>3 DEF Work, Take, SendSchema, StageExport, Stage, ReadOk,
         Complete, Fail, Stop, Exit, EndJob, WorkerGoto, Die
    <3>. QED
      BY <3>1
  <2>. QED
    BY <2>2, <2>3
<1>. QED
  BY <1>3, <1>4, <1>5, <1>6, <1>7, <1>8, WorkerSteps DEF PInv, RInv, WorkerStep

-----------------------------------------------------------------------------
(* Something in the pipe belongs to an active job, whose kind is settled.    *)
LEMMA BusyPipe ==
    ASSUME PInv, pool \in Workers, outbox[pool] # <<>>
    PROVE  cur \in Jobs /\ state[cur] \in Active
<1>1. pc \in Unfinished
  BY WorkersAssumption DEF PInv, RInv, IInv, TypeOK, CoordinatorOK, Present,
     Starting, QuietPipe, Quiet, Unfinished, Held, Places
<1>. QED
  BY <1>1 DEF PInv, RInv, IInv, Present, CurActive, Unfinished

LEMMA KindStays ==
    ASSUME PInv, Next, NEW j \in Jobs, state[j] # "absent"
    PROVE  kind'[j] = kind[j]
<1>. Same(j) \/ JobStep(j)
  BY JobSteps DEF PInv, RInv
<1>. QED
  BY DEF Same, JobStep, AcceptStep, StopStep, BeginStep, PublishStep, EndStep

(* A report of completion stays true until it is read.                       *)
LEMMA CompleteReportKept == ASSUME PInv, Next PROVE CompleteReport'
<1>. SUFFICES ASSUME pool' \in Workers, NEW i \in 1 .. Len(outbox'[pool']),
                     outbox'[pool'][i].type = "completed"
              PROVE  outbox'[pool'][i].parts = count'[cur'] /\ ~Pending'
  BY DEF CompleteReport
<1>1. ASSUME NEW v \in Workers, SpawnWorker(v) PROVE FALSE
  <2>1. Len(outbox'[pool']) = 0
    BY <1>1, Spawned
  <2>. QED
    BY <2>1
<1>2. CASE UNCHANGED <<outbox, pool>>
  <2>1. outbox[pool][i].parts = count[cur] /\ ~Pending
    BY <1>2 DEF PInv, CompleteReport
  <2>2. cur' = cur
    BY <1>2, PipeKept
  <2>3. AnswerOk => Answering
    BY DEF AnswerOk, Answering
  <2>. QED
    BY <1>2, <2>1, <2>2, <2>3, PipeKept DEF Pending
<1>3. CASE Reads
  <2>1. /\ pool \in Workers /\ pool' = pool
        /\ outbox[pool] \in Seq(Message) /\ outbox[pool] # <<>>
        /\ outbox'[pool] = Tail(outbox[pool])
        /\ UNCHANGED <<wpc, inbox>>
    BY <1>3, ReadsShorten DEF PInv, RInv
  <2>2. /\ i + 1 \in 1 .. Len(outbox[pool]) /\ 1 \in 1 .. Len(outbox[pool])
        /\ outbox[pool][i + 1].type = "completed"
        /\ outbox'[pool'][i] = outbox[pool][i + 1]
    BY <2>1
  <2>3. outbox[pool][i + 1].parts = count[cur] /\ ~Pending
    BY <2>1, <2>2 DEF PInv, CompleteReport
  <2>4. ~Taken
    BY <2>3, TakenFirst DEF Pending
  <2>5. ~IsReport(outbox[pool][1])
    <3>1. IsReport(outbox[pool][1]) => 1 = Len(outbox[pool])
      BY <2>1, <2>2 DEF PInv, RInv, IInv, ReportLast
    <3>. QED
      BY <2>1, <3>1
  <2>6. HandleSchema
    BY <1>3, <2>4, <2>5 DEF Reads, Taken, HandleCompleted, HandleFailed,
       Received, IsReport
  <2>7. UNCHANGED <<count, cur, pc>>
    BY <2>6 DEF HandleSchema, coordinator
  <2>8. \A k \in 1 .. Len(outbox'[pool]) :
            k + 1 \in 1 .. Len(outbox[pool])
            /\ outbox'[pool][k] = outbox[pool][k + 1]
    BY <2>1
  <2>9. ~Flying'
    BY <2>1, <2>3, <2>8 DEF Pending, Flying, IsPart
  <2>. QED
    BY <2>1, <2>2, <2>3, <2>7, <2>9 DEF Pending, Answering
<1>4. ASSUME NEW v \in Workers, Writes(v)
      PROVE  outbox'[pool'][i].parts = count'[cur'] /\ ~Pending'
  <2>1. /\ v = pool /\ Executing(v) /\ wjob[v] = cur
        /\ outbox[v] \in Seq(Message)
        /\ pool' = pool /\ pc' = pc /\ cur' = cur
        /\ UNCHANGED <<count>>
        /\ inbox'[v] \subseteq inbox[v]
        /\ \A k \in 1 .. Len(outbox[v]) : ~IsReport(outbox[v][k])
    BY <1>4, Written
  <2>2. PICK m : /\ outbox'[v] = Append(outbox[v], m)
                 /\ m.type = "completed" =>
                       Complete(v) /\ m.parts = output[v].parts
    BY <1>4, Written
  <2>3. outbox'[pool'][i] = m
    BY <2>1, <2>2 DEF IsReport
  <2>4. Complete(v) /\ m.parts = output[v].parts
    BY <2>2, <2>3
  <2>5. wpc[v] = "running"
    BY <2>4 DEF Complete
  <2>6. count[cur] = output[v].parts
    BY <2>1, <2>5 DEF PInv, Working
  <2>7. ~Pending
    BY <2>1, <2>5, Listening
  <2>8. ~Flying'
    <3>1. m.type = "completed"
      BY <2>3
    <3>2. ASSUME NEW k \in 1 .. Len(outbox'[v]) PROVE ~IsPart(outbox'[v][k])
      <4>1. CASE k \in 1 .. Len(outbox[v])
        <5>1. outbox'[v][k] = outbox[v][k]
          BY <2>1, <2>2, <4>1
        <5>. QED
          BY <2>1, <2>7, <4>1, <5>1 DEF Pending, Flying
      <4>2. CASE k \notin 1 .. Len(outbox[v])
        <5>1. outbox'[v][k] = m
          BY <2>1, <2>2, <4>2
        <5>. QED
          BY <3>1, <5>1 DEF IsPart
      <4>. QED
        BY <4>1, <4>2
    <3>. QED
      BY <2>1, <3>2 DEF Flying
  <2>. QED
    BY <2>1, <2>3, <2>4, <2>6, <2>7, <2>8 DEF Pending, Answering
<1>. QED
  BY <1>1, <1>2, <1>3, <1>4, PipeStays, WorkersAssumption DEF PInv, RInv,
     PipeUsed

(* A preparation stages files only.                                          *)
LEMMA StagedFitsKept == ASSUME PInv, Next PROVE StagedFits'
<1>. SUFFICES ASSUME NEW v \in Workers, wpc'[v] = "staged"
              PROVE  Fits(wjob[v], output[v].staged)'
  BY DEF StagedFits
<1>. wpc \in [Workers -> WorkerPlaces] /\ output \in [Workers -> Outputs]
  BY DEF PInv, RInv, IInv, TypeOK, WorkersOK
<1>1. wpc[v] = "staged" =>
          /\ wjob[v] \in Jobs /\ state[wjob[v]] \in Active
          /\ Fits(wjob[v], output[v].staged)
  BY DEF PInv, RInv, IInv, Owned, Executing, Busy, WorkerPlaces, StagedFits
<1>2. wpc[v] = "staged" => kind'[wjob[v]] = kind[wjob[v]]
  BY <1>1, KindStays DEF Active
<1>3. CASE Rests(v)
  BY <1>1, <1>2, <1>3 DEF Rests, Fits
<1>4. CASE Perishes(v)
  BY <1>4 DEF Perishes
<1>5. CASE Starts(v)
  <2>1. pc = "send" /\ wpc'[v] = wpc[v]
    BY <1>5 DEF Starts, SendSpec
  <2>. QED
    BY <2>1 DEF PInv, RInv, IInv, PoolExecutes, Computing, Executing, Busy,
       WorkerPlaces
<1>6. CASE v = pool /\ AnswerOk
  BY <1>1, <1>2, <1>6 DEF AnswerOk, inside, Fits
<1>7. CASE SpawnWorker(v)
  BY <1>7 DEF SpawnWorker
<1>8. CASE Work(v)
  <2>1. CASE Stage(v)
    <3>1. kind' = kind /\ wjob' = wjob
      BY <1>8, <2>1, WorkKeepsRows DEF Stage
    <3>2. PICK inline \in BOOLEAN, covered \in Coverages(v) :
            /\ kind[wjob[v]] = "prepare" => ~inline
            /\ kind[wjob[v]] \in Analysis => inline
            /\ output' = [output EXCEPT ![v] = Holding(output[v].parts,
                [type |-> "part", seq |-> output[v].parts, inline |-> inline,
                 progress |-> covered], output[v].covered)]
      BY <2>1 DEF Stage
    <3>3. output'[v].staged.inline = inline /\ output'[v].staged.progress = covered
      BY <3>2 DEF Holding
    <3>4. kind[wjob[v]] \notin Analysis => covered = 0
      BY <3>2 DEF Coverages, Analysis
    <3>. QED
      BY <3>1, <3>2, <3>3, <3>4 DEF Fits
  <2>2. CASE ~Stage(v)
    <3>1. wpc'[v] # "staged"
      BY <1>8, <2>2 DEF Work, Take, SendSchema, StageExport, SendPart, ReadOk,
         Complete, Fail, Stop, Exit, EndJob, WorkerGoto, Die
    <3>. QED
      BY <3>1
  <2>. QED
    BY <2>1, <2>2
<1>. QED
  BY <1>3, <1>4, <1>5, <1>6, <1>7, <1>8, WorkerSteps DEF PInv, RInv, WorkerStep

(* A preparation sends files only.                                           *)
LEMMA SentFitsKept == ASSUME PInv, Next PROVE SentFits'
<1>. SUFFICES ASSUME pool' \in Workers, NEW i \in 1 .. Len(outbox'[pool']),
                     IsPart(outbox'[pool'][i])
              PROVE  Fits(cur, outbox[pool][i])'
  BY DEF SentFits, IsPart
<1>1. ASSUME NEW v \in Workers, SpawnWorker(v) PROVE FALSE
  <2>1. Len(outbox'[pool']) = 0
    BY <1>1, Spawned
  <2>. QED
    BY <2>1
<1>2. CASE UNCHANGED <<outbox, pool>>
  <2>1. outbox[pool] # <<>>
    BY <1>2
  <2>2. cur' = cur /\ kind'[cur] = kind[cur]
    BY <1>2, <2>1, PipeKept, BusyPipe, KindStays DEF Active
  <2>. QED
    BY <1>2, <2>2 DEF PInv, SentFits, Fits
<1>3. CASE Reads
  <2>1. /\ pool \in Workers /\ pool' = pool
        /\ outbox[pool] \in Seq(Message) /\ outbox[pool] # <<>>
        /\ outbox'[pool] = Tail(outbox[pool])
    BY <1>3, ReadsShorten DEF PInv, RInv
  <2>2. /\ i + 1 \in 1 .. Len(outbox[pool])
        /\ outbox'[pool'][i] = outbox[pool][i + 1]
    BY <2>1
  <2>3. cur' = cur
    BY <1>3
       DEF Reads, HandleSchema, PublishInline, PublishCommit, PublishReject,
           PublishFails, HandleCompleted, HandleFailed, Goto, Reports,
           coordinator
  <2>4. kind'[cur] = kind[cur]
    BY <2>1, BusyPipe, KindStays DEF Active
  <2>. QED
    BY <2>1, <2>2, <2>3, <2>4 DEF PInv, SentFits, Fits
<1>4. ASSUME NEW v \in Workers, Writes(v) PROVE Fits(cur, outbox[pool][i])'
  <2>1. /\ v = pool /\ wjob[v] = cur /\ outbox[v] \in Seq(Message)
        /\ pool' = pool /\ cur' = cur /\ kind' = kind
    BY <1>4, Written
  <2>2. PICK m : /\ outbox'[v] = Append(outbox[v], m)
                 /\ IsPart(m) => SendPart(v) /\ m = output[v].staged
    BY <1>4, Written
  <2>3. CASE i \in 1 .. Len(outbox[v])
    <3>1. outbox'[pool'][i] = outbox[v][i]
      BY <2>1, <2>2, <2>3
    <3>. QED
      BY <2>1, <2>3, <3>1 DEF PInv, SentFits, Fits
  <2>4. CASE i \notin 1 .. Len(outbox[v])
    <3>1. outbox'[pool'][i] = m
      BY <2>1, <2>2, <2>4
    <3>2. wpc[v] = "staged" /\ m = output[v].staged
      BY <2>2, <3>1 DEF SendPart
    <3>. QED
      BY <2>1, <3>1, <3>2 DEF PInv, StagedFits, Fits
  <2>. QED
    BY <2>3, <2>4
<1>. QED
  BY <1>1, <1>2, <1>3, <1>4, PipeStays, WorkersAssumption DEF PInv, RInv,
     PipeUsed

(* Every committed part of a preparation is a file.                          *)
LEMMA PreparedFiledKept == ASSUME PInv, Next PROVE PreparedFiled'
<1>. SUFFICES ASSUME NEW j \in Jobs, kind'[j] = "prepare",
                     NEW seq \in 0 .. count'[j] - 1
              PROVE  <<j, seq>> \in filed'
  BY DEF PreparedFiled
<1>. count \in [Jobs -> Nat]
  BY DEF PInv, RInv, IInv, TypeOK, ResultsOK
<1>1. CASE PublishInline \/ PublishCommit
  <2>1. /\ pool \in Workers /\ cur \in Jobs /\ kind' = kind
        /\ outbox[pool] \in Seq(Message) /\ outbox[pool] # <<>>
        /\ IsPart(outbox[pool][1]) /\ Frame = outbox[pool][1]
    BY <1>1, TakenFirst DEF Taken
  <2>2. /\ Frame.seq = count[cur]
        /\ count' = [count EXCEPT ![cur] = count[cur] + 1]
        /\ filed' = IF Frame.inline THEN filed
                    ELSE filed \cup {<<cur, Frame.seq>>}
    BY <1>1, Published
  <2>3. filed \subseteq filed'
    BY <2>2
  <2>4. seq \in 0 .. count[j] - 1 \/ (j = cur /\ seq = count[cur])
    BY <2>1, <2>2
  <2>5. CASE seq \in 0 .. count[j] - 1
    BY <2>1, <2>3, <2>5 DEF PInv, PreparedFiled
  <2>6. CASE j = cur /\ seq = count[cur]
    <3>1. ~Frame.inline
      <4>1. 1 \in 1 .. Len(outbox[pool])
        BY <2>1
      <4>. QED
        BY <2>1, <2>6, <4>1 DEF PInv, SentFits, Fits
    <3>. QED
      BY <2>2, <2>6, <3>1
  <2>. QED
    BY <2>4, <2>5, <2>6
<1>2. CASE ~(PublishInline \/ PublishCommit)
  <2>1. UNCHANGED <<count, filed>>
    BY <1>2, CountStays DEF PInv, RInv
  <2>2. state[j] # "absent"
    BY <2>1 DEF PInv, Unstarted
  <2>3. kind[j] = "prepare"
    BY <2>2, KindStays
  <2>. QED
    BY <2>1, <2>3 DEF PInv, PreparedFiled
<1>. QED
  BY <1>1, <1>2

(* A dataset appears in the transaction that completes its job.              *)
LEMMA DatasetsKept == ASSUME PInv, Next PROVE Datasets'
<1>. SUFFICES ASSUME NEW i \in Jobs
              PROVE  i \in dataset' <=>
                         kind'[i] = "prepare" /\ state'[i] = "completed"
  BY DEF Datasets
<1>. state \in [Jobs -> States] /\ kind \in [Jobs -> Kinds]
  BY DEF PInv, RInv, IInv, TypeOK, JobsOK
<1>1. i \in dataset <=> kind[i] = "prepare" /\ state[i] = "completed"
  BY DEF PInv, Datasets
<1>2. state[i] = "completed" => kind'[i] = kind[i]
  BY KindStays
<1>3. CASE dataset' = dataset /\ CompletedSame
  BY <1>1, <1>2, <1>3 DEF CompletedSame
<1>4. ASSUME NEW j \in Jobs, NEW s \in Terminal, FinishRows(j, s)
      PROVE  i \in dataset' <=>
                 kind'[i] = "prepare" /\ state'[i] = "completed"
  <2>1. /\ kind' = kind /\ state[j] \notin Terminal
        /\ state' = [state EXCEPT ![j] = Outcome(j, s)]
        /\ dataset' = IF Outcome(j, s) = "completed" /\ kind[j] = "prepare"
                      THEN dataset \cup {j} ELSE dataset
    BY <1>4 DEF FinishRows, DatasetsAfter
  <2>2. state[j] # "completed"
    BY <2>1 DEF Terminal
  <2>3. CASE i = j
    BY <1>1, <2>1, <2>2, <2>3
  <2>4. CASE i # j
    BY <1>1, <2>1, <2>4
  <2>. QED
    BY <2>3, <2>4
<1>. QED
  BY <1>3, <1>4, DatasetSteps DEF PInv, RInv, Ends

(* A part covers at least what was covered before.                           *)
LEMMA PublishedCovers ==
    ASSUME PInv, PublishInline \/ PublishCommit
    PROVE  /\ Frame.progress \in Nat /\ progress[cur] <= Frame.progress
           /\ kind[cur] \notin Analysis => Frame.progress = 0
<1>1. /\ pool \in Workers /\ cur \in Jobs /\ Frame \in PartMessage
      /\ outbox[pool] \in Seq(Message) /\ outbox[pool] # <<>>
      /\ IsPart(outbox[pool][1]) /\ Frame = outbox[pool][1]
  BY TakenFirst DEF Taken
<1>2. Fits(cur, Frame)
  <2>1. 1 \in 1 .. Len(outbox[pool])
    BY <1>1
  <2>. QED
    BY <1>1, <2>1 DEF PInv, SentFits
<1>3. Frame.progress \in Nat /\ progress[cur] \in Nat
  BY <1>1 DEF PartMessage, PInv, RInv, IInv, TypeOK, ResultsOK
<1>4. kind[cur] \notin Analysis => progress[cur] = 0 /\ Frame.progress = 0
  BY <1>1, <1>2 DEF Fits, PInv, Covering
<1>5. kind[cur] \in Analysis => progress[cur] < Frame.progress
  <2>1. PublishCommit => ~Frame.inline
    BY DEF PublishCommit, PInv, RInv, IInv, RenamedPart
  <2>2. PublishInline => Publishable(Frame)
    BY DEF PublishInline
  <2>. QED
    BY <1>2, <1>3, <2>1, <2>2 DEF Fits, Publishable
<1>. QED
  BY <1>3, <1>4, <1>5

(* Revisions never claim more than the rows do.                              *)
LEMMA CoveringKept == ASSUME PInv, Next PROVE Covering'
<1>. SUFFICES ASSUME NEW j \in Jobs
     PROVE  /\ kind'[j] \notin Analysis => progress'[j] = 0
            /\ \A i \in 1 .. Len(revs'[j]) :
                  revs'[j][i].coverage <= progress'[j]
  BY DEF Covering
<1>. /\ progress \in [Jobs -> Nat] /\ revs \in [Jobs -> Seq(Revision)]
     /\ kind \in [Jobs -> Kinds]
  BY DEF PInv, RInv, IInv, TypeOK, JobsOK, ResultsOK
<1>1. /\ kind[j] \notin Analysis => progress[j] = 0
      /\ \A i \in 1 .. Len(revs[j]) : revs[j][i].coverage <= progress[j]
  BY DEF PInv, Covering
<1>2. state[j] = "absent" => progress[j] = 0
  BY DEF PInv, Unstarted
<1>3. state[j] # "absent" => kind'[j] = kind[j]
  BY KindStays
<1>4. CASE PublishInline \/ PublishCommit
  <2>1. /\ Frame \in PartMessage /\ cur \in Jobs /\ kind' = kind
    BY <1>4, TakenFirst DEF Taken
  <2>2. /\ progress' = [progress EXCEPT ![cur] = Frame.progress]
        /\ revs' = [revs EXCEPT ![cur] = revs[cur] \o Shown(Frame)]
    BY <1>4, Published
  <2>3. /\ Frame.progress \in Nat /\ progress[cur] <= Frame.progress
        /\ kind[cur] \notin Analysis => Frame.progress = 0
    BY <1>4, PublishedCovers
  <2>4. CASE j = cur
    <3>1. kind'[j] \notin Analysis => progress'[j] = 0
      BY <2>1, <2>2, <2>3, <2>4
    <3>2. ASSUME NEW i \in 1 .. Len(revs'[j])
          PROVE  revs'[j][i].coverage <= progress'[j]
      <4>1. CASE i \in 1 .. Len(revs[j])
        <5>1. revs'[j][i] = revs[j][i]
          BY <2>2, <2>4, <4>1 DEF Shown
        <5>2. revs[j][i] \in Revision
          BY <4>1
        <5>3. revs[j][i].coverage \in Nat
          BY <5>2 DEF Revision
        <5>. QED
          BY <1>1, <2>2, <2>3, <2>4, <4>1, <5>1, <5>3
      <4>2. CASE i \notin 1 .. Len(revs[j])
        <5>1. revs'[j][i].coverage = Frame.progress
          BY <2>2, <2>4, <3>2, <4>2 DEF Shown
        <5>. QED
          BY <2>2, <2>3, <2>4, <5>1
      <4>. QED
        BY <4>1, <4>2
    <3>. QED
      BY <3>1, <3>2
  <2>5. CASE j # cur
    BY <1>1, <2>1, <2>2, <2>5
  <2>. QED
    BY <2>4, <2>5
<1>5. CASE ~(PublishInline \/ PublishCommit)
  <2>1. progress' = progress /\ count' = count
    BY <1>5, CountStays DEF PInv, RInv
  <2>2. CASE Same(j) \/ AcceptStep(j) \/ StopStep(j) \/ BeginStep(j)
    <3>1. revs'[j] = revs[j]
      BY <2>2 DEF Same, AcceptStep, StopStep, BeginStep
    <3>. QED
      BY <1>1, <1>2, <1>3, <2>1, <3>1
  <2>3. ~PublishStep(j)
    BY <2>1 DEF PublishStep, PInv, RInv, IInv, TypeOK, ResultsOK
  <2>4. CASE EndStep(j)
    <3>1. PICK s \in Terminal : revs'[j] = RevisionsAfter(j, Outcome(j, s))
      BY <2>4 DEF EndStep
    <3>2. kind'[j] = kind[j]
      BY <2>4 DEF EndStep
    <3>3. ASSUME NEW i \in 1 .. Len(revs'[j])
          PROVE  revs'[j][i].coverage <= progress[j]
      <4>1. CASE i \in 1 .. Len(revs[j])
        <5>1. revs'[j][i] = revs[j][i]
          BY <3>1, <4>1 DEF RevisionsAfter
        <5>. QED
          BY <1>1, <4>1, <5>1
      <4>2. CASE i \notin 1 .. Len(revs[j])
        <5>1. revs'[j][i].coverage \in {0, progress[j]}
          BY <3>1, <3>3, <4>2 DEF RevisionsAfter
        <5>. QED
          BY <5>1
      <4>. QED
        BY <4>1, <4>2
    <3>. QED
      BY <1>1, <2>1, <3>2, <3>3
  <2>. QED
    BY <2>2, <2>3, <2>4, JobSteps DEF PInv, RInv, JobStep
<1>. QED
  BY <1>4, <1>5

(* The reason stands as long as the job is stopping.                         *)
LEMMA StopAskedKept == ASSUME PInv, Next PROVE StopAsked'
<1>. SUFFICES ASSUME NEW j \in Jobs, state'[j] = "stopping"
              PROVE  stop'[j] # "none"
  BY DEF StopAsked
<1>1. state[j] = "stopping" => stop[j] # "none"
  BY DEF PInv, StopAsked
<1>2. CASE Same(j) \/ AcceptStep(j) \/ BeginStep(j) \/ PublishStep(j)
  BY <1>1, <1>2 DEF Same, AcceptStep, BeginStep, PublishStep
<1>3. CASE StopStep(j)
  BY <1>3 DEF StopStep, Reasons
<1>4. ~EndStep(j)
  BY DEF EndStep, Outcome, Terminal, Reasons, PInv, RInv, IInv, TypeOK, JobsOK
<1>. QED
  BY <1>2, <1>3, <1>4, JobSteps DEF PInv, RInv, JobStep

(* The invariant of parts is kept by every step.                             *)
LEMMA NextPInv == ASSUME PInv, [Next]_vars PROVE PInv'
<1>1. CASE Next
  <2>1. RInv'
    BY <1>1, NextRInv DEF PInv
  <2>. QED
    BY <1>1, <2>1, UnstartedKept, NewJobKept, IdleOutputKept, OneExchangeKept,
       AwaitedKept, EarlyKept, WorkingKept, WaitingKept, CompleteReportKept,
       StagedFitsKept, SentFitsKept, PreparedFiledKept, DatasetsKept,
       CoveringKept, StopAskedKept
       DEF PInv
<1>2. CASE UNCHANGED vars
  <2>1. RInv'
    BY <1>2, NextRInv DEF PInv
  <2>2. UNCHANGED <<kind, state, stop, revs, progress, count, filed, dataset, pc, cur, pool, report,
                    wpc, wjob, output, inbox, outbox>>
    BY <1>2 DEF vars, rows, jobRows, resultRows, coordinator, workers, inside
  <2>3. (Flying' <=> Flying) /\ (Pending' <=> Pending)
        /\ (GivenUp' <=> GivenUp) /\ (Answering' <=> Answering)
    BY <2>2 DEF Flying, Pending, GivenUp, Verdict, Answering
  <2>. QED
    BY <2>1, <2>2, <2>3 DEF PInv, Unstarted, NewJob, Fresh, IdleOutput,
       OneExchange, Awaited, Early, Working, Waiting, CompleteReport,
       StagedFits, SentFits, PreparedFiled, Datasets, Covering, StopAsked,
       Fits, IsPart
<1>. QED
  BY <1>1, <1>2

(* There is no part before the first job.                                    *)
LEMMA InitPInv == ASSUME Init PROVE PInv
<1>1. RInv
  BY InitRInv
<1>2. /\ Unstarted /\ NewJob /\ IdleOutput /\ OneExchange /\ Awaited /\ Early
      /\ Working /\ Waiting /\ CompleteReport /\ StagedFits /\ SentFits
  BY WorkersAssumption
     DEF Init, Unstarted, NewJob, Fresh, IdleOutput, NoOutput, Holding,
         OneExchange, Awaited, Early, Working, Waiting, CompleteReport,
         StagedFits, SentFits
<1>3. PreparedFiled /\ Datasets /\ Covering /\ StopAsked
  BY DEF Init, PreparedFiled, Datasets, Covering, StopAsked
<1>. QED
  BY <1>1, <1>2, <1>3 DEF PInv

(* The invariant of the parts of a result, in the rows, in the pipe and in   *)
(* the worker that makes them.                                               *)
THEOREM PartsInductive == Spec => []PInv
<1>1. Init => PInv
  BY InitPInv
<1>2. PInv /\ [Next]_vars => PInv'
  BY NextPInv
<1>. QED
  BY <1>1, <1>2, PTL DEF Spec

(* A prepared dataset is visible exactly when its conversion completed, and  *)
(* then with all its parts in store/.                                        *)
THEOREM PreparationIsAtomic == Spec => []PreparedAllOrNothing
<1>1. ASSUME PInv PROVE PreparedAllOrNothing
  BY <1>1 DEF PInv, RInv, FiledStored, PreparedFiled, Datasets,
     PreparedAllOrNothing
<1>. QED
  BY <1>1, PartsInductive, PTL

(* What a worker holds acknowledged is committed, at most one part more is,  *)
(* and a worker that reports completion has reported every committed part.   *)
THEOREM PartsAgree == Spec => []AcknowledgedIsCommitted
<1>1. ASSUME PInv PROVE AcknowledgedIsCommitted
  <2>1. ASSUME NEW w \in Workers, wpc[w] \in {"running", "staged", "await"}
        PROVE  /\ output[w].parts <= count[wjob[w]]
               /\ count[wjob[w]] <= output[w].parts
                     + (IF wpc[w] = "await" THEN 1 ELSE 0)
    <3>1. output[w].parts \in Nat
      BY <1>1 DEF PInv, RInv, IInv, TypeOK, WorkersOK, Outputs
    <3>2. CASE wpc[w] = "await"
      <4>1. count[wjob[w]] \in {output[w].parts, output[w].parts + 1}
        BY <1>1, <3>2 DEF PInv, Waiting
      <4>. QED
        BY <3>1, <3>2, <4>1
    <3>3. CASE wpc[w] # "await"
      <4>1. count[wjob[w]] = output[w].parts
        BY <1>1, <2>1, <3>3 DEF PInv, Working
      <4>. QED
        BY <3>1, <3>3, <4>1
    <3>. QED
      BY <3>2, <3>3
  <2>2. pool # NoWorker => pool \in Workers
    BY <1>1 DEF PInv, RInv, IInv, TypeOK, CoordinatorOK
  <2>. QED
    BY <1>1, <2>1, <2>2 DEF PInv, CompleteReport, AcknowledgedIsCommitted
<1>. QED
  BY <1>1, PartsInductive, PTL

-----------------------------------------------------------------------------
(***************************************************************************)
(* The contract of a job.  A step of the five that changes a row is a step *)
(* of the contract, and no other step is seen.                             *)
(***************************************************************************)

(* The last revision is open while the job is active, and shows no more than *)
(* what is committed.                                                        *)
LEMMA LastRevision ==
    ASSUME PInv, NEW j \in Jobs, state[j] \in Active, revs[j] # <<>>
    PROVE  /\ Len(revs[j]) \in 1 .. Len(revs[j])
           /\ ~revs[j][Len(revs[j])].final
           /\ revs[j][Len(revs[j])].cutoff \in Nat
           /\ revs[j][Len(revs[j])].coverage \in Nat
           /\ revs[j][Len(revs[j])].cutoff <= count[j]
           /\ revs[j][Len(revs[j])].coverage <= progress[j]
<1>1. revs[j] \in Seq(Revision)
  BY DEF PInv, RInv, IInv, TypeOK, ResultsOK
<1>2. Len(revs[j]) \in 1 .. Len(revs[j])
  BY <1>1
<1>3. revs[j][Len(revs[j])] \in Revision
  BY <1>1, <1>2
<1>4. ~revs[j][Len(revs[j])].final
  BY <1>2 DEF PInv, RInv, FinalIffCompleted, Active
<1>5. revs[j][Len(revs[j])].cutoff <= count[j]
  BY <1>2 DEF PInv, RInv, CutoffsIn
<1>6. revs[j][Len(revs[j])].coverage <= progress[j]
  BY <1>2 DEF PInv, Covering
<1>. QED
  BY <1>2, <1>3, <1>4, <1>5, <1>6 DEF Revision

(* Adding a revision that shows all that is committed extends the history.   *)
LEMMA Extending ==
    ASSUME PInv, NEW j \in Jobs, state[j] \in Active,
           NEW r \in Revision, NEW after, after = Append(revs[j], r),
           count[j] <= r.cutoff,
           revs[j] = <<>> \/ progress[j] <= r.coverage
    PROVE  Contract!Extends(revs[j], after, r.final) /\ Len(after) > Len(revs[j])
<1>1. revs[j] \in Seq(Revision) /\ count[j] \in Nat /\ progress[j] \in Nat
  BY DEF PInv, RInv, IInv, TypeOK, ResultsOK
<1>2. Len(after) = Len(revs[j]) + 1 /\ after[Len(after)] = r
  BY <1>1
<1>3. r.cutoff \in Nat /\ r.coverage \in Nat
  BY DEF Revision
<1>4. revs[j] # <<>> =>
          /\ ~revs[j][Len(revs[j])].final
          /\ revs[j][Len(revs[j])].cutoff <= r.cutoff
          /\ revs[j][Len(revs[j])].coverage <= r.coverage
  <2>. SUFFICES ASSUME revs[j] # <<>>
       PROVE  /\ ~revs[j][Len(revs[j])].final
              /\ revs[j][Len(revs[j])].cutoff <= r.cutoff
              /\ revs[j][Len(revs[j])].coverage <= r.coverage
    OBVIOUS
  <2>1. PICK cutoff \in Nat, coverage \in Nat :
            /\ cutoff = revs[j][Len(revs[j])].cutoff
            /\ coverage = revs[j][Len(revs[j])].coverage
    BY LastRevision
  <2>2. cutoff <= count[j] /\ coverage <= progress[j]
    BY <2>1, LastRevision
  <2>3. cutoff <= r.cutoff /\ coverage <= r.coverage
    BY <1>1, <1>3, <2>2
  <2>. QED
    BY <2>1, <2>3, LastRevision
<1>. QED
  BY <1>1, <1>2, <1>4 DEF Contract!Extends

(* A publication of a previewed job is a preview, of another is not seen.    *)
LEMMA PublishSeen ==
    ASSUME PInv, Next, PublishInline \/ PublishCommit
    PROVE  Contract!Preview(cur) \/ UNCHANGED <<state, stop, revs>>
<1>1. /\ cur \in Jobs /\ state[cur] \in Active /\ Frame \in PartMessage
      /\ UNCHANGED <<state, stop>>
  BY TakenFirst DEF Taken
<1>2. /\ Frame.seq = count[cur]
      /\ revs' = [revs EXCEPT ![cur] = revs[cur] \o Shown(Frame)]
      /\ count[cur] \in Nat
  BY Published
<1>3. Frame.progress \in Nat /\ progress[cur] <= Frame.progress
  BY PublishedCovers
<1>4. revs \in [Jobs -> Seq(Revision)]
  BY DEF PInv, RInv, IInv, TypeOK, ResultsOK
<1>5. state[cur] = "running"
  BY DEF PublishInline, PublishCommit, Publishable, PInv, RInv, PublishRunning
<1>6. CASE kind[cur] \in Previewed
  <2>. DEFINE r == [cutoff |-> Frame.seq + 1, final |-> FALSE,
                    coverage |-> Frame.progress]
  <2>1. r \in Revision /\ ~r.final /\ count[cur] <= r.cutoff
        /\ progress[cur] <= r.coverage
    BY <1>2, <1>3 DEF Revision
  <2>2. revs'[cur] = Append(revs[cur], r)
    BY <1>1, <1>2, <1>4, <1>6 DEF Shown
  <2>. HIDE DEF r
  <2>3. /\ Contract!Extends(revs[cur], revs'[cur], r.final)
        /\ Len(revs'[cur]) > Len(revs[cur])
    BY <1>1, <2>1, <2>2, Extending
  <2>4. Contract!Extends(revs[cur], revs'[cur], FALSE)
    BY <2>1, <2>3 DEF Contract!Extends
  <2>5. revs' = [revs EXCEPT ![cur] = revs'[cur]]
    BY <1>1, <1>2, <1>4
  <2>. QED
    BY <1>1, <1>5, <2>3, <2>4, <2>5 DEF Contract!Preview
<1>7. CASE kind[cur] \notin Previewed
  <2>1. revs' = revs
    BY <1>1, <1>2, <1>4, <1>7 DEF Shown
  <2>. QED
    BY <1>1, <2>1
<1>. QED
  BY <1>6, <1>7

(* The transaction that ends a job ends it for its client.                   *)
LEMMA EndSeen ==
    ASSUME PInv, Next, NEW j \in Jobs, OthersSame(j), EndStep(j)
    PROVE  Contract!End(j)
<1>. /\ state \in [Jobs -> States] /\ revs \in [Jobs -> Seq(Revision)]
     /\ stop \in [Jobs -> {"none"} \cup Reasons]
     /\ count \in [Jobs -> Nat] /\ progress \in [Jobs -> Nat]
  BY DEF PInv, RInv, IInv, TypeOK, JobsOK, ResultsOK
<1>. /\ state' \in [Jobs -> States] /\ revs' \in [Jobs -> Seq(Revision)]
     /\ stop' \in [Jobs -> {"none"} \cup Reasons]
  BY TypeKept DEF PInv, RInv, IInv, TypeOK, JobsOK, ResultsOK
<1>1. PICK s \in Terminal : /\ state'[j] = Outcome(j, s)
                            /\ revs'[j] = RevisionsAfter(j, Outcome(j, s))
  BY DEF EndStep
<1>2. state[j] \in Active /\ stop'[j] = stop[j]
  BY DEF EndStep
<1>3. state'[j] \in Terminal /\ (stop[j] # "none" => state'[j] = stop[j])
  BY <1>1 DEF Outcome, Terminal
<1>4. /\ state' = [state EXCEPT ![j] = state'[j]]
      /\ revs' = [revs EXCEPT ![j] = revs'[j]]
      /\ stop' = stop
  BY <1>2 DEF OthersSame
<1>5. \/ revs' = revs
      \/ Contract!Extends(revs[j], revs'[j], state'[j] = "completed")
  <2>1. CASE state'[j] = "completed" /\ kind[j] \in Query \cup Analysis
    <3>. DEFINE r == [cutoff |-> count[j], final |-> TRUE,
                      coverage |-> progress[j]]
    <3>1. r \in Revision /\ r.final /\ count[j] <= r.cutoff
          /\ progress[j] <= r.coverage
      BY DEF Revision
    <3>2. revs'[j] = Append(revs[j], r)
      BY <1>1, <2>1 DEF RevisionsAfter
    <3>. HIDE DEF r
    <3>3. Contract!Extends(revs[j], revs'[j], r.final)
      BY <1>2, <3>1, <3>2, Extending
    <3>. QED
      BY <2>1, <3>1, <3>3 DEF Contract!Extends
  <2>2. CASE /\ state'[j] # "completed" /\ kind[j] \in Query
             /\ revs[j] = <<>> /\ count[j] > 0
    <3>. DEFINE r == [cutoff |-> count[j], final |-> FALSE, coverage |-> 0]
    <3>1. /\ r \in Revision /\ count[j] <= r.cutoff
          /\ r.final = (state'[j] = "completed")
      <4>1. r \in Revision /\ count[j] <= r.cutoff /\ r.final = FALSE
        BY DEF Revision
      <4>2. (state'[j] = "completed") = FALSE
        BY <2>2
      <4>. QED
        BY <4>1, <4>2
    <3>2. revs'[j] = Append(revs[j], r)
      BY <1>1, <2>2 DEF RevisionsAfter
    <3>. HIDE DEF r
    <3>3. Contract!Extends(revs[j], revs'[j], r.final)
      BY <1>2, <2>2, <3>1, <3>2, Extending
    <3>. QED
      BY <3>1, <3>3
  <2>3. CASE /\ ~(state'[j] = "completed" /\ kind[j] \in Query \cup Analysis)
             /\ ~(/\ state'[j] # "completed" /\ kind[j] \in Query
                  /\ revs[j] = <<>> /\ count[j] > 0)
    <3>1. revs'[j] = revs[j]
      BY <1>1, <2>3 DEF RevisionsAfter
    <3>. QED
      BY <1>4, <3>1
  <2>. QED
    BY <2>1, <2>2, <2>3
<1>. QED
  BY <1>2, <1>3, <1>4, <1>5 DEF Contract!End, Contract!Over, Contract!Reasons,
     Terminal, Reasons, Active

(* Every step is one of the contract, or not seen.                           *)
LEMMA ContractStep ==
    ASSUME PInv, Next
    PROVE  Contract!Next \/ UNCHANGED <<state, stop, revs>>
<1>. /\ state \in [Jobs -> States] /\ revs \in [Jobs -> Seq(Revision)]
     /\ stop \in [Jobs -> {"none"} \cup Reasons]
  BY DEF PInv, RInv, IInv, TypeOK, JobsOK, ResultsOK
<1>. /\ state' \in [Jobs -> States] /\ revs' \in [Jobs -> Seq(Revision)]
     /\ stop' \in [Jobs -> {"none"} \cup Reasons]
  BY TypeKept DEF PInv, RInv, IInv, TypeOK, JobsOK, ResultsOK
<1>1. PICK j : OthersSame(j)
  BY OneChanges DEF PInv, RInv
<1>2. CASE j \notin Jobs
  BY <1>1, <1>2 DEF OthersSame
<1>3. CASE j \in Jobs
  <2>1. CASE Same(j)
    BY <1>1, <1>3, <2>1 DEF OthersSame, Same
  <2>2. CASE AcceptStep(j)
    <3>1. Contract!Accept(j)
      BY <1>1, <1>3, <2>2 DEF OthersSame, AcceptStep, Contract!Accept
    <3>. QED
      BY <1>3, <3>1 DEF Contract!Next
  <2>3. CASE BeginStep(j)
    <3>1. Contract!Begin(j)
      BY <1>1, <1>3, <2>3 DEF OthersSame, BeginStep, Contract!Begin
    <3>. QED
      BY <1>3, <3>1 DEF Contract!Next
  <2>4. CASE StopStep(j)
    <3>1. PICK reason \in Reasons :
              /\ state'[j] = IF state[j] = "queued" THEN reason ELSE "stopping"
              /\ stop'[j] = IF stop[j] = "none" THEN reason ELSE stop[j]
      BY <2>4 DEF StopStep
    <3>2. state[j] \in {"queued", "running", "stopping"} /\ revs'[j] = revs[j]
      BY <2>4 DEF StopStep, Active
    <3>3. CASE state[j] = "stopping"
      <4>1. stop[j] # "none"
        BY <1>3, <3>3 DEF PInv, StopAsked
      <4>. QED
        BY <1>1, <1>3, <3>1, <3>2, <3>3, <4>1 DEF OthersSame
    <3>4. CASE state[j] # "stopping"
      <4>1. stop[j] = "none"
        BY <1>3, <3>2, <3>4 DEF PInv, RInv, StopKnown
      <4>2. Contract!Ask(j, reason)
        BY <1>1, <1>3, <3>1, <3>2, <3>4, <4>1 DEF OthersSame, Contract!Ask
      <4>. QED
        BY <1>3, <4>2 DEF Contract!Next, Contract!Reasons, Reasons
    <3>. QED
      BY <3>3, <3>4
  <2>5. CASE PublishStep(j)
    <3>1. PublishInline \/ PublishCommit
      <4>1. count'[j] # count[j]
        BY <1>3, <2>5 DEF PublishStep, PInv, RInv, IInv, TypeOK, ResultsOK
      <4>. QED
        BY <4>1, CountStays DEF PInv, RInv
    <3>2. j = cur
      BY <2>5 DEF PublishStep
    <3>. QED
      BY <1>3, <3>1, <3>2, PublishSeen DEF Contract!Next
  <2>6. CASE EndStep(j)
    BY <1>1, <1>3, <2>6, EndSeen DEF Contract!Next
  <2>. QED
    BY <1>3, <2>1, <2>2, <2>3, <2>4, <2>5, <2>6, JobSteps
       DEF PInv, RInv, JobStep
<1>. QED
  BY <1>2, <1>3

(* The executing system implements the contract that clients rely on.        *)
THEOREM ContractHolds == Spec => ImplementsContract
<1>1. Init => Contract!Init
  BY DEF Init, Contract!Init
<1>2. PInv /\ [Next]_vars => [Contract!Next]_(Contract!vars)
  <2>1. SUFFICES ASSUME PInv, [Next]_vars
                 PROVE  Contract!Next \/ UNCHANGED <<state, stop, revs>>
    BY DEF Contract!vars
  <2>2. UNCHANGED vars => UNCHANGED <<state, stop, revs>>
    BY DEF vars, rows, jobRows, resultRows
  <2>. QED
    BY <2>1, <2>2, ContractStep
<1>. QED
  BY <1>1, <1>2, PartsInductive, PTL
     DEF Spec, ImplementsContract, Contract!Spec
=============================================================================
