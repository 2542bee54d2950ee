---------------------------- MODULE Observation ----------------------------
(***************************************************************************)
(* How callers watch jobs: the durable event log, long polls of it         *)
(* (method events), waits for one job (wait_response) and snapshots.       *)
(*                                                                         *)
(* Every change of a job writes its row and its events in one transaction, *)
(* and then, still holding the connection's mutex, sends a notification on *)
(* a watch channel.  The notification is a hint that survives nothing: a   *)
(* reader subscribes, reads the database, and sleeps on the channel when   *)
(* it finds nothing to return.  An event's sequence number is its index in *)
(* log (AUTOINCREMENT, events are never removed).                          *)
(***************************************************************************)
EXTENDS Integers, Sequences, FiniteSets

CONSTANTS
    Jobs, Clients,
    Kinds,       \* what the jobs do, see Shapes
    Reports,     \* terminal states a worker's run may report
    Stops,       \* reasons for which a stop is requested
    Methods,     \* what the clients call: "events", "snapshot", "wait"
    Batch,       \* rows of one read of the log (LIMIT 1000)
    Limits,      \* events a caller asks for at most
    Rooms,       \* output bytes a caller allows, in units of a small event
    Topics,      \* event types a caller may filter by; {} means all of them
    MaxParts,    \* bound: parts a job publishes
    MaxLost,     \* bound: answers lost on their way to the caller
    MaxCrashes   \* bound: kills of the coordinator

Shapes == {"query", "preview", "analysis", "prepare", "export"}
Ends == {"completed", "failed", "cancelled", "interrupted", "budget_exhausted"}
StopReasons == {"cancelled", "budget_exhausted"}
EventTypes == {"job.accepted", "job.started", "result.ready", "dataset.ready",
               "result.invalidated", "job.ended"}

ASSUME ObservationAssumption ==
    /\ Kinds \subseteq Shapes
    /\ Reports \subseteq Ends
    /\ Stops \subseteq StopReasons
    /\ Methods \subseteq {"events", "snapshot", "wait"}
    /\ Batch \in Nat \ {0}
    /\ Limits \subseteq Nat \ {0}
    /\ Rooms \subseteq Nat
    /\ Topics \subseteq SUBSET EventTypes
    /\ {MaxParts, MaxLost, MaxCrashes} \subseteq Nat

VARIABLES
    job,         \* rows of jobs and results: state, stop reason, parts, head
    log,         \* rows of events
    unsent,      \* a commit whose notification is still to be sent
    up,          \* the coordinator serves its socket
    call,        \* the call each client has in progress
    fresh,       \* the call's receiver holds a notification it has not seen
    late,        \* the call's deadline has passed
    follow,      \* what each client follows and has received
    told,        \* the last terminal answer of a wait
    lost, crashes

jobVars == <<job, log, unsent>>
clientVars == <<follow, told, lost>>
callVars == <<call, fresh, late>>
vars == <<job, log, unsent, up, call, fresh, late, follow, told, lost, crashes>>

-----------------------------------------------------------------------------
Idle == [pc |-> "idle"]
Nothing == [pc |-> "none"]   \* nothing is followed, nothing was told

Absent == [state |-> "none", kind |-> "none", stop |-> "none",
           parts |-> 0, head |-> 0, valid |-> TRUE]

Terminal(s) == s \in Ends

\* A caller sees queued, running or a terminal state in the events: a stop
\* request of a running job changes the row and writes no event.
Visible(s) == IF s = "stopping" THEN "running" ELSE s

Event(j, t, s, r) == [job |-> j, type |-> t, state |-> s, rev |-> r]
StateEvent(j, t, s) == Event(j, t, s, 0)
ResultEvent(j, t, r) == Event(j, t, "none", r)

Init ==
    /\ job = [j \in Jobs |-> Absent]
    /\ log = <<>>
    /\ unsent = FALSE
    /\ up = TRUE
    /\ call = [c \in Clients |-> Idle]
    /\ fresh = [c \in Clients |-> FALSE]
    /\ late = [c \in Clients |-> FALSE]
    /\ follow = [c \in Clients |-> Nothing]
    /\ told = [c \in Clients |-> Nothing]
    /\ lost = 0
    /\ crashes = 0

-----------------------------------------------------------------------------
(* The transactions.  Each holds the mutex until it has notified.          *)

Locked == unsent

Commit(j, row, events) ==
    /\ ~Locked
    /\ job' = [job EXCEPT ![j] = row]
    /\ log' = log \o events
    /\ unsent' = TRUE
    /\ UNCHANGED <<up, callVars, clientVars, crashes>>

Submit(j, k) ==
    /\ up /\ job[j].state = "none"
    /\ Commit(j, [Absent EXCEPT !.state = "queued", !.kind = k],
              <<StateEvent(j, "job.accepted", "queued")>>)

Start(j) ==
    /\ up /\ job[j].state = "queued"
    /\ Commit(j, [job[j] EXCEPT !.state = "running"],
              <<StateEvent(j, "job.started", "running")>>)

\* A mistake Cancel does not make: a queued job ends without an event.
CancelSilently(j, reason) ==
    /\ up /\ job[j].state = "queued"
    /\ Commit(j, [job[j] EXCEPT !.state = reason, !.stop = reason], <<>>)

\* Only a running job runs out of its time budget.
Cancel(j, reason) ==
    /\ up
    /\ \/ /\ job[j].state = "queued" /\ reason = "cancelled"
          /\ Commit(j, [job[j] EXCEPT !.state = reason, !.stop = reason],
                    <<StateEvent(j, "job.ended", reason)>>)
       \/ /\ job[j].state \in {"running", "stopping"}
          /\ Commit(j, [job[j] EXCEPT
                            !.state = "stopping",
                            !.stop = IF @ = "none" THEN reason ELSE @],
                    <<>>)

\* Only a query with a preview shows each part as a revision.
Publish(j) ==
    /\ up /\ job[j].state = "running"
    /\ job[j].kind # "export" /\ job[j].parts < MaxParts
    /\ LET shown == job[j].kind = "preview"
           rev == job[j].head + 1
       IN  Commit(j, [job[j] EXCEPT !.parts = @ + 1,
                                    !.head = IF shown THEN rev ELSE @],
                  IF shown THEN <<ResultEvent(j, "result.ready", rev)>> ELSE <<>>)

\* A completed job shows its result or dataset; a query that stops earlier
\* shows what it has published unless some revision is shown already.
ShowsResult(j, s) ==
    \/ s = "completed" /\ job[j].kind \in {"query", "preview", "analysis"}
    \/ s # "completed" /\ job[j].kind = "query" /\ job[j].parts > 0 /\ job[j].head = 0

\* A mistake EndEvents does not make: the end is written before the revision.
EndEventsFirst(j, s) ==
    <<StateEvent(j, "job.ended", s)>>
    \o IF ShowsResult(j, s) THEN <<ResultEvent(j, "result.ready", job[j].head + 1)>>
       ELSE <<>>

EndEvents(j, s) ==
    (IF ShowsResult(j, s) THEN <<ResultEvent(j, "result.ready", job[j].head + 1)>> ELSE <<>>)
    \o (IF s = "completed" /\ job[j].kind = "prepare"
        THEN <<ResultEvent(j, "dataset.ready", 0)>> ELSE <<>>)
    \o <<StateEvent(j, "job.ended", s)>>

\* A mistake EndState does not make: the row's own state instead of the reason.
EndStateOfRow(j, report) == IF job[j].stop = "none" THEN report ELSE job[j].state

\* A stop that was requested decides the end, whatever the run reports.
EndState(j, report) == IF job[j].stop = "none" THEN report ELSE job[j].stop

Finish(j, report) ==
    /\ job[j].state \in {"running", "stopping"}
    /\ LET s == EndState(j, report)
       IN  /\ s = "completed" /\ job[j].kind = "analysis" => job[j].parts > 0
           /\ Commit(j, [job[j] EXCEPT !.state = s,
                                    !.head = IF ShowsResult(j, s) THEN @ + 1 ELSE @],
                     EndEvents(j, s))

\* A changed source invalidates a result once (the bound: again changes no row).
Invalidate(j) ==
    /\ up /\ job[j].state # "none" /\ job[j].valid
    /\ Commit(j, [job[j] EXCEPT !.valid = FALSE],
              <<ResultEvent(j, "result.invalidated", 0)>>)

\* The places of a call at which its receiver exists.
Receiving == {"read", "drowsy", "asleep"}

Notify ==
    /\ unsent
    /\ unsent' = FALSE
    /\ fresh' = [c \in Clients |-> call[c].pc \in Receiving]
    /\ UNCHANGED <<job, log, up, call, late, clientVars, crashes>>

-----------------------------------------------------------------------------
(* One read of the log for a call from start, under the mutex: filtered    *)
(* rows advance the cursor; the first row that does not fit stops it.      *)

Wants(f, e) ==
    /\ f.jobs = {} \/ e.job \in f.jobs
    /\ f.types = {} \/ e.type \in f.types

MatchingIn(l, f, from, to) == {n \in from + 1 .. to : n <= Len(l) /\ Wants(f, l[n])}
Matching(f, from, to) == MatchingIn(log, f, from, to)

\* A revision's event carries its quality and takes two units.
Bytes(S) == Cardinality(S) + Cardinality({n \in S : log[n].type = "result.ready"})

WindowEnd(start) == IF start + Batch < Len(log) THEN start + Batch ELSE Len(log)

Fits(p, n) ==
    LET list == Matching(p.filter, p.start, n)
    IN  Cardinality(list) <= p.limit /\ Bytes(list) <= p.room

\* The last row before the first that does not fit.
Taken(p) ==
    CHOOSE n \in p.start .. WindowEnd(p.start) :
        Fits(p, n) /\ (n = WindowEnd(p.start) \/ ~Fits(p, n + 1))

List(p) == Matching(p.filter, p.start, Taken(p))

\* Mistakes Last does not make: the cursor passes the row that did not fit, or
\* it stays behind the rows that the filter drops.
LastRead(p) == IF Taken(p) < WindowEnd(p.start) THEN Taken(p) + 1 ELSE Taken(p)

LastMatching(p) ==
    CHOOSE n \in p.start .. Taken(p) :
        /\ n = p.start \/ Wants(p.filter, log[n])
        /\ Matching(p.filter, n, Taken(p)) = {}

\* The cursor: rows that the filter drops advance it too.
Last(p) == Taken(p)

TooSmall(p) == Taken(p) < WindowEnd(p.start) /\ List(p) = {}

-----------------------------------------------------------------------------
(* A call: subscribe, read, and then answer or sleep and read again.       *)

Subscribe(c) ==
    /\ call[c].pc = "subscribe"
    /\ call' = [call EXCEPT ![c].pc = "read"]
    /\ fresh' = [fresh EXCEPT ![c] = FALSE]
    /\ UNCHANGED <<jobVars, up, late, clientVars, crashes>>

Answer(c, a) == call' = [call EXCEPT ![c] = [pc |-> "answered", answer |-> a]]

ReadEvents(c) ==
    /\ call[c].pc = "read" /\ call[c].method = "events" /\ ~Locked
    /\ LET p == call[c]
       IN  IF TooSmall(p) THEN Answer(c, Nothing)
           ELSE IF List(p) # {} \/ Last(p) > p.start \/ late[c]
           THEN Answer(c, [pc |-> "page", list |-> List(p), cursor |-> Last(p)])
           ELSE call' = [call EXCEPT ![c].pc = "drowsy"]
    /\ UNCHANGED <<jobVars, up, fresh, late, clientVars, crashes>>

ReadJob(c) ==
    /\ call[c].pc = "read" /\ call[c].method = "wait" /\ ~Locked
    /\ LET j == call[c].job
       IN  IF Terminal(job[j].state) \/ late[c]
           THEN Answer(c, [pc |-> "state", job |-> j,
                           state |-> job[j].state, head |-> job[j].head])
           ELSE call' = [call EXCEPT ![c].pc = "drowsy"]
    /\ UNCHANGED <<jobVars, up, fresh, late, clientVars, crashes>>

\* A mistake Doze does not make: the receiver is made when it is awaited.
DozeUnsubscribed(c) ==
    /\ call[c].pc = "drowsy"
    /\ call' = [call EXCEPT ![c].pc = "asleep"]
    /\ fresh' = [fresh EXCEPT ![c] = FALSE]
    /\ UNCHANGED <<jobVars, up, late, clientVars, crashes>>

\* Between the read and the await the mutex is free.
Doze(c) ==
    /\ call[c].pc = "drowsy"
    /\ call' = [call EXCEPT ![c].pc = "asleep"]
    /\ UNCHANGED <<jobVars, up, fresh, late, clientVars, crashes>>

Wake(c) ==
    /\ call[c].pc = "asleep"
    /\ fresh[c] \/ late[c]
    /\ call' = [call EXCEPT ![c].pc = "read"]
    /\ fresh' = [fresh EXCEPT ![c] = FALSE]
    /\ UNCHANGED <<jobVars, up, late, clientVars, crashes>>

Expire(c) ==
    /\ call[c].pc \notin {"idle", "answered"} /\ ~late[c]
    /\ late' = [late EXCEPT ![c] = TRUE]
    /\ UNCHANGED <<jobVars, up, call, fresh, clientVars, crashes>>

-----------------------------------------------------------------------------
(* The callers.  A client follows the whole log, or one job from a         *)
(* snapshot of it, and passes the cursor it was given back unchanged.      *)

Begin(c, request) ==
    /\ up /\ call[c].pc = "idle"
    /\ call' = [call EXCEPT ![c] = request]
    /\ late' = [late EXCEPT ![c] = FALSE]
    /\ UNCHANGED <<jobVars, up, fresh, clientVars, crashes>>

Unfollowed(c) == call[c].pc = "idle" /\ follow[c] = Nothing

Following(filter, base, view) ==
    [pc |-> "following", filter |-> filter, base |-> base, view |-> view,
     cursor |-> base, got |-> {}]

FollowAll(c, types) ==
    /\ "events" \in Methods /\ Unfollowed(c)
    /\ follow' = [follow EXCEPT ![c] =
            Following([jobs |-> {}, types |-> types], 0, Nothing)]
    /\ UNCHANGED <<jobVars, up, callVars, told, lost, crashes>>

\* The row and the watermark are read in one transaction.
Snapshot(c, j) ==
    /\ "snapshot" \in Methods /\ Unfollowed(c)
    /\ up /\ ~Locked
    /\ job[j].state # "none"
    /\ follow' = [follow EXCEPT ![c] =
            Following([jobs |-> {j}, types |-> {}], Len(log),
                      [pc |-> "row", job |-> j,
                       state |-> job[j].state, head |-> job[j].head])]
    /\ UNCHANGED <<jobVars, up, callVars, told, lost, crashes>>

Poll(c, limit, room) ==
    /\ follow[c] # Nothing
    /\ Begin(c, [pc |-> "subscribe", method |-> "events", filter |-> follow[c].filter,
                 start |-> follow[c].cursor, limit |-> limit, room |-> room])

Wait(c, j) ==
    /\ "wait" \in Methods
    /\ job[j].state # "none"
    /\ Begin(c, [pc |-> "subscribe", method |-> "wait", job |-> j])

Hang(c) ==
    /\ call' = [call EXCEPT ![c] = Idle]
    /\ fresh' = [fresh EXCEPT ![c] = FALSE]
    /\ late' = [late EXCEPT ![c] = FALSE]

Advanced(f, cursor, list) == [f EXCEPT !.cursor = cursor, !.got = f.got \cup list]

Receive(c) ==
    /\ call[c].pc = "answered"
    /\ LET a == call[c].answer
       IN  /\ follow' = IF a.pc = "page"
                        THEN [follow EXCEPT ![c] = Advanced(@, a.cursor, a.list)]
                        ELSE follow
           /\ told' = IF a.pc = "state" /\ Terminal(a.state)
                      THEN [told EXCEPT ![c] = a] ELSE told
    /\ Hang(c)
    /\ UNCHANGED <<jobVars, up, lost, crashes>>

\* The connection fails after the answer was made: the caller keeps its cursor.
LoseAnswer(c) ==
    /\ call[c].pc = "answered" /\ lost < MaxLost
    /\ lost' = lost + 1
    /\ Hang(c)
    /\ UNCHANGED <<jobVars, up, follow, told, crashes>>

-----------------------------------------------------------------------------
(* A kill takes the channel and the calls; the database is reopened.       *)

Crash ==
    /\ up /\ crashes < MaxCrashes
    /\ crashes' = crashes + 1
    /\ up' = FALSE
    /\ unsent' = FALSE
    /\ call' = [c \in Clients |-> Idle]
    /\ fresh' = [c \in Clients |-> FALSE]
    /\ late' = [c \in Clients |-> FALSE]
    /\ UNCHANGED <<job, log, clientVars>>

Recover(j) == ~up /\ Finish(j, "interrupted")

Serve ==
    /\ ~up /\ ~unsent
    /\ \A j \in Jobs : job[j].state \notin {"running", "stopping"}
    /\ up' = TRUE
    /\ UNCHANGED <<jobVars, callVars, clientVars, crashes>>

-----------------------------------------------------------------------------
Work(j) ==
    \/ \E k \in Kinds : Submit(j, k)
    \/ Start(j) \/ Publish(j) \/ Invalidate(j) \/ Recover(j)
    \/ \E r \in Stops : Cancel(j, r)
    \/ \E r \in Reports : up /\ Finish(j, r)

Observe(c) ==
    \/ Subscribe(c) \/ ReadEvents(c) \/ ReadJob(c) \/ Doze(c) \/ Wake(c) \/ Expire(c)

Caller(c) ==
    \/ \E types \in Topics : FollowAll(c, types)
    \/ \E j \in Jobs : Snapshot(c, j) \/ Wait(c, j)
    \/ \E limit \in Limits, room \in Rooms : Poll(c, limit, room)
    \/ Receive(c) \/ LoseAnswer(c)

Next ==
    \/ \E j \in Jobs : Work(j)
    \/ \E c \in Clients : Observe(c) \/ Caller(c)
    \/ Notify \/ Crash \/ Serve

Spec == Init /\ [][Next]_vars

(***************************************************************************)
(* Fairness: the runtime's tasks run, the mutex is not starved, recovery   *)
(* and deadlines of waits happen, and a follower keeps polling with room   *)
(* for an event.  Deadlines of event polls are not needed.                 *)
(***************************************************************************)
FairCall(c) ==
    /\ WF_vars(Subscribe(c)) /\ SF_vars(ReadEvents(c)) /\ SF_vars(ReadJob(c))
    /\ WF_vars(Doze(c)) /\ WF_vars(Wake(c)) /\ WF_vars(Receive(c))
    /\ WF_vars(call[c] # Idle /\ call[c].pc # "answered"
               /\ call[c].method = "wait" /\ Expire(c))
    /\ SF_vars(\E limit \in Limits : Poll(c, limit, 2))

FairSpec ==
    /\ Spec
    /\ WF_vars(Notify) /\ WF_vars(Serve)
    /\ \A j \in Jobs : WF_vars(Recover(j))
    /\ \A c \in Clients : FairCall(c)

-----------------------------------------------------------------------------
(* Properties.                                                             *)

States == {"none", "queued", "running", "stopping"} \cup Ends

Rows ==
    [state : States,
     kind : Kinds \cup {"none"}, stop : StopReasons \cup {"none"},
     parts : 0 .. MaxParts, head : 0 .. MaxParts + 1, valid : BOOLEAN]

Entries ==
    [job : Jobs, type : EventTypes,
     state : {"none", "queued", "running"} \cup Ends, rev : 0 .. MaxParts + 1]

Filters == [jobs : SUBSET Jobs, types : SUBSET EventTypes]

Views == {Nothing} \cup [pc : {"row"}, job : Jobs, state : States, head : Nat]

Told == [pc : {"state"}, job : Jobs, state : States, head : Nat]

Follows ==
    {Nothing} \cup
    [pc : {"following"}, filter : Filters, base : Nat, view : Views,
     cursor : Nat, got : SUBSET Nat]

Places == {"subscribe"} \cup Receiving

EventCalls ==
    [pc : Places, method : {"events"}, filter : Filters, start : Nat,
     limit : Limits, room : Rooms]

WaitCalls == [pc : Places, method : {"wait"}, job : Jobs]

Pages == [pc : {"page"}, list : SUBSET Nat, cursor : Nat]

AnsweredCalls == [pc : {"answered"}, answer : {Nothing} \cup Told \cup Pages]

Calls == {Idle} \cup EventCalls \cup WaitCalls \cup AnsweredCalls

\* The rows, events, calls and what the callers hold have their types.
TypeOK ==
    /\ job \in [Jobs -> Rows]
    /\ log \in Seq(Entries)
    /\ unsent \in BOOLEAN /\ up \in BOOLEAN
    /\ call \in [Clients -> Calls]
    /\ fresh \in [Clients -> BOOLEAN] /\ late \in [Clients -> BOOLEAN]
    /\ follow \in [Clients -> Follows]
    /\ told \in [Clients -> {Nothing} \cup Told]
    /\ lost \in 0 .. MaxLost /\ crashes \in 0 .. MaxCrashes

\* events, wait_response: a call that sleeps without a notification waiting
\* for it has nothing to return.  A commit between its read of the database
\* and its await cannot be slept through.
NoLostWakeup ==
    \A c \in Clients :
        call[c].pc = "asleep" /\ ~fresh[c] /\ ~unsent =>
            IF call[c].method = "events" THEN Len(log) <= call[c].start
            ELSE ~Terminal(job[call[c].job].state)

\* events: whatever the windows, limits, sizes, lost answers and restarts, a
\* caller that passes its cursor on holds exactly the events of its filter
\* between where it began and its cursor, and the page on its way to it holds
\* exactly those that follow: none twice, none left out, none out of order.
EventsOnceInOrder ==
    \A c \in Clients :
        follow[c] # Nothing =>
            /\ follow[c].base <= follow[c].cursor /\ follow[c].cursor <= Len(log)
            /\ follow[c].got = Matching(follow[c].filter, follow[c].base, follow[c].cursor)
            /\ call[c].pc = "answered" /\ call[c].answer.pc = "page" =>
                   call[c].answer.list = Matching(follow[c].filter, follow[c].cursor,
                                                  call[c].answer.cursor)

\* What a caller makes of a snapshot and the events it received since: the
\* state and the revision the latest of them tell, or else the snapshot.
Latest(c, j, types) ==
    LET S == {n \in follow[c].got : log[n].job = j /\ log[n].type \in types}
    IN  IF S = {} THEN Nothing ELSE log[CHOOSE n \in S : \A m \in S : m <= n]

Mirror(c, j) ==
    LET view == IF follow[c].view = Nothing THEN Absent ELSE follow[c].view
        life == Latest(c, j, {"job.accepted", "job.started", "job.ended"})
        ready == Latest(c, j, {"result.ready"})
    IN  <<IF life = Nothing THEN Visible(view.state) ELSE life.state,
          IF ready = Nothing THEN view.head ELSE ready.rev>>

\* snapshot, events: a caller that took the snapshot's cursor and has read to
\* the end of the log knows each job's state and revision: every change of
\* them wrote its event in the same transaction, and the watermark neither
\* skips an event nor is behind the row it came with.
MirrorIsCurrent ==
    \A c \in Clients :
        follow[c] # Nothing /\ follow[c].filter.types = {}
                           /\ follow[c].cursor >= Len(log) =>
            \A j \in IF follow[c].filter.jobs = {} THEN Jobs ELSE follow[c].filter.jobs :
                Mirror(c, j) = <<Visible(job[j].state), job[j].head>>

\* The log tells each job's life: accepted first and once, revisions in
\* ascending order, and after the end nothing but an invalidation, so that a
\* caller who sees the end has seen every revision the job will ever have.
LogTellsEachJob ==
    \A m, n \in 1 .. Len(log) :
        m < n /\ log[m].job = log[n].job =>
            /\ log[n].type # "job.accepted"
            /\ log[m].type = "job.ended" => log[n].type = "result.invalidated"
            /\ log[m].type = "result.ready" /\ log[n].type = "result.ready" =>
                   log[m].rev < log[n].rev

\* wait_response: a terminal state and revision a caller was told are final,
\* whatever commits, late reports and restarts follow.
TerminalAnswersHold ==
    \A c \in Clients :
        told[c] # Nothing =>
            /\ job[told[c].job].state = told[c].state
            /\ job[told[c].job].head = told[c].head

\* events: a follower that keeps polling catches up with the log, also when
\* windows full of filtered events lie between it and the next one it wants,
\* with lost answers and restarts in between, and without any deadline.
FollowersCatchUp ==
    \A c \in Clients :
        follow[c] # Nothing ~> (follow[c] # Nothing /\ follow[c].cursor = Len(log))
=============================================================================
