------------------------------ MODULE Service ------------------------------
(***************************************************************************)
(* How clients reach a coordinator, and what a request with an idempotency *)
(* key does.                                                               *)
(*                                                                         *)
(* Any client may start a coordinator.  Whoever takes the workspace lock   *)
(* opens the database, binds the socket, publishes a descriptor of itself  *)
(* and serves, until it is idle, told to stop, or killed.  A client that   *)
(* loses its connection does not know whether its request was executed: it *)
(* repeats it with the same key, and the table idempotency answers.        *)
(***************************************************************************)
EXTENDS Integers

CONSTANTS
    Procs,      \* coordinator processes
    Clients,
    Conns,      \* connections
    Keys,       \* idempotency keys
    Asks,       \* what each client may ask for: a key, a method, parameters
    MaxEnds,    \* bound: coordinators that end, for whatever reason
    MaxLost,    \* bound: calls given up by their client, connections that fail
    None        \* no process, connection or request

Requests == UNION {Asks[c] : c \in Clients}

ASSUME ServiceAssumption ==
    /\ None \notin Procs /\ None \notin Conns /\ None \notin Requests
    /\ \A r \in Requests : r.key \in Keys
    /\ \A r, s \in Requests : None # [method |-> r.method, body |-> s.body]  \* no hash
    /\ MaxEnds \in Nat /\ MaxLost \in Nat

VARIABLES
    proc,        \* where each process stands in serve
    socket,      \* the process whose listener the socket's path leads to
    endpoint,    \* the process the descriptor names
    conn,        \* a connection, and the task that serves it
    client,      \* where each client stands in connect and in its session
    want,        \* the request a client has no answer to yet
    remembered,  \* rows of idempotency
    executed,    \* how often a request was executed under each key
    expired,     \* what the requests read has expired
    ends, lost

places == <<proc, socket, endpoint, ends>>
rows == <<remembered, executed, expired>>
vars == <<proc, socket, endpoint, conn, client, want,
          remembered, executed, expired, ends, lost>>

-----------------------------------------------------------------------------
Listening == {"bound", "serving"}

\* A mistake Holding does not make: the lock is let go with the listener.
HoldingServing == {"locked", "bound", "serving"}

Holding == {"locked", "bound", "serving", "closing", "unlinked"}
Running == {"started", "unlocked"} \cup Holding

\* The hash leaves out the key, and how long and for how much the caller waits.
Hash(r) == [method |-> r.method, body |-> r.body]

Unknown == [hash |-> None, job |-> 0]
NoAnswer == [kind |-> "none", job |-> 0]
Conflict == [kind |-> "conflict", job |-> 0]
Refused == [kind |-> "refused", job |-> 0]
Accepted(j) == [kind |-> "accepted", job |-> j]

Free == [state |-> "free", proc |-> None, req |-> None,
         known |-> Unknown, ans |-> NoAnswer]
Idle == [pc |-> "idle", conn |-> None]

Init ==
    /\ proc = [p \in Procs |-> "gone"]
    /\ socket = None /\ endpoint = None
    /\ conn = [n \in Conns |-> Free]
    /\ client = [c \in Clients |-> Idle]
    /\ want = [c \in Clients |-> None]
    /\ remembered = [k \in Keys |-> Unknown]
    /\ executed = [k \in Keys |-> 0]
    /\ expired = FALSE
    /\ ends = 0 /\ lost = 0

-----------------------------------------------------------------------------
(* serve.                                                                  *)

Move(p, from, to) == proc[p] = from /\ proc' = [proc EXCEPT ![p] = to]

Locked == \E p \in Procs : proc[p] \in Holding

\* flock: whoever finds the lock taken exits with success.
TakeLock(p) ==
    /\ Move(p, "started", IF Locked THEN "gone" ELSE "locked")
    /\ UNCHANGED <<socket, endpoint, conn, client, want, rows, ends, lost>>

\* The database is opened, and a socket that a killed coordinator left is replaced.
Bind(p) ==
    /\ Move(p, "locked", "bound")
    /\ socket' = p
    /\ UNCHANGED <<endpoint, conn, client, want, rows, ends, lost>>

Publish(p) ==
    /\ Move(p, "bound", "serving")
    /\ endpoint' = p
    /\ UNCHANGED <<socket, conn, client, want, rows, ends, lost>>

Active(p) ==
    \E n \in Conns : conn[n].proc = p /\ conn[n].state \notin {"free", "backlog"}

\* The serving loop ends; tasks of connections go on.
Leave(p) ==
    /\ ends < MaxEnds /\ ends' = ends + 1
    /\ Move(p, "serving", "closing")
    /\ UNCHANGED <<socket, endpoint, conn, client, want, rows, lost>>

IdleExit(p) == ~Active(p) /\ Leave(p)

Terminate(p) == Leave(p)

\* The paths are removed, wherever they lead.
RemoveFiles(p) ==
    /\ Move(p, "closing", "unlinked")
    /\ socket' = None /\ endpoint' = None
    /\ UNCHANGED <<conn, client, want, rows, ends, lost>>

Unlock(p) ==
    /\ Move(p, "unlinked", "unlocked")
    /\ UNCHANGED <<socket, endpoint, conn, client, want, rows, ends, lost>>

Owned(n) == \E c \in Clients : client[c].conn = n

\* What nobody waits for ends with its process; a client has yet to notice.
TasksEnd(p) ==
    conn' = [n \in Conns |-> IF conn[n].proc = p /\ ~Owned(n) THEN Free ELSE conn[n]]

Exit(p) ==
    /\ Move(p, "unlocked", "gone")
    /\ TasksEnd(p)
    /\ UNCHANGED <<socket, endpoint, client, want, rows, ends, lost>>

\* Killed, or a start that fails: the lock goes, socket and descriptor stay.
Crash(p) ==
    /\ ends < MaxEnds /\ ends' = ends + 1
    /\ proc[p] \in Running
    /\ proc' = [proc EXCEPT ![p] = "gone"]
    /\ TasksEnd(p)
    /\ UNCHANGED <<socket, endpoint, client, want, rows, lost>>

-----------------------------------------------------------------------------
(* A request on the coordinator's side: existing, resolve, submit.         *)

Serves(n) == conn[n].proc \in Procs /\ proc[conn[n].proc] \in Running

\* Nobody reads the answer of a call that was given up.
Reply(n, a) ==
    conn' = [conn EXCEPT ![n] = IF Owned(n) THEN [@ EXCEPT !.state = "answered", !.ans = a]
                                ELSE Free]

\* A mistake AnswerOf does not make: a row of the table for an answer.
AnswerOfRow(entry, r) == IF entry.hash = Hash(r) THEN entry ELSE Conflict

AnswerOf(entry, r) == IF entry.hash = Hash(r) THEN Accepted(entry.job) ELSE Conflict

\* A mistake Look does not make: what a request reads is looked up first.
LookResolved(n) ==
    /\ conn[n].state = "sent" /\ Serves(n)
    /\ LET r == conn[n].req
           entry == remembered[r.key]
       IN  IF expired THEN Reply(n, Refused)
           ELSE IF entry # Unknown THEN Reply(n, AnswerOf(entry, r))
           ELSE conn' = [conn EXCEPT ![n].state = "looked"]
    /\ UNCHANGED <<places, client, want, rows, lost>>

\* An inspection makes its query from what it inspects before it looks.
Look(n) ==
    /\ conn[n].state = "sent" /\ Serves(n)
    /\ LET r == conn[n].req
           entry == remembered[r.key]
       IN  IF r.method = "inspect" /\ expired THEN Reply(n, Refused)
           ELSE IF entry # Unknown THEN Reply(n, AnswerOf(entry, r))
           ELSE conn' = [conn EXCEPT ![n].state = "looked"]
    /\ UNCHANGED <<places, client, want, rows, lost>>

Resolve(n) ==
    /\ conn[n].state = "looked" /\ Serves(n)
    /\ IF expired THEN Reply(n, Refused)
       ELSE conn' = [conn EXCEPT ![n].state = "resolved"]
    /\ UNCHANGED <<places, client, want, rows, lost>>

\* A mistake Submit does not make: it relies on what the task has resolved.
SubmitResolved(n) ==
    /\ conn[n].state = "resolved" /\ Serves(n)
    /\ LET r == conn[n].req
           entry == remembered[r.key]
           job == executed[r.key] + 1
       IN  IF entry # Unknown THEN Reply(n, AnswerOf(entry, r)) /\ UNCHANGED rows
           ELSE /\ executed' = [executed EXCEPT ![r.key] = job]
                /\ remembered' = [remembered EXCEPT
                                      ![r.key] = [hash |-> Hash(r), job |-> job]]
                /\ Reply(n, Accepted(job))
                /\ UNCHANGED expired
    /\ UNCHANGED <<places, client, want, lost>>

\* A mistake Submit does not make: it relies on the first look at the key.
SubmitUnchecked(n) ==
    /\ conn[n].state = "resolved" /\ Serves(n)
    /\ LET r == conn[n].req
           job == executed[r.key] + 1
       IN  IF expired THEN Reply(n, Refused) /\ UNCHANGED rows
           ELSE /\ executed' = [executed EXCEPT ![r.key] = job]
                /\ remembered' = [remembered EXCEPT
                                      ![r.key] = [hash |-> Hash(r), job |-> job]]
                /\ Reply(n, Accepted(job))
                /\ UNCHANGED expired
    /\ UNCHANGED <<places, client, want, lost>>

\* One transaction: the key is looked up again, the inputs are, and the job
\* is inserted together with the row that remembers it.
Submit(n) ==
    /\ conn[n].state = "resolved" /\ Serves(n)
    /\ LET r == conn[n].req
           entry == remembered[r.key]
           job == executed[r.key] + 1
       IN  IF entry # Unknown THEN Reply(n, AnswerOf(entry, r)) /\ UNCHANGED rows
           ELSE IF expired THEN Reply(n, Refused) /\ UNCHANGED rows
           ELSE /\ executed' = [executed EXCEPT ![r.key] = job]
                /\ remembered' = [remembered EXCEPT
                                      ![r.key] = [hash |-> Hash(r), job |-> job]]
                /\ Reply(n, Accepted(job))
                /\ UNCHANGED expired
    /\ UNCHANGED <<places, client, want, lost>>

\* A collection; the rows of idempotency stay.
Expire ==
    /\ ~expired /\ expired' = TRUE
    /\ UNCHANGED <<places, conn, client, want, remembered, executed, lost>>

-----------------------------------------------------------------------------
(* A client: connect, session, call.                                       *)

Reachable(p) == socket = p /\ proc[p] \in Listening

Ask(c, r) ==
    /\ want[c] = None
    /\ want' = [want EXCEPT ![c] = r]
    /\ UNCHANGED <<places, conn, client, rows, lost>>

Dial(c) ==
    /\ want[c] # None /\ client[c].conn = None
    /\ \E p \in Procs, n \in Conns :
          /\ Reachable(p) /\ conn[n] = Free
          /\ conn' = [conn EXCEPT ![n] = [Free EXCEPT !.state = "backlog", !.proc = p]]
          /\ client' = [client EXCEPT ![c] = [pc |-> "connected", conn |-> n]]
    /\ UNCHANGED <<places, want, rows, lost>>

\* A new process: nothing knows its identity.
Unused(p) ==
    /\ proc[p] = "gone" /\ socket # p /\ endpoint # p
    /\ \A n \in Conns : conn[n].proc # p

\* A mistake Launch does not make: a socket left behind passes for a coordinator.
LaunchWithoutSocket(c) ==
    /\ want[c] # None /\ client[c].pc = "idle"
    /\ socket = None
    /\ \E p \in Procs :
          /\ Unused(p)
          /\ proc' = [proc EXCEPT ![p] = "started"]
          /\ client' = [client EXCEPT ![c] = [Idle EXCEPT !.pc = "starting"]]
    /\ UNCHANGED <<socket, endpoint, conn, want, rows, ends, lost>>

Launch(c) ==
    /\ want[c] # None /\ client[c].pc = "idle"
    /\ \A p \in Procs : ~Reachable(p)
    /\ \E p \in Procs :
          /\ Unused(p)
          /\ proc' = [proc EXCEPT ![p] = "started"]
          /\ client' = [client EXCEPT ![c] = [Idle EXCEPT !.pc = "starting"]]
    /\ UNCHANGED <<socket, endpoint, conn, want, rows, ends, lost>>

\* The process it started failed, or nobody was there for five seconds.
StartFails(c) ==
    /\ client[c].pc = "starting"
    /\ client' = [client EXCEPT ![c] = Idle]
    /\ UNCHANGED <<places, conn, want, rows, lost>>

Accept(n) ==
    /\ conn[n].state = "backlog" /\ Serves(n) /\ proc[conn[n].proc] = "serving"
    /\ conn' = [conn EXCEPT ![n].state = "greeting"]
    /\ UNCHANGED <<places, client, want, rows, lost>>

HangUp(c) ==
    /\ client' = [client EXCEPT ![c] = Idle]
    /\ conn' = [conn EXCEPT ![client[c].conn] =
            IF @.state \in {"sent", "looked", "resolved"} /\ Serves(client[c].conn)
            THEN @ ELSE Free]

At(c, state) == client[c].conn # None /\ conn[client[c].conn].state = state

\* The handshake is answered; if the descriptor names who answered, the
\* request follows.
Send(c) ==
    /\ want[c] # None /\ At(c, "greeting") /\ Serves(client[c].conn)
    /\ LET n == client[c].conn
       IN  IF endpoint = conn[n].proc
           THEN /\ conn' = [conn EXCEPT ![n] =
                        [@ EXCEPT !.state = "sent", !.req = want[c],
                                  !.known = remembered[want[c].key]]]
                /\ UNCHANGED client
           ELSE HangUp(c)
    /\ UNCHANGED <<places, want, rows, lost>>

Receive(c) ==
    /\ At(c, "answered")
    /\ want' = [want EXCEPT ![c] = None]
    /\ HangUp(c)
    /\ UNCHANGED <<places, rows, lost>>

\* A call times out or is cancelled, or its connection fails.
Abandon(c) ==
    /\ client[c].conn # None
    /\ lost < MaxLost /\ lost' = lost + 1
    /\ HangUp(c)
    /\ UNCHANGED <<places, want, rows>>

\* The other end is gone, or the listener before it accepted.
Break(c) ==
    /\ client[c].conn # None
    /\ LET n == client[c].conn
       IN  \/ ~Serves(n)
           \/ conn[n].state = "backlog" /\ proc[conn[n].proc] \notin Listening
    /\ HangUp(c)
    /\ UNCHANGED <<places, want, rows, lost>>

-----------------------------------------------------------------------------
Progress(p) ==
    \/ TakeLock(p) \/ Bind(p) \/ Publish(p)
    \/ RemoveFiles(p) \/ Unlock(p) \/ Exit(p)

Coordinator(p) == Progress(p) \/ IdleExit(p) \/ Terminate(p) \/ Crash(p)

Task(n) == Accept(n) \/ Look(n) \/ Resolve(n) \/ Submit(n)

Call(c) == Dial(c) \/ Send(c) \/ Receive(c) \/ Break(c)

Client(c) ==
    \/ \E r \in Asks[c] : Ask(c, r)
    \/ Call(c) \/ Launch(c) \/ StartFails(c) \/ Abandon(c)

Next ==
    \/ \E p \in Procs : Coordinator(p)
    \/ \E n \in Conns : Task(n)
    \/ \E c \in Clients : Client(c)
    \/ Expire

Spec == Init /\ [][Next]_vars

(***************************************************************************)
(* Fairness: processes and their tasks go on, and a client that has no     *)
(* answer repeats its request with the same key, as the guide asks it to.  *)
(***************************************************************************)
FairSpec ==
    /\ Spec
    /\ \A p \in Procs : WF_vars(Progress(p))
    /\ \A n \in Conns : WF_vars(Task(n))
    /\ \A c \in Clients : WF_vars(Call(c)) /\ WF_vars(Launch(c)) /\ WF_vars(StartFails(c))

-----------------------------------------------------------------------------
(* Properties.                                                             *)

Hashes == [method : {r.method : r \in Requests}, body : {r.body : r \in Requests}]
Entries == [hash : Hashes, job : Nat]
Answers == [kind : {"none", "accepted", "conflict", "refused"}, job : Nat]
ConnStates == {"free", "backlog", "greeting", "sent", "looked", "resolved", "answered"}

\* Processes, files, connections, clients and rows have their types.
TypeOK ==
    /\ proc \in [Procs -> {"gone"} \cup Running]
    /\ socket \in Procs \cup {None} /\ endpoint \in Procs \cup {None}
    /\ conn \in [Conns ->
          [state : ConnStates, proc : Procs \cup {None}, req : Requests \cup {None},
           known : Entries \cup {Unknown}, ans : Answers]]
    /\ client \in [Clients ->
          [pc : {"idle", "starting", "connected"}, conn : Conns \cup {None}]]
    /\ want \in [Clients -> Requests \cup {None}]
    /\ remembered \in [Keys -> Entries \cup {Unknown}]
    /\ executed \in [Keys -> Nat]
    /\ expired \in BOOLEAN
    /\ ends \in 0 .. MaxEnds /\ lost \in 0 .. MaxLost

\* serve: the process that serves holds the socket's path and the descriptor.
\* A coordinator that leaves removes them by name, and must not remove those
\* of its successor, whom no client could then reach or replace.
OwnerIsReachable ==
    \A p \in Procs :
        /\ proc[p] = "serving" => endpoint = p
        /\ proc[p] \in Listening => socket = p

\* existing, submit: under a key at most one request is ever executed, whichever
\* calls are given up, repeated, served at once or cut off by the end of a
\* coordinator; every answer tells of that request, and a conflict means that
\* another one took the key.
KeysDecideOnce ==
    /\ \A k \in Keys :
          /\ executed[k] \in {0, 1}
          /\ executed[k] = remembered[k].job
          /\ remembered[k] = Unknown <=> executed[k] = 0
    /\ \A n \in Conns :
          conn[n].state = "answered" =>
              LET r == conn[n].req
                  entry == remembered[r.key]
              IN  /\ conn[n].ans.kind = "accepted" =>
                         entry = [hash |-> Hash(r), job |-> conn[n].ans.job]
                  /\ conn[n].ans.kind = "conflict" =>
                         entry # Unknown /\ entry.hash # Hash(r)

\* What the table says when a request is sent is what it is answered.
Answered(n) == conn[n].known # Unknown => conn[n].ans = AnswerOf(conn[n].known, conn[n].req)

\* dispatch: a query, analysis, preparation, snapshot or export that was accepted
\* before it is repeated is found again, also when what it reads has expired since.
AcceptedIsFound ==
    \A n \in Conns :
        conn[n].state = "answered" /\ conn[n].req.method # "inspect" => Answered(n)

\* The same of every request, as src/docs/usage.md:127 has it: "An optional
\* `--idempotency-key KEY` makes retried creation requests refer to the same job."
RetryRefersToJob ==
    \A n \in Conns :
        conn[n].state = "answered" /\ conn[n].known.hash = Hash(conn[n].req) => Answered(n)

\* The answer on its way to a client.
AnswerAt(c) == IF At(c, "answered") THEN conn[client[c].conn].ans.kind ELSE "none"

Contract == INSTANCE RequestContract
    WITH taken <- [k \in Keys |-> remembered[k].hash], answer <- [c \in Clients |-> AnswerAt(c)]

\* existing, submit, call: to its clients a request is executed in one step, at most once
\* under its key and only while one of them waits for the answer, though the call that
\* executes it may be given up and repeated, and its process left, before; what a
\* client is told is true of the request it waits for.
ImplementsRequestContract == Contract!Spec

\* connect, serve: a client that goes on asking is answered, over coordinators
\* that start at once, leave while it connects, or die and leave their socket.
EventuallyAnswered == \A c \in Clients : want[c] # None ~> want[c] = None
=============================================================================
