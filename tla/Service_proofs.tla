-------------------------- MODULE Service_proofs --------------------------
(***************************************************************************)
(* Theorems about Service, for any processes, clients, connections, keys   *)
(* and requests, and any number of coordinators that end and of calls that *)
(* are given up.                                                           *)
(***************************************************************************)
EXTENDS Service, TLAPS

\* The lock has one holder.
OneOwner ==
    \A p, q \in Procs : proc[p] \in Holding /\ proc[q] \in Holding => p = q

\* Under a key at most one request is executed, and the row tells of it.
RowsAgree ==
    \A k \in Keys :
        /\ executed[k] \in {0, 1}
        /\ executed[k] = remembered[k].job
        /\ remembered[k] = Unknown <=> executed[k] = 0

Asked == {"sent", "looked", "resolved", "answered"}

\* What was known when a request was sent is known still, and whoever got past
\* the first lookup knew nothing then.
KnownStays(n) ==
    LET c == conn[n]
    IN  /\ c.state \in Asked => c.req \in Requests
        /\ c.state \in Asked /\ c.known # Unknown => remembered[c.req.key] = c.known
        /\ c.state \in {"looked", "resolved"} => c.known = Unknown

\* An answer tells of the row under its key, which is there, or of none.
AnswerTold(n) ==
    LET c == conn[n]
        entry == remembered[c.req.key]
    IN  c.state = "answered" =>
            /\ c.ans.kind = "accepted" =>
                   entry # Unknown /\ entry = [hash |-> Hash(c.req), job |-> c.ans.job]
            /\ c.ans.kind = "conflict" =>
                   entry # Unknown /\ entry.hash # Hash(c.req)
            /\ c.req.method # "inspect" => Answered(n)

Told == \A n \in Conns : KnownStays(n) /\ AnswerTold(n)

ConnType ==
    [state : ConnStates, proc : Procs \cup {None}, req : Requests \cup {None},
     known : Entries \cup {Unknown}, ans : Answers]

ClientType ==
    [pc : {"idle", "starting", "connected"}, conn : Conns \cup {None}]

\* The inductive invariant.
SInv == TypeOK /\ OneOwner /\ OwnerIsReachable /\ RowsAgree /\ Told

-----------------------------------------------------------------------------
(* The first state.                                                        *)

LEMMA FreeType == Free \in ConnType
<1>1. NoAnswer \in Answers
  BY DEF NoAnswer, Answers
<1> QED
  BY <1>1 DEF Free, ConnType, ConnStates

LEMMA InitSInv == Init => SInv
<1> SUFFICES ASSUME Init PROVE SInv
  OBVIOUS
<1>1. TypeOK
  <2>1. Free \in ConnType
    BY FreeType
  <2>2. Unknown \in Entries \cup {Unknown} /\ Idle \in ClientType
    BY DEF Idle, ClientType
  <2>3. conn \in [Conns -> ConnType] /\ client \in [Clients -> ClientType]
    BY <2>1, <2>2 DEF Init
  <2>4. remembered \in [Keys -> Entries \cup {Unknown}]
    BY <2>2 DEF Init
  <2>5. /\ proc \in [Procs -> {"gone"} \cup Running]
        /\ socket \in Procs \cup {None} /\ endpoint \in Procs \cup {None}
    BY DEF Init
  <2>6. /\ want \in [Clients -> Requests \cup {None}]
        /\ executed \in [Keys -> Nat] /\ expired \in BOOLEAN
    BY DEF Init
  <2>7. ends \in 0 .. MaxEnds /\ lost \in 0 .. MaxLost
    BY ServiceAssumption DEF ServiceAssumption, Init
  <2> QED
    BY <2>3, <2>4, <2>5, <2>6, <2>7 DEF TypeOK, ConnType, ClientType
<1>2. OneOwner /\ OwnerIsReachable
  BY DEF Init, OneOwner, OwnerIsReachable, Holding, Listening
<1>3. RowsAgree
  BY DEF Init, RowsAgree, Unknown
<1>4. Told
  BY DEF Init, Told, KnownStays, AnswerTold, Asked, Free
<1> QED
  BY <1>1, <1>2, <1>3, <1>4 DEF SInv

-----------------------------------------------------------------------------
(* Who owns the workspace.                                                 *)

\* Every step of a coordinator keeps the types of what it changes, the one
\* holder of the lock, and the files of who serves.
LEMMA CoordinatorOwns ==
    ASSUME TypeOK, OneOwner, OwnerIsReachable, NEW p \in Procs, Coordinator(p)
    PROVE  /\ proc' \in [Procs -> {"gone"} \cup Running]
           /\ socket' \in Procs \cup {None} /\ endpoint' \in Procs \cup {None}
           /\ ends' \in 0 .. MaxEnds
           /\ OneOwner' /\ OwnerIsReachable'
<1> USE DEF TypeOK, OneOwner, OwnerIsReachable, Move, Holding, Running, Listening
<1>1. CASE TakeLock(p)
  BY <1>1 DEF TakeLock, Locked
<1>2. CASE Bind(p)
  BY <1>2 DEF Bind
<1>3. CASE Publish(p)
  BY <1>3 DEF Publish
<1>4. CASE Leave(p)
  BY <1>4, ServiceAssumption DEF ServiceAssumption, Leave
<1>5. CASE RemoveFiles(p)
  BY <1>5 DEF RemoveFiles
<1>6. CASE Unlock(p)
  BY <1>6 DEF Unlock
<1>7. CASE Exit(p)
  BY <1>7 DEF Exit
<1>8. CASE Crash(p)
  BY <1>8, ServiceAssumption DEF ServiceAssumption, Crash
<1> QED
  BY <1>1, <1>2, <1>3, <1>4, <1>5, <1>6, <1>7, <1>8
  DEF Coordinator, Progress, IdleExit, Terminate

\* A client adds a process that has nothing yet.
LEMMA LaunchOwns ==
    ASSUME TypeOK, OneOwner, OwnerIsReachable, NEW c \in Clients, Launch(c)
    PROVE  /\ proc' \in [Procs -> {"gone"} \cup Running]
           /\ socket' \in Procs \cup {None} /\ endpoint' \in Procs \cup {None}
           /\ OneOwner' /\ OwnerIsReachable'
BY DEF Launch, Unused, TypeOK, OneOwner, OwnerIsReachable, Holding, Running, Listening

-----------------------------------------------------------------------------
(* What a request may be answered.                                         *)

\* The types of connections, clients, wishes and rows.
DataOK ==
    /\ conn \in [Conns -> ConnType]
    /\ client \in [Clients -> ClientType]
    /\ want \in [Clients -> Requests \cup {None}]
    /\ remembered \in [Keys -> Entries \cup {Unknown}]
    /\ executed \in [Keys -> Nat]

LEMMA TypeGivesData == TypeOK => DataOK
BY DEF TypeOK, DataOK, ConnType, ClientType

\* A connection that stays as it is, or is free, or is on its way keeps what is
\* told of it while the table stays.
LEMMA Elsewhere ==
    ASSUME NEW n \in Conns, KnownStays(n), AnswerTold(n), UNCHANGED remembered,
           conn'[n] = conn[n] \/ conn'[n].state \notin Asked
    PROVE  KnownStays(n)' /\ AnswerTold(n)'
<1>1. CASE conn'[n] = conn[n]
  BY <1>1 DEF KnownStays, AnswerTold, Answered
<1>2. CASE conn'[n].state \notin Asked
  BY <1>2 DEF KnownStays, AnswerTold, Asked
<1> QED
  BY <1>1, <1>2

\* The replies of a task: the connection is answered, or free.
LEMMA Replies ==
    ASSUME DataOK, NEW n \in Conns, NEW a \in Answers, Reply(n, a)
    PROVE  /\ conn' \in [Conns -> ConnType]
           /\ \A m \in Conns \ {n} : conn'[m] = conn[m]
           /\ \/ conn'[n].state = "free"
              \/ /\ conn'[n].state = "answered" /\ conn'[n].ans = a
                 /\ conn'[n].req = conn[n].req /\ conn'[n].known = conn[n].known
<1>1. CASE Owned(n)
  BY <1>1 DEF Reply, DataOK, ConnType, ConnStates
<1>2. CASE ~Owned(n)
  BY <1>2, FreeType DEF Reply, DataOK, Free
<1> QED
  BY <1>1, <1>2

LEMMA RefusedIsAnswer == Refused \in Answers /\ Refused.kind = "refused"
BY DEF Refused, Answers

\* What the table says of a request is an answer.
LEMMA AnswerOfType ==
    ASSUME NEW entry \in Entries \cup {Unknown}, NEW r
    PROVE  AnswerOf(entry, r) \in Answers
BY DEF AnswerOf, Accepted, Conflict, Answers, Entries, Unknown

\* An entry of the table answers truly.
LEMMA AnswerOfTold ==
    ASSUME NEW entry \in Entries, NEW r
    PROVE  /\ AnswerOf(entry, r).kind = "accepted" =>
                  entry = [hash |-> Hash(r), job |-> AnswerOf(entry, r).job]
           /\ AnswerOf(entry, r).kind = "conflict" => entry.hash # Hash(r)
BY DEF AnswerOf, Accepted, Conflict, Entries

\* A step that leaves the table, and connections other than free ones and one
\* that is not past its handshake, keeps what is told.
LEMMA QuietStep ==
    ASSUME Told, UNCHANGED remembered,
           \A n \in Conns : conn'[n] = conn[n] \/ conn'[n].state \notin Asked
    PROVE  Told'
BY Elsewhere DEF Told

LEMMA FreeUnasked == Free.state \notin Asked
BY DEF Free, Asked

\* A reply that leaves the table and answers as the table does.
LEMMA RepliedTold ==
    ASSUME DataOK, Told, UNCHANGED remembered, NEW n \in Conns, conn[n].state \in Asked,
           NEW a \in Answers, Reply(n, a),
           a.kind = "accepted" =>
               /\ remembered[conn[n].req.key] # Unknown
               /\ remembered[conn[n].req.key] =
                      [hash |-> Hash(conn[n].req), job |-> a.job],
           a.kind = "conflict" =>
               /\ remembered[conn[n].req.key] # Unknown
               /\ remembered[conn[n].req.key].hash # Hash(conn[n].req),
           conn[n].req.method # "inspect" /\ conn[n].known # Unknown =>
               a = AnswerOf(conn[n].known, conn[n].req)
    PROVE  conn' \in [Conns -> ConnType] /\ Told'
<1>1. /\ conn' \in [Conns -> ConnType]
      /\ \A m \in Conns \ {n} : conn'[m] = conn[m]
      /\ \/ conn'[n].state = "free"
         \/ /\ conn'[n].state = "answered" /\ conn'[n].ans = a
            /\ conn'[n].req = conn[n].req /\ conn'[n].known = conn[n].known
  BY Replies
<1>2. \A m \in Conns \ {n} : KnownStays(m)' /\ AnswerTold(m)'
  BY <1>1, Elsewhere DEF Told
<1>3. CASE conn'[n].state = "free"
  <2>1. KnownStays(n)' /\ AnswerTold(n)'
    BY <1>3 DEF KnownStays, AnswerTold, Asked
  <2> QED
    BY <1>1, <1>2, <2>1 DEF Told
<1>4. CASE /\ conn'[n].state = "answered" /\ conn'[n].ans = a
           /\ conn'[n].req = conn[n].req /\ conn'[n].known = conn[n].known
  <2>1. KnownStays(n)'
    BY <1>4 DEF Told, KnownStays, Asked
  <2>2. AnswerTold(n)'
    BY <1>4 DEF AnswerTold, Answered
  <2> QED
    BY <1>1, <1>2, <2>1, <2>2 DEF Told
<1> QED
  BY <1>1, <1>3, <1>4

\* Coordinators touch connections only by ending.
LEMMA CoordinatorData ==
    ASSUME DataOK, Told, NEW p \in Procs, Coordinator(p)
    PROVE  DataOK' /\ Told' /\ UNCHANGED <<client, want, rows, lost>>
<1>1. UNCHANGED <<client, want, rows, lost>> /\ (UNCHANGED conn \/ TasksEnd(p))
  BY DEF Coordinator, Progress, IdleExit, Terminate, TakeLock, Bind, Publish,
         RemoveFiles, Unlock, Exit, Crash, Leave
<1>2. conn' \in [Conns -> ConnType]
  BY <1>1, FreeType DEF DataOK, TasksEnd
<1>3. \A n \in Conns : conn'[n] = conn[n] \/ conn'[n] = Free
  BY <1>1 DEF DataOK, TasksEnd
<1>4. Told'
  BY <1>1, <1>3, FreeUnasked, QuietStep DEF rows
<1> QED
  BY <1>1, <1>2, <1>4 DEF DataOK, rows

\* The first look at the key.
LEMMA LookData ==
    ASSUME DataOK, RowsAgree, Told, ServiceAssumption, NEW n \in Conns, Look(n)
    PROVE  conn' \in [Conns -> ConnType] /\ Told'
<1> DEFINE r == conn[n].req
           entry == remembered[r.key]
<1>1. UNCHANGED remembered /\ conn[n].state = "sent" /\ conn[n].state \in Asked
  BY DEF Look, rows, Asked
<1>2. r \in Requests /\ r.key \in Keys /\ entry \in Entries \cup {Unknown}
  BY <1>1 DEF Told, KnownStays, Asked, ServiceAssumption, DataOK, Requests
<1>3. CASE r.method = "inspect" /\ expired
  <2>1. Reply(n, Refused)
    BY <1>3 DEF Look
  <2> QED
    BY <1>1, <1>3, <2>1, RefusedIsAnswer, RepliedTold
<1>4. CASE ~(r.method = "inspect" /\ expired) /\ entry # Unknown
  <2>1. Reply(n, AnswerOf(entry, r)) /\ AnswerOf(entry, r) \in Answers
    BY <1>2, <1>4, AnswerOfType DEF Look
  <2>2. entry \in Entries
    BY <1>2, <1>4
  <2>3. /\ AnswerOf(entry, r).kind = "accepted" =>
               entry = [hash |-> Hash(r), job |-> AnswerOf(entry, r).job]
        /\ AnswerOf(entry, r).kind = "conflict" => entry.hash # Hash(r)
    BY <2>2, AnswerOfTold
  <2>4. conn[n].known # Unknown => entry = conn[n].known
    BY <1>1 DEF Told, KnownStays, Asked
  <2> QED
    BY <1>1, <1>4, <2>1, <2>3, <2>4, RepliedTold
<1>5. CASE ~(r.method = "inspect" /\ expired) /\ entry = Unknown
  <2>1. conn' = [conn EXCEPT ![n].state = "looked"]
    BY <1>5 DEF Look
  <2>2. conn' \in [Conns -> ConnType]
    BY <2>1 DEF DataOK, ConnType, ConnStates
  <2>3. KnownStays(n)' /\ AnswerTold(n)'
    BY <1>1, <1>5, <2>1 DEF DataOK, ConnType, Told, KnownStays, AnswerTold, Asked
  <2>4. \A m \in Conns \ {n} : KnownStays(m)' /\ AnswerTold(m)'
    BY <1>1, <2>1, Elsewhere DEF DataOK, Told
  <2> QED
    BY <2>2, <2>3, <2>4 DEF Told
<1> QED
  BY <1>3, <1>4, <1>5

\* The task has read what the request reads.
LEMMA ResolveData ==
    ASSUME DataOK, Told, NEW n \in Conns, Resolve(n)
    PROVE  conn' \in [Conns -> ConnType] /\ Told'
<1>1. UNCHANGED remembered /\ conn[n].state = "looked" /\ conn[n].state \in Asked
  BY DEF Resolve, rows, Asked
<1>2. conn[n].known = Unknown
  BY <1>1 DEF Told, KnownStays
<1>3. CASE expired
  <2>1. Reply(n, Refused)
    BY <1>3 DEF Resolve
  <2> QED
    BY <1>1, <1>2, <2>1, RefusedIsAnswer, RepliedTold
<1>4. CASE ~expired
  <2>1. conn' = [conn EXCEPT ![n].state = "resolved"]
    BY <1>4 DEF Resolve
  <2>2. conn' \in [Conns -> ConnType]
    BY <2>1 DEF DataOK, ConnType, ConnStates
  <2>3. KnownStays(n)' /\ AnswerTold(n)'
    BY <1>1, <1>2, <2>1 DEF DataOK, ConnType, Told, KnownStays, AnswerTold, Asked
  <2>4. \A m \in Conns \ {n} : KnownStays(m)' /\ AnswerTold(m)'
    BY <1>1, <2>1, Elsewhere DEF DataOK, Told
  <2> QED
    BY <2>2, <2>3, <2>4 DEF Told
<1> QED
  BY <1>3, <1>4

\* The transaction: the row and the job are inserted together, and only where
\* the table has nothing.  Nobody else was told anything of that key before.
LEMMA SubmitData ==
    ASSUME DataOK, RowsAgree, Told, ServiceAssumption, NEW n \in Conns, Submit(n)
    PROVE  DataOK' /\ RowsAgree' /\ Told'
<1> DEFINE r == conn[n].req
           entry == remembered[r.key]
           job == executed[r.key] + 1
           row == [hash |-> Hash(r), job |-> job]
<1>1. /\ conn[n].state = "resolved" /\ conn[n].state \in Asked
      /\ UNCHANGED <<client, want>>
  BY DEF Submit, Asked
<1>2. r \in Requests /\ r.key \in Keys /\ entry \in Entries \cup {Unknown}
  BY <1>1 DEF Told, KnownStays, Asked, ServiceAssumption, DataOK, Requests
<1>3. conn[n].known = Unknown
  BY <1>1 DEF Told, KnownStays
<1>4. CASE entry # Unknown
  <2>1. /\ Reply(n, AnswerOf(entry, r)) /\ UNCHANGED rows
        /\ AnswerOf(entry, r) \in Answers
    BY <1>2, <1>4, AnswerOfType DEF Submit
  <2>2. entry \in Entries
    BY <1>2, <1>4
  <2>3. /\ AnswerOf(entry, r).kind = "accepted" =>
               entry = [hash |-> Hash(r), job |-> AnswerOf(entry, r).job]
        /\ AnswerOf(entry, r).kind = "conflict" => entry.hash # Hash(r)
    BY <2>2, AnswerOfTold
  <2>4. conn' \in [Conns -> ConnType] /\ Told'
    BY <1>1, <1>3, <1>4, <2>1, <2>3, RepliedTold DEF rows
  <2> QED
    BY <1>1, <2>1, <2>4 DEF DataOK, RowsAgree, rows
<1>5. CASE entry = Unknown /\ expired
  <2>1. Reply(n, Refused) /\ UNCHANGED rows
    BY <1>5 DEF Submit
  <2>2. conn' \in [Conns -> ConnType] /\ Told'
    BY <1>1, <1>3, <2>1, RefusedIsAnswer, RepliedTold DEF rows
  <2> QED
    BY <1>1, <2>1, <2>2 DEF DataOK, RowsAgree, rows
<1>6. CASE entry = Unknown /\ ~expired
  <2>1. /\ executed' = [executed EXCEPT ![r.key] = job]
        /\ remembered' = [remembered EXCEPT ![r.key] = row]
        /\ Reply(n, Accepted(job))
    BY <1>6 DEF Submit
  <2>2. job = 1
    BY <1>2, <1>6 DEF RowsAgree
  <2>3. row \in Entries /\ row # Unknown
    BY <1>2, <2>2 DEF Hash, Hashes, Entries, Unknown
  <2>4. Accepted(job) \in Answers /\ Accepted(job).kind = "accepted" /\ Accepted(job).job = job
    BY <2>2 DEF Accepted, Answers
  <2>5. /\ conn' \in [Conns -> ConnType]
        /\ \A m \in Conns \ {n} : conn'[m] = conn[m]
        /\ \/ conn'[n].state = "free"
           \/ /\ conn'[n].state = "answered" /\ conn'[n].ans = Accepted(job)
              /\ conn'[n].req = conn[n].req /\ conn'[n].known = conn[n].known
    BY <2>1, <2>4, Replies
  <2>6. /\ remembered' \in [Keys -> Entries \cup {Unknown}]
        /\ executed' \in [Keys -> Nat]
        /\ remembered'[r.key] = row
        /\ \A k \in Keys : k # r.key => remembered'[k] = remembered[k]
    BY <1>2, <2>1, <2>2, <2>3 DEF DataOK
  <2>7. DataOK'
    BY <1>1, <2>5, <2>6 DEF DataOK
  <2>8. RowsAgree'
    BY <1>2, <2>1, <2>2, <2>3 DEF RowsAgree, DataOK
  <2>9. KnownStays(n)' /\ AnswerTold(n)'
    <3>1. CASE conn'[n].state = "free"
      BY <3>1 DEF KnownStays, AnswerTold, Asked
    <3>2. CASE /\ conn'[n].state = "answered" /\ conn'[n].ans = Accepted(job)
               /\ conn'[n].req = conn[n].req /\ conn'[n].known = conn[n].known
      <4>1. KnownStays(n)'
        BY <1>2, <1>3, <3>2 DEF KnownStays
      <4>2. AnswerTold(n)'
        BY <1>3, <2>3, <2>4, <2>6, <3>2 DEF AnswerTold, Answered
      <4> QED
        BY <4>1, <4>2
    <3> QED
      BY <2>5, <3>1, <3>2
  <2>10. ASSUME NEW m \in Conns \ {n}
         PROVE  KnownStays(m)' /\ AnswerTold(m)'
    <3>1. conn'[m] = conn[m] /\ KnownStays(m) /\ AnswerTold(m)
      BY <2>5 DEF Told
    <3>2. CASE conn[m].state \notin Asked
      BY <3>1, <3>2 DEF KnownStays, AnswerTold, Asked
    <3>3. CASE conn[m].state \in Asked /\ conn[m].req.key # r.key
      <4>1. conn[m].req.key \in Keys
        BY <3>1, <3>3 DEF KnownStays, Requests, ServiceAssumption
      <4>2. remembered'[conn[m].req.key] = remembered[conn[m].req.key]
        BY <2>6, <3>3, <4>1
      <4> QED
        BY <3>1, <4>2 DEF KnownStays, AnswerTold, Answered
    <3>4. CASE conn[m].state \in Asked /\ conn[m].req.key = r.key
      <4>1. conn[m].known = Unknown
        BY <1>6, <3>1, <3>4 DEF KnownStays
      <4>2. KnownStays(m)'
        BY <3>1, <4>1 DEF KnownStays
      <4>3. AnswerTold(m)'
        BY <1>6, <3>1, <3>4, <4>1 DEF AnswerTold, Answered
      <4> QED
        BY <4>2, <4>3
    <3> QED
      BY <3>2, <3>3, <3>4
  <2> QED
    BY <2>7, <2>8, <2>9, <2>10 DEF Told
<1> QED
  BY <1>4, <1>5, <1>6

LEMMA TaskData ==
    ASSUME DataOK, RowsAgree, Told, ServiceAssumption, NEW n \in Conns, Task(n)
    PROVE  DataOK' /\ RowsAgree' /\ Told' /\ UNCHANGED <<places, lost, expired>>
<1>1. CASE Accept(n)
  <2>1. conn' \in [Conns -> ConnType]
    BY <1>1 DEF Accept, DataOK, ConnType, ConnStates
  <2>2. \A m \in Conns : conn'[m] = conn[m] \/ conn'[m].state \notin Asked
    BY <1>1 DEF Accept, DataOK, ConnType, Asked
  <2>3. Told'
    BY <1>1, <2>2, QuietStep DEF Accept, rows
  <2> QED
    BY <1>1, <2>1, <2>3 DEF Accept, DataOK, RowsAgree, rows
<1>2. CASE Look(n)
  BY <1>2, LookData DEF Look, DataOK, RowsAgree, rows
<1>3. CASE Resolve(n)
  BY <1>3, ResolveData DEF Resolve, DataOK, RowsAgree, rows
<1>4. CASE Submit(n)
  BY <1>4, SubmitData DEF Submit, rows
<1> QED
  BY <1>1, <1>2, <1>3, <1>4 DEF Task

\* Hanging up frees the connection, or leaves it to its task.
LEMMA HangUpData ==
    ASSUME DataOK, Told, UNCHANGED remembered, NEW c \in Clients, HangUp(c),
           client[c].conn # None
    PROVE  /\ client' \in [Clients -> ClientType]
           /\ conn' \in [Conns -> ConnType]
           /\ Told'
<1>1. client' \in [Clients -> ClientType]
  BY DEF HangUp, DataOK, ClientType, Idle
<1>2. client[c].conn \in Conns
  BY DEF DataOK, ClientType
<1>3. \A n \in Conns : conn'[n] = conn[n] \/ conn'[n] = Free
  BY <1>2 DEF HangUp, DataOK
<1>4. conn' \in [Conns -> ConnType]
  BY <1>2, FreeType DEF HangUp, DataOK
<1>5. Told'
  BY <1>3, FreeUnasked, QuietStep
<1> QED
  BY <1>1, <1>4, <1>5

LEMMA ClientData ==
    ASSUME DataOK, RowsAgree, Told, ServiceAssumption, NEW c \in Clients, Client(c)
    PROVE  DataOK' /\ RowsAgree' /\ Told' /\ UNCHANGED rows
<1>1. UNCHANGED rows
  BY DEF Client, Call, Ask, Dial, Send, Receive, Break, Launch, StartFails, Abandon
<1>2. RowsAgree'
  BY <1>1 DEF RowsAgree, rows
<1> SUFFICES DataOK' /\ Told'
  BY <1>1, <1>2
<1>3. UNCHANGED remembered
  BY <1>1 DEF rows
<1>4. ASSUME NEW r \in Asks[c], Ask(c, r)
      PROVE  DataOK' /\ Told'
  <2>1. r \in Requests
    BY DEF Requests
  <2>2. DataOK'
    BY <1>1, <1>4, <2>1 DEF Ask, DataOK, rows
  <2> QED
    BY <1>3, <1>4, <2>2, QuietStep DEF Ask
<1>5. CASE Dial(c)
  <2>1. PICK p \in Procs, n \in Conns :
            /\ conn' = [conn EXCEPT ![n] = [Free EXCEPT !.state = "backlog", !.proc = p]]
            /\ client' = [client EXCEPT ![c] = [pc |-> "connected", conn |-> n]]
    BY <1>5 DEF Dial
  <2>2. /\ [Free EXCEPT !.state = "backlog", !.proc = p] \in ConnType
        /\ [Free EXCEPT !.state = "backlog", !.proc = p].state \notin Asked
    BY FreeType DEF ConnType, ConnStates, Asked, Free
  <2>3. client' \in [Clients -> ClientType]
    BY <2>1 DEF DataOK, ClientType
  <2>4. conn' \in [Conns -> ConnType]
    BY <2>1, <2>2 DEF DataOK
  <2>5. \A m \in Conns : conn'[m] = conn[m] \/ conn'[m].state \notin Asked
    BY <2>1, <2>2 DEF DataOK
  <2>6. Told'
    BY <1>3, <2>5, QuietStep
  <2> QED
    BY <1>1, <1>5, <2>3, <2>4, <2>6 DEF Dial, DataOK, rows
<1>6. CASE Send(c)
  <2>1. client[c].conn # None /\ client[c].conn \in Conns
    BY <1>6 DEF Send, At, DataOK, ClientType
  <2>2. CASE endpoint # conn[client[c].conn].proc
    BY <1>1, <1>3, <1>6, <2>1, <2>2, HangUpData DEF Send, DataOK, rows
  <2>3. CASE endpoint = conn[client[c].conn].proc
    <3> DEFINE n == client[c].conn
               new == [conn[n] EXCEPT !.state = "sent", !.req = want[c],
                                      !.known = remembered[want[c].key]]
    <3>1. conn' = [conn EXCEPT ![n] = new] /\ UNCHANGED <<client, want>>
      BY <1>6, <2>3 DEF Send
    <3>2. want[c] \in Requests
      BY <1>6, <2>1 DEF Send, DataOK
    <3>3. want[c].key \in Keys
      BY <3>2 DEF Requests, ServiceAssumption
    <3>4. /\ new \in ConnType /\ new.state = "sent" /\ new.req = want[c]
          /\ new.known = remembered[want[c].key]
      <4>1. /\ conn[n] \in ConnType
            /\ remembered[want[c].key] \in Entries \cup {Unknown}
        BY <2>1, <3>3 DEF DataOK
      <4>2. "sent" \in ConnStates
        BY DEF ConnStates
      <4> QED
        BY <3>2, <4>1, <4>2 DEF ConnType
    <3> HIDE DEF new
    <3>5. conn'[n] = new /\ \A m \in Conns \ {n} : conn'[m] = conn[m]
      BY <2>1, <3>1 DEF DataOK
    <3>6. conn' \in [Conns -> ConnType]
      BY <3>1, <3>4 DEF DataOK
    <3>7. KnownStays(n)' /\ AnswerTold(n)'
      BY <1>3, <3>2, <3>1, <3>4, <3>5 DEF KnownStays, AnswerTold, Asked
    <3>8. \A m \in Conns \ {n} : KnownStays(m)' /\ AnswerTold(m)'
      BY <1>3, <3>5, Elsewhere DEF Told
    <3> QED
      BY <1>1, <3>1, <3>6, <3>7, <3>8 DEF DataOK, Told, rows
  <2> QED
    BY <2>2, <2>3
<1>7. CASE Receive(c)
  BY <1>1, <1>3, <1>7, HangUpData DEF Receive, At, DataOK, rows
<1>8. CASE Break(c)
  BY <1>1, <1>3, <1>8, HangUpData DEF Break, DataOK, rows
<1>9. CASE Launch(c)
  <2>1. client' \in [Clients -> ClientType]
    BY <1>9 DEF Launch, DataOK, ClientType, Idle
  <2>2. Told'
    BY <1>3, <1>9, QuietStep DEF Launch
  <2> QED
    BY <1>1, <1>9, <2>1, <2>2 DEF Launch, DataOK, rows
<1>10. CASE StartFails(c)
  <2>1. client' \in [Clients -> ClientType]
    BY <1>10 DEF StartFails, DataOK, ClientType, Idle
  <2>2. Told'
    BY <1>3, <1>10, QuietStep DEF StartFails
  <2> QED
    BY <1>1, <1>10, <2>1, <2>2 DEF StartFails, DataOK, rows
<1>11. CASE Abandon(c)
  BY <1>1, <1>3, <1>11, HangUpData DEF Abandon, DataOK, rows
<1> QED
  BY <1>1, <1>2, <1>4, <1>5, <1>6, <1>7, <1>8, <1>9, <1>10, <1>11 DEF Client, Call

-----------------------------------------------------------------------------
(* Every step keeps the invariant.                                         *)

\* The types of processes, files and bounds.
PlacesOK ==
    /\ proc \in [Procs -> {"gone"} \cup Running]
    /\ socket \in Procs \cup {None} /\ endpoint \in Procs \cup {None}
    /\ expired \in BOOLEAN
    /\ ends \in 0 .. MaxEnds /\ lost \in 0 .. MaxLost

LEMMA TypeParts == TypeOK <=> PlacesOK /\ DataOK
BY DEF TypeOK, PlacesOK, DataOK, ConnType, ClientType

\* Who does not move a process leaves who owns the workspace.
LEMMA PlacesStay ==
    ASSUME OneOwner, OwnerIsReachable, UNCHANGED places
    PROVE  OneOwner' /\ OwnerIsReachable'
BY DEF OneOwner, OwnerIsReachable, places

LEMMA ClientPlaces ==
    ASSUME PlacesOK, ServiceAssumption, NEW c \in Clients, Client(c)
    PROVE  /\ lost' \in 0 .. MaxLost /\ UNCHANGED ends
           /\ Launch(c) \/ UNCHANGED places
<1>1. CASE \E r \in Asks[c] : Ask(c, r)
  BY <1>1 DEF Ask, PlacesOK, places
<1>2. CASE Call(c)
  BY <1>2 DEF Call, Dial, Send, Receive, Break, PlacesOK, places
<1>3. CASE Launch(c)
  BY <1>3 DEF Launch, PlacesOK
<1>4. CASE StartFails(c)
  BY <1>4 DEF StartFails, PlacesOK, places
<1>5. CASE Abandon(c)
  BY <1>5 DEF Abandon, PlacesOK, places, ServiceAssumption
<1> QED
  BY <1>1, <1>2, <1>3, <1>4, <1>5 DEF Client

LEMMA NextSInv ==
    ASSUME SInv, ServiceAssumption, [Next]_vars
    PROVE  SInv'
<1>1. TypeOK /\ PlacesOK /\ DataOK /\ OneOwner /\ OwnerIsReachable /\ RowsAgree /\ Told
  BY TypeParts DEF SInv
<1> SUFFICES PlacesOK' /\ DataOK' /\ OneOwner' /\ OwnerIsReachable' /\ RowsAgree' /\ Told'
  BY TypeParts DEF SInv, TypeOK, PlacesOK, DataOK, ConnType, ClientType
<1>2. ASSUME NEW p \in Procs, Coordinator(p)
      PROVE  PlacesOK' /\ DataOK' /\ OneOwner' /\ OwnerIsReachable' /\ RowsAgree' /\ Told'
  <2>1. /\ proc' \in [Procs -> {"gone"} \cup Running]
        /\ socket' \in Procs \cup {None} /\ endpoint' \in Procs \cup {None}
        /\ ends' \in 0 .. MaxEnds
        /\ OneOwner' /\ OwnerIsReachable'
    BY <1>1, <1>2, CoordinatorOwns
  <2>2. DataOK' /\ Told' /\ UNCHANGED <<client, want, rows, lost>>
    BY <1>1, <1>2, CoordinatorData
  <2>3. RowsAgree'
    BY <1>1, <2>2 DEF RowsAgree, rows
  <2> QED
    BY <1>1, <2>1, <2>2, <2>3 DEF PlacesOK, rows
<1>3. ASSUME NEW n \in Conns, Task(n)
      PROVE  PlacesOK' /\ DataOK' /\ OneOwner' /\ OwnerIsReachable' /\ RowsAgree' /\ Told'
  <2>1. DataOK' /\ RowsAgree' /\ Told' /\ UNCHANGED <<places, lost, expired>>
    BY <1>1, <1>3, TaskData
  <2> QED
    BY <1>1, <2>1, PlacesStay DEF PlacesOK, places
<1>4. ASSUME NEW c \in Clients, Client(c)
      PROVE  PlacesOK' /\ DataOK' /\ OneOwner' /\ OwnerIsReachable' /\ RowsAgree' /\ Told'
  <2>1. DataOK' /\ RowsAgree' /\ Told' /\ UNCHANGED rows
    BY <1>1, <1>4, ClientData
  <2>2. /\ lost' \in 0 .. MaxLost /\ UNCHANGED ends
        /\ Launch(c) \/ UNCHANGED places
    BY <1>1, <1>4, ClientPlaces
  <2>3. CASE Launch(c)
    <3>1. /\ proc' \in [Procs -> {"gone"} \cup Running]
          /\ socket' \in Procs \cup {None} /\ endpoint' \in Procs \cup {None}
          /\ OneOwner' /\ OwnerIsReachable'
      BY <1>1, <2>3, LaunchOwns
    <3> QED
      BY <1>1, <2>1, <2>2, <3>1 DEF PlacesOK, rows
  <2>4. CASE UNCHANGED places
    BY <1>1, <2>1, <2>2, <2>4, PlacesStay DEF PlacesOK, places, rows
  <2> QED
    BY <2>2, <2>3, <2>4
<1>5. CASE Expire
  <2>1. Told'
    BY <1>1, <1>5, QuietStep DEF Expire
  <2> QED
    BY <1>1, <1>5, <2>1, PlacesStay
    DEF Expire, PlacesOK, DataOK, RowsAgree, places
<1>6. CASE UNCHANGED vars
  <2>1. Told'
    BY <1>1, <1>6, QuietStep DEF vars
  <2> QED
    BY <1>1, <1>6, <2>1, PlacesStay
    DEF vars, PlacesOK, DataOK, RowsAgree, places
<1> QED
  BY <1>2, <1>3, <1>4, <1>5, <1>6 DEF Next

-----------------------------------------------------------------------------
(* What is claimed.                                                        *)

\* The invariant holds in every reachable state of serve, connect and submit.
THEOREM ServiceInductive == Spec => []SInv
<1>1. Init => SInv
  BY InitSInv
<1>2. SInv /\ [Next]_vars => SInv'
  BY NextSInv, ServiceAssumption
<1> QED
  BY <1>1, <1>2, PTL DEF Spec

\* Processes, files, connections, clients and rows keep their types.
THEOREM ServiceTypeCorrect == Spec => []TypeOK
<1>1. SInv => TypeOK
  BY DEF SInv
<1> QED
  BY <1>1, ServiceInductive, PTL

\* Any number of coordinators that start, leave and are killed in any order:
\* whoever serves is the only owner, and the socket and the descriptor are its.
THEOREM OwnerReachable == Spec => [](OneOwner /\ OwnerIsReachable)
<1>1. SInv => OneOwner /\ OwnerIsReachable
  BY DEF SInv
<1> QED
  BY <1>1, ServiceInductive, PTL

\* Any number of calls that are given up, repeated or served at once, by any
\* coordinators: under a key at most one request is executed, and all answers
\* tell of it.
THEOREM OncePerKey == Spec => []KeysDecideOnce
<1>1. SInv => KeysDecideOnce
  BY DEF SInv, Told, AnswerTold, RowsAgree, KeysDecideOnce
<1> QED
  BY <1>1, ServiceInductive, PTL

\* A request that is repeated after it was accepted is found, unless it inspects.
THEOREM RepeatedIsFound == Spec => []AcceptedIsFound
<1>1. SInv => AcceptedIsFound
  BY DEF SInv, Told, AnswerTold, AcceptedIsFound
<1> QED
  BY <1>1, ServiceInductive, PTL

-----------------------------------------------------------------------------
(* What a client may rely on.                                              *)

Working == {"sent", "looked", "resolved"}

\* A connection has one client, who waits for the answer to what was sent on it.
OwnersWait ==
    /\ \A c \in Clients :
          /\ client[c].pc # "connected" => client[c].conn = None
          /\ client[c].conn # None =>
                LET n == conn[client[c].conn]
                IN  want[c] # None /\ n.state # "free" /\ (n.state \in Asked => n.req = want[c])
    /\ \A c, d \in Clients : client[c].conn # None /\ client[c].conn = client[d].conn => c = d

\* What could still execute a request has somebody who waits for it, whether the
\* call was given up or not.
Backed(n) ==
    conn[n].state \in Working =>
        \/ remembered[conn[n].req.key] # Unknown \/ expired
        \/ \E c \in Clients : want[c] = conn[n].req

\* A refusal tells of what has expired.
AnswerGiven(n) ==
    conn[n].state = "answered" =>
        /\ conn[n].ans.kind \in {"accepted", "conflict", "refused"}
        /\ conn[n].ans.kind = "refused" => expired

CInv == OwnersWait /\ \A n \in Conns : Backed(n) /\ AnswerGiven(n)

Telling == [c \in Clients |-> AnswerAt(c)]

LEMMA WorkingAsked == Working \subseteq Asked /\ "answered" \notin Working /\ "answered" \in Asked
BY DEF Working, Asked

LEMMA OwnedConn ==
    ASSUME DataOK, NEW c \in Clients, client[c].conn # None
    PROVE  client[c].conn \in Conns
BY DEF DataOK, ClientType

\* A connection that stays as it is or is not at work keeps these.
LEMMA StaysBacked ==
    ASSUME CInv, UNCHANGED <<want, rows>>, NEW n \in Conns,
           conn'[n] = conn[n] \/ conn'[n].state \notin Asked
    PROVE  Backed(n)' /\ AnswerGiven(n)'
<1>1. CASE conn'[n] = conn[n]
  BY <1>1 DEF CInv, Backed, AnswerGiven, rows
<1>2. CASE conn'[n].state \notin Asked
  BY <1>2, WorkingAsked DEF Backed, AnswerGiven
<1> QED
  BY <1>1, <1>2

\* Coordinators and what nobody waits for.
LEMMA CoordinatorContract ==
    ASSUME DataOK, CInv, NEW p \in Procs, Coordinator(p)
    PROVE  CInv' /\ Telling' = Telling /\ UNCHANGED <<want, rows>>
<1>1. UNCHANGED <<client, want, rows>> /\ (UNCHANGED conn \/ TasksEnd(p))
  BY DEF Coordinator, Progress, IdleExit, Terminate, TakeLock, Bind, Publish,
         RemoveFiles, Unlock, Exit, Crash, Leave
<1>2. \A n \in Conns : conn'[n] = conn[n] \/ (conn'[n] = Free /\ ~Owned(n))
  BY <1>1 DEF DataOK, TasksEnd
<1>3. \A c \in Clients : client[c].conn # None => conn'[client[c].conn] = conn[client[c].conn]
  BY <1>2, OwnedConn DEF Owned
<1>4. OwnersWait'
  BY <1>1, <1>3 DEF CInv, OwnersWait
<1>5. \A n \in Conns : Backed(n)' /\ AnswerGiven(n)'
  BY <1>1, <1>2, FreeUnasked, StaysBacked
<1>6. Telling' = Telling
  BY <1>1, <1>3 DEF Telling, AnswerAt, At
<1> QED
  BY <1>1, <1>4, <1>5, <1>6 DEF CInv

\* A task that goes on without a reply.
LEMMA GoesOn ==
    ASSUME DataOK, CInv, UNCHANGED <<client, want, rows>>, NEW n \in Conns, NEW state \in ConnStates,
           conn' = [conn EXCEPT ![n].state = state],
           \/ conn[n].state \in Working /\ state \in Working
           \/ conn[n].state \notin Asked /\ conn[n].state # "free" /\ state \notin Asked /\ state # "free"
    PROVE  CInv' /\ Telling' = Telling
<1>1. /\ conn'[n].state = state /\ conn'[n].req = conn[n].req /\ conn'[n].ans = conn[n].ans
      /\ \A m \in Conns \ {n} : conn'[m] = conn[m]
  BY DEF DataOK, ConnType
<1>2. conn[n].state # "free" /\ state # "free" /\ conn[n].state # "answered" /\ state # "answered"
  BY DEF Working, Asked
<1>3. state \in Asked <=> conn[n].state \in Asked
  BY WorkingAsked
<1>4. \A c \in Clients : client[c].conn # None => client[c].conn \in Conns
  BY OwnedConn
<1>5. OwnersWait'
  BY <1>1, <1>2, <1>3, <1>4 DEF CInv, OwnersWait
<1>6. Backed(n)' /\ AnswerGiven(n)'
  <2>1. state \in Working => conn[n].state \in Working
    BY WorkingAsked
  <2> QED
    BY <1>1, <1>2, <2>1 DEF CInv, Backed, AnswerGiven, rows
<1>7. \A m \in Conns \ {n} : Backed(m)' /\ AnswerGiven(m)'
  BY <1>1, StaysBacked
<1>8. Telling' = Telling
  <2>1. ASSUME NEW c \in Clients PROVE AnswerAt(c)' = AnswerAt(c)
    <3>1. CASE client[c].conn = n
      BY <1>1, <1>2, <3>1 DEF AnswerAt, At
    <3>2. CASE client[c].conn # n
      BY <1>1, <1>4, <3>2 DEF AnswerAt, At
    <3> QED
      BY <3>1, <3>2
  <2> QED
    BY <2>1 DEF Telling
<1> QED
  BY <1>5, <1>6, <1>7, <1>8 DEF CInv

\* A reply reaches the client of the connection, or nobody.
LEMMA ReplyReaches ==
    ASSUME DataOK, CInv, UNCHANGED <<client, want>>, NEW n \in Conns, conn[n].state \in Working,
           NEW a \in Answers, a.kind # "none", Reply(n, a),
           a.kind = "refused" => expired', expired => expired',
           \A k \in Keys : remembered[k] # Unknown => remembered'[k] # Unknown,
           \A m \in Conns : conn[m].state \in Asked => conn[m].req.key \in Keys
    PROVE  /\ CInv'
           /\ \/ ~Owned(n) /\ Telling' = Telling
              \/ \E c \in Clients : /\ want[c] = conn[n].req /\ want[c] # None /\ AnswerAt(c) = "none"
                                    /\ Telling' = [Telling EXCEPT ![c] = a.kind]
<1>1. /\ \A m \in Conns \ {n} : conn'[m] = conn[m]
      /\ ~Owned(n) => conn'[n] = Free
      /\ Owned(n) => conn'[n].state = "answered" /\ conn'[n].ans = a /\ conn'[n].req = conn[n].req
  BY DEF Reply, DataOK, ConnType
<1>2. conn[n].state \in Asked /\ conn[n].state # "answered" /\ conn[n].state # "free"
  BY DEF Working, Asked
<1>3. \A c \in Clients : client[c].conn # None => client[c].conn \in Conns
  BY OwnedConn
<1>4. Owned(n) <=> \E c \in Clients : client[c].conn = n
  BY DEF Owned
<1>5. n # None
  BY ServiceAssumption
<1>6. OwnersWait'
  <2>1. ASSUME NEW c \in Clients, client[c].conn # None
        PROVE  LET q == conn'[client[c].conn]
               IN  want[c] # None /\ q.state # "free" /\ (q.state \in Asked => q.req = want[c])
    <3>1. CASE client[c].conn = n
      BY <1>1, <1>2, <1>4, <2>1, <3>1 DEF CInv, OwnersWait
    <3>2. CASE client[c].conn # n
      BY <1>1, <1>3, <2>1, <3>2 DEF CInv, OwnersWait
    <3> QED
      BY <3>1, <3>2
  <2> QED
    BY <2>1 DEF CInv, OwnersWait
<1>7. ASSUME NEW m \in Conns PROVE Backed(m)' /\ AnswerGiven(m)'
  <2>1. CASE m = n
    BY <1>1, <2>1 DEF Backed, AnswerGiven, Working, Answers, Free
  <2>2. CASE m # n
    <3>1. conn'[m] = conn[m] /\ Backed(m) /\ AnswerGiven(m)
      BY <1>1, <2>2 DEF CInv
    <3>2. conn[m].state \in Working => conn[m].req.key \in Keys
      BY WorkingAsked
    <3> QED
      BY <3>1, <3>2 DEF Backed, AnswerGiven
  <2> QED
    BY <2>1, <2>2
<1>8. CASE ~Owned(n)
  <2>1. \A c \in Clients : AnswerAt(c)' = AnswerAt(c)
    BY <1>1, <1>3, <1>4, <1>8 DEF AnswerAt, At
  <2> QED
    BY <1>6, <1>7, <1>8, <2>1 DEF CInv, Telling
<1>9. CASE Owned(n)
  <2>1. PICK c \in Clients : client[c].conn = n
    BY <1>4, <1>9
  <2>2. want[c] = conn[n].req /\ want[c] # None /\ AnswerAt(c) = "none" /\ AnswerAt(c)' = a.kind
    BY <1>1, <1>2, <1>5, <1>9, <2>1 DEF CInv, OwnersWait, AnswerAt, At
  <2>3. \A d \in Clients \ {c} : AnswerAt(d)' = AnswerAt(d)
    <3> TAKE d \in Clients \ {c}
    <3>1. client[d].conn # n
      BY <1>5, <2>1 DEF CInv, OwnersWait
    <3> QED
      BY <1>1, <1>3, <3>1 DEF AnswerAt, At
  <2>4. Telling' = [Telling EXCEPT ![c] = a.kind]
    BY <2>2, <2>3 DEF Telling
  <2> QED
    BY <1>6, <1>7, <2>2, <2>4 DEF CInv
<1> QED
  BY <1>8, <1>9

\* Steps of the contract, by what they change here.
Hashed == [k \in Keys |-> remembered[k].hash]

LEMMA Stutters ==
    ASSUME UNCHANGED <<want, rows>>, Telling' = Telling
    PROVE  UNCHANGED Contract!vars
BY DEF rows, Telling, Contract!vars

LEMMA Tells ==
    ASSUME DataOK, UNCHANGED <<want, rows>>, NEW c \in Clients, want[c] # None, AnswerAt(c) = "none",
           NEW a \in {"accepted", "conflict", "refused"}, Telling' = [Telling EXCEPT ![c] = a],
           NEW r, r = want[c], r.key \in Keys, NEW entry, entry = remembered[r.key],
           a = "accepted" => entry.hash = Hash(r),
           a = "conflict" => entry.hash # None /\ entry.hash # Hash(r),
           a = "refused" => expired
    PROVE  Contract!Next
<1>1. Contract!Hash(r) = Hash(r)
  BY DEF Contract!Hash, Hash
<1>2. Hashed[r.key] = entry.hash
  BY DEF Hashed
<1>3. Contract!Truthful(a, r, Hashed[r.key])
  BY <1>1, <1>2 DEF Contract!Truthful
<1>4. Telling[c] = "none"
  BY DEF Telling
<1>5. Contract!Tell(c, a)
  BY <1>3, <1>4 DEF Contract!Tell, Hashed, Telling, rows
<1> QED
  BY <1>5 DEF Contract!Next

LEMMA Executes ==
    ASSUME DataOK, NEW c \in Clients, NEW r, r = want[c], r # None, r.key \in Keys,
           remembered[r.key] = Unknown, ~expired, UNCHANGED <<want, expired>>,
           NEW job, remembered' = [remembered EXCEPT ![r.key] = [hash |-> Hash(r), job |-> job]],
           \/ Telling' = Telling
           \/ AnswerAt(c) = "none" /\ Telling' = [Telling EXCEPT ![c] = "accepted"]
    PROVE  Contract!Next
<1>1. Contract!Hash(r) = Hash(r)
  BY DEF Contract!Hash, Hash
<1>2. Hashed[r.key] = None
  BY DEF Hashed, Unknown
<1>3. Hashed' = [Hashed EXCEPT ![r.key] = Hash(r)]
  <2>1. \A k \in Keys : remembered'[k].hash = IF k = r.key THEN Hash(r) ELSE remembered[k].hash
    BY DEF DataOK
  <2> QED
    BY <2>1 DEF Hashed
<1>4. \/ Telling' = Telling
      \/ Telling[c] = "none" /\ Telling' = [Telling EXCEPT ![c] = "accepted"]
  BY DEF Telling
<1>5. Contract!Execute(c)
  BY <1>1, <1>2, <1>3, <1>4 DEF Contract!Execute, Hashed, Telling
<1> QED
  BY <1>5 DEF Contract!Next

LEMMA EntryHashed ==
    ASSUME NEW entry \in Entries
    PROVE  entry.hash # None
BY ServiceAssumption DEF Entries, Hashes

\* The answer a task gives is told truly, to the client or to nobody.
LEMMA RepliesContract ==
    ASSUME SInv, SInv', CInv, UNCHANGED <<client, want, rows>>, NEW n \in Conns,
           conn[n].state \in Working, NEW a \in Answers, Reply(n, a),
           \/ a = Refused /\ expired
           \/ /\ remembered[conn[n].req.key] # Unknown
              /\ a = AnswerOf(remembered[conn[n].req.key], conn[n].req)
    PROVE  CInv' /\ [Contract!Next]_(Contract!vars)
<1> DEFINE r == conn[n].req
           entry == remembered[r.key]
<1>1. DataOK /\ Told
  BY TypeGivesData DEF SInv
<1>2. \A m \in Conns : conn[m].state \in Asked => conn[m].req.key \in Keys
  BY <1>1, ServiceAssumption DEF Told, KnownStays
<1>3. r.key \in Keys
  BY <1>2, WorkingAsked
<1>4. /\ a.kind \in {"accepted", "conflict", "refused"}
      /\ a.kind = "refused" => expired
      /\ a.kind = "accepted" => entry.hash = Hash(r)
      /\ a.kind = "conflict" => entry.hash # None /\ entry.hash # Hash(r)
  <2>1. CASE a = Refused /\ expired
    BY <2>1 DEF Refused
  <2>2. CASE entry # Unknown /\ a = AnswerOf(entry, r)
    <3>1. entry \in Entries
      BY <1>1, <1>3, <2>2 DEF DataOK
    <3>2. entry.hash # None
      BY <3>1, EntryHashed
    <3> QED
      BY <2>2, <3>2 DEF AnswerOf, Accepted, Conflict
  <2> QED
    BY <2>1, <2>2
<1>5. /\ CInv'
      /\ \/ ~Owned(n) /\ Telling' = Telling
         \/ \E c \in Clients : /\ want[c] = conn[n].req /\ want[c] # None /\ AnswerAt(c) = "none"
                               /\ Telling' = [Telling EXCEPT ![c] = a.kind]
  BY <1>1, <1>2, <1>4, ReplyReaches DEF rows
<1>6. CASE Telling' = Telling
  BY <1>5, <1>6, Stutters
<1>7. ASSUME NEW c \in Clients, want[c] = r, want[c] # None, AnswerAt(c) = "none",
             Telling' = [Telling EXCEPT ![c] = a.kind]
      PROVE  Contract!Next
  BY <1>1, <1>3, <1>4, <1>7, Tells
<1> QED
  BY <1>5, <1>6, <1>7

LEMMA TaskContract ==
    ASSUME SInv, SInv', CInv, NEW n \in Conns, Task(n)
    PROVE  CInv' /\ [Contract!Next]_(Contract!vars)
<1> DEFINE r == conn[n].req
           entry == remembered[r.key]
           job == executed[r.key] + 1
<1>1. DataOK /\ Told
  BY TypeGivesData DEF SInv
<1>2. \A m \in Conns : conn[m].state \in Asked => conn[m].req \in Requests /\ conn[m].req.key \in Keys
  BY <1>1, ServiceAssumption DEF Told, KnownStays
<1>3. Refused \in Answers
  BY RefusedIsAnswer
<1>4. conn[n].state \in Asked => entry \in Entries \cup {Unknown} /\ AnswerOf(entry, r) \in Answers
  BY <1>1, <1>2, AnswerOfType DEF DataOK
<1>5. ASSUME UNCHANGED <<client, want, rows>>, NEW state \in ConnStates,
             conn' = [conn EXCEPT ![n].state = state],
             \/ conn[n].state \in Working /\ state \in Working
             \/ conn[n].state \notin Asked /\ conn[n].state # "free" /\ state \notin Asked /\ state # "free"
      PROVE  CInv' /\ [Contract!Next]_(Contract!vars)
  BY <1>1, <1>5, GoesOn, Stutters
<1>6. CASE Accept(n)
  <2>1. /\ UNCHANGED <<client, want, rows>> /\ conn' = [conn EXCEPT ![n].state = "greeting"]
        /\ conn[n].state = "backlog"
    BY <1>6 DEF Accept
  <2>2. "greeting" \in ConnStates /\ "greeting" \notin Asked /\ "backlog" \notin Asked
    BY DEF ConnStates, Asked
  <2> QED
    BY <1>5, <2>1, <2>2
<1>7. CASE Look(n)
  <2>1. /\ UNCHANGED <<client, want, rows>> /\ conn[n].state = "sent"
        /\ conn[n].state \in Working /\ conn[n].state \in Asked
    BY <1>7 DEF Look, Working, Asked
  <2>2. CASE r.method = "inspect" /\ expired
    <3>1. Reply(n, Refused)
      BY <1>7, <2>2 DEF Look
    <3> QED
      BY <1>3, <2>1, <2>2, <3>1, RepliesContract
  <2>3. CASE ~(r.method = "inspect" /\ expired) /\ entry # Unknown
    <3>1. Reply(n, AnswerOf(entry, r))
      BY <1>7, <2>3 DEF Look
    <3> QED
      BY <1>4, <2>1, <2>3, <3>1, RepliesContract
  <2>4. CASE ~(r.method = "inspect" /\ expired) /\ entry = Unknown
    <3>1. conn' = [conn EXCEPT ![n].state = "looked"]
      BY <1>7, <2>4 DEF Look
    <3>2. "looked" \in ConnStates /\ "looked" \in Working
      BY DEF ConnStates, Working
    <3> QED
      BY <1>5, <2>1, <3>1, <3>2
  <2> QED
    BY <2>2, <2>3, <2>4
<1>8. CASE Resolve(n)
  <2>1. /\ UNCHANGED <<client, want, rows>> /\ conn[n].state \in Working
    BY <1>8 DEF Resolve, Working
  <2>2. CASE expired
    <3>1. Reply(n, Refused)
      BY <1>8, <2>2 DEF Resolve
    <3> QED
      BY <1>3, <2>1, <2>2, <3>1, RepliesContract
  <2>3. CASE ~expired
    <3>1. conn' = [conn EXCEPT ![n].state = "resolved"]
      BY <1>8, <2>3 DEF Resolve
    <3>2. "resolved" \in ConnStates /\ "resolved" \in Working
      BY DEF ConnStates, Working
    <3> QED
      BY <1>5, <2>1, <3>1, <3>2
  <2> QED
    BY <2>2, <2>3
<1>9. CASE Submit(n)
  <2>1. /\ UNCHANGED <<client, want>> /\ conn[n].state \in Working /\ conn[n].state \in Asked
    BY <1>9 DEF Submit, Working, Asked
  <2>2. CASE entry # Unknown
    <3>1. Reply(n, AnswerOf(entry, r)) /\ UNCHANGED rows
      BY <1>9, <2>2 DEF Submit
    <3> QED
      BY <1>4, <2>1, <2>2, <3>1, RepliesContract
  <2>3. CASE entry = Unknown /\ expired
    <3>1. Reply(n, Refused) /\ UNCHANGED rows
      BY <1>9, <2>3 DEF Submit
    <3> QED
      BY <1>3, <2>1, <2>3, <3>1, RepliesContract
  <2>4. CASE entry = Unknown /\ ~expired
    <3>1. /\ remembered' = [remembered EXCEPT ![r.key] = [hash |-> Hash(r), job |-> job]]
          /\ Reply(n, Accepted(job)) /\ UNCHANGED expired
      BY <1>9, <2>4 DEF Submit
    <3>2. r \in Requests /\ r.key \in Keys /\ r # None
      BY <1>2, <2>1, ServiceAssumption
    <3>3. job = 1
      BY <2>4, <3>2 DEF SInv, RowsAgree
    <3>4. Accepted(job) \in Answers /\ Accepted(job).kind = "accepted"
      BY <3>3 DEF Accepted, Answers
    <3>5. \A k \in Keys : remembered[k] # Unknown => remembered'[k] # Unknown
      <4>1. [hash |-> Hash(r), job |-> job] # Unknown
        BY <3>3 DEF Unknown
      <4> QED
        BY <1>1, <3>1, <4>1 DEF DataOK
    <3>6. /\ CInv'
          /\ \/ ~Owned(n) /\ Telling' = Telling
             \/ \E c \in Clients : /\ want[c] = r /\ want[c] # None /\ AnswerAt(c) = "none"
                                   /\ Telling' = [Telling EXCEPT ![c] = "accepted"]
      BY <1>1, <1>2, <2>1, <3>1, <3>4, <3>5, ReplyReaches
    <3>7. PICK d \in Clients : want[d] = r
      BY <2>1, <2>4 DEF CInv, Backed
    <3>8. CASE Telling' = Telling
      <4>1. UNCHANGED <<want, expired>>
        BY <2>1, <3>1
      <4>2. Contract!Next
        BY <1>1, <2>4, <3>1, <3>2, <3>7, <3>8, <4>1, Executes
      <4> QED
        BY <3>6, <4>2
    <3>9. ASSUME NEW c \in Clients, want[c] = r, AnswerAt(c) = "none",
                 Telling' = [Telling EXCEPT ![c] = "accepted"]
          PROVE  Contract!Next
      <4>1. UNCHANGED <<want, expired>>
        BY <2>1, <3>1
      <4> QED
        BY <1>1, <2>4, <3>1, <3>2, <3>9, <4>1, Executes
    <3> QED
      BY <3>6, <3>8, <3>9
  <2> QED
    BY <2>2, <2>3, <2>4
<1> QED
  BY <1>6, <1>7, <1>8, <1>9 DEF Task

\* Hanging up takes back what the client was told, if anything.
LEMMA HangUpContract ==
    ASSUME DataOK, CInv, NEW c \in Clients, client[c].conn # None, HangUp(c),
           want' \in [Clients -> Requests \cup {None}],
           \A d \in Clients \ {c} : want'[d] = want[d]
    PROVE  /\ OwnersWait' /\ Telling' = [Telling EXCEPT ![c] = "none"]
           /\ \A m \in Conns : conn'[m] = conn[m] \/ conn'[m] = Free
<1> DEFINE n == client[c].conn
<1>1. /\ n \in Conns
      /\ \A d \in Clients : client[d].conn # None => client[d].conn \in Conns
  BY OwnedConn
<1>2. /\ client'[c] = Idle /\ \A d \in Clients \ {c} : client'[d] = client[d]
      /\ \A m \in Conns \ {n} : conn'[m] = conn[m]
      /\ conn'[n] = conn[n] \/ conn'[n] = Free
  BY <1>1 DEF HangUp, DataOK
<1>3. \A d \in Clients \ {c} : client[d].conn # n
  BY DEF CInv, OwnersWait
<1>4. ASSUME NEW d \in Clients
      PROVE  /\ client'[d].pc # "connected" => client'[d].conn = None
             /\ client'[d].conn # None =>
                   LET q == conn'[client'[d].conn]
                   IN  want'[d] # None /\ q.state # "free" /\ (q.state \in Asked => q.req = want'[d])
             /\ AnswerAt(d)' = IF d = c THEN "none" ELSE AnswerAt(d)
  <2>1. CASE d = c
    BY <1>2, <2>1 DEF Idle, AnswerAt, At
  <2>2. CASE d # c
    <3>1. client'[d] = client[d] /\ want'[d] = want[d]
      BY <1>2, <2>2
    <3>2. client[d].conn # None => conn'[client[d].conn] = conn[client[d].conn]
      BY <1>1, <1>2, <1>3, <2>2
    <3> QED
      BY <2>2, <3>1, <3>2 DEF CInv, OwnersWait, AnswerAt, At
  <2> QED
    BY <2>1, <2>2
<1>5. \A d, e \in Clients : client'[d].conn # None /\ client'[d].conn = client'[e].conn => d = e
  <2>1. client'[c].conn = None
    BY <1>2 DEF Idle
  <2> QED
    BY <1>2, <2>1 DEF CInv, OwnersWait
<1>6. OwnersWait'
  BY <1>4, <1>5 DEF OwnersWait
<1>7. Telling' = [Telling EXCEPT ![c] = "none"]
  BY <1>4 DEF Telling
<1> QED
  BY <1>2, <1>6, <1>7

\* A call that ends before its client has the answer.
LEMMA LosesContract ==
    ASSUME DataOK, CInv, NEW c \in Clients, client[c].conn # None, HangUp(c),
           UNCHANGED <<want, rows>>
    PROVE  CInv' /\ [Contract!Next]_(Contract!vars)
<1>1. /\ OwnersWait' /\ Telling' = [Telling EXCEPT ![c] = "none"]
      /\ \A m \in Conns : conn'[m] = conn[m] \/ conn'[m] = Free
  BY HangUpContract DEF DataOK
<1>2. CInv'
  BY <1>1, FreeUnasked, StaysBacked DEF CInv
<1>3. CASE AnswerAt(c) = "none"
  <2>1. Telling' = Telling
    BY <1>1, <1>3 DEF Telling
  <2> QED
    BY <1>2, <2>1, Stutters
<1>4. CASE AnswerAt(c) # "none"
  <2>1. Telling[c] # "none"
    BY <1>4 DEF Telling
  <2>2. Contract!Lose(c)
    BY <1>1, <2>1 DEF Contract!Lose, Telling, rows
  <2> QED
    BY <1>2, <2>2 DEF Contract!Next
<1> QED
  BY <1>3, <1>4

\* With the answer the client stops waiting; nothing at work relied on it, for
\* the key is taken or what it would read has expired.
LEMMA ReceiveContract ==
    ASSUME SInv, CInv, NEW c \in Clients, Receive(c)
    PROVE  CInv' /\ [Contract!Next]_(Contract!vars)
<1> DEFINE n == client[c].conn
<1>1. DataOK /\ Told
  BY TypeGivesData DEF SInv
<1>2. /\ n # None /\ conn[n].state = "answered" /\ HangUp(c) /\ UNCHANGED rows
      /\ want' = [want EXCEPT ![c] = None]
  BY DEF Receive, At
<1>3. n \in Conns
  BY <1>1, <1>2, OwnedConn
<1>4. /\ want' \in [Clients -> Requests \cup {None}]
      /\ \A d \in Clients \ {c} : want'[d] = want[d]
  BY <1>1, <1>2 DEF DataOK
<1>5. /\ OwnersWait' /\ Telling' = [Telling EXCEPT ![c] = "none"]
      /\ \A m \in Conns : conn'[m] = conn[m] \/ conn'[m] = Free
  BY <1>1, <1>2, <1>4, HangUpContract
<1>6. conn[n].req = want[c]
  BY <1>2, WorkingAsked DEF CInv, OwnersWait
<1>7. remembered[want[c].key] # Unknown \/ expired
  BY <1>1, <1>2, <1>3, <1>6 DEF CInv, AnswerGiven, Told, AnswerTold
<1>8. ASSUME NEW m \in Conns PROVE Backed(m)' /\ AnswerGiven(m)'
  <2>1. CASE conn'[m] = Free
    BY <2>1 DEF Free, Backed, AnswerGiven, Working
  <2>2. CASE conn'[m] = conn[m]
    <3>1. AnswerGiven(m)'
      BY <1>2, <2>2 DEF CInv, AnswerGiven, rows
    <3>2. ASSUME conn[m].state \in Working, remembered[conn[m].req.key] = Unknown, ~expired
          PROVE  \E d \in Clients : want'[d] = conn[m].req
      <4>1. PICK d \in Clients : want[d] = conn[m].req
        BY <3>2 DEF CInv, Backed
      <4>2. d # c
        BY <1>7, <3>2, <4>1
      <4> QED
        BY <1>4, <4>1, <4>2
    <3>3. Backed(m)'
      BY <1>2, <2>2, <3>2 DEF Backed, rows
    <3> QED
      BY <3>1, <3>3
  <2> QED
    BY <1>5, <2>1, <2>2
<1>9. AnswerAt(c) # "none"
  BY <1>2, <1>3 DEF AnswerAt, At, CInv, AnswerGiven
<1>10. Contract!Receive(c)
  <2>1. Telling[c] # "none"
    BY <1>9 DEF Telling
  <2> QED
    BY <1>2, <1>5, <2>1 DEF Contract!Receive, Telling, rows
<1> QED
  BY <1>5, <1>8, <1>10 DEF CInv, Contract!Next

LEMMA ClientContract ==
    ASSUME SInv, CInv, NEW c \in Clients, Client(c)
    PROVE  CInv' /\ [Contract!Next]_(Contract!vars)
<1>1. DataOK /\ Told
  BY TypeGivesData DEF SInv
<1>2. ASSUME NEW r \in Asks[c], Ask(c, r)
      PROVE  CInv' /\ [Contract!Next]_(Contract!vars)
  <2>1. /\ want[c] = None /\ want' = [want EXCEPT ![c] = r]
        /\ UNCHANGED <<conn, client, rows>>
    BY <1>2 DEF Ask
  <2>2. client[c].conn = None
    BY <2>1 DEF CInv, OwnersWait
  <2>3. \A d \in Clients \ {c} : want'[d] = want[d]
    BY <1>1, <2>1 DEF DataOK
  <2>4. OwnersWait'
    BY <2>1, <2>2, <2>3 DEF CInv, OwnersWait
  <2>5. ASSUME NEW m \in Conns PROVE Backed(m)' /\ AnswerGiven(m)'
    <3>1. conn[m].state \in Working => conn[m].req # None
      BY <1>1, WorkingAsked, ServiceAssumption DEF Told, KnownStays
    <3>2. \A d \in Clients : conn[m].state \in Working /\ want[d] = conn[m].req => want'[d] = conn[m].req
      BY <2>1, <2>3, <3>1
    <3>3. Backed(m) /\ AnswerGiven(m)
      BY DEF CInv
    <3> QED
      BY <2>1, <3>2, <3>3 DEF Backed, AnswerGiven, rows
  <2>6. Telling' = Telling
    BY <2>1 DEF Telling, AnswerAt, At
  <2>7. Contract!Ask(c, r)
    BY <2>1, <2>6 DEF Contract!Ask, Telling, rows
  <2> QED
    BY <2>4, <2>5, <2>7 DEF CInv, Contract!Next
<1>3. CASE Dial(c)
  <2>1. PICK p \in Procs, n \in Conns :
            /\ conn[n] = Free
            /\ conn' = [conn EXCEPT ![n] = [Free EXCEPT !.state = "backlog", !.proc = p]]
            /\ client' = [client EXCEPT ![c] = [pc |-> "connected", conn |-> n]]
    BY <1>3 DEF Dial
  <2>2. want[c] # None /\ client[c].conn = None /\ UNCHANGED <<want, rows>>
    BY <1>3 DEF Dial
  <2>3. conn[n].state = "free" /\ n # None
    BY <2>1, ServiceAssumption DEF Free
  <2>4. /\ conn'[n].state = "backlog" /\ \A m \in Conns \ {n} : conn'[m] = conn[m]
        /\ client'[c].pc = "connected" /\ client'[c].conn = n
        /\ \A d \in Clients \ {c} : client'[d] = client[d]
    BY <1>1, <2>1 DEF DataOK, Free
  <2>5. \A d \in Clients : client[d].conn # n /\ (client[d].conn # None => client[d].conn \in Conns)
    BY <1>1, <2>3, OwnedConn DEF CInv, OwnersWait
  <2>6. "backlog" \notin Asked /\ "backlog" # "free"
    BY DEF Asked
  <2>7. OwnersWait'
    BY <2>2, <2>4, <2>5, <2>6 DEF CInv, OwnersWait
  <2>8. \A m \in Conns : Backed(m)' /\ AnswerGiven(m)'
    BY <2>2, <2>4, <2>6, StaysBacked
  <2>9. Telling' = Telling
    <3>1. \A d \in Clients : AnswerAt(d)' = AnswerAt(d)
      BY <2>2, <2>4, <2>5 DEF AnswerAt, At
    <3> QED
      BY <3>1 DEF Telling
  <2> QED
    BY <2>2, <2>7, <2>8, <2>9, Stutters DEF CInv
<1>4. CASE Send(c)
  <2>1. PICK n : n = client[c].conn
    OBVIOUS
  <2>2. /\ want[c] # None /\ n # None /\ conn[n].state = "greeting" /\ UNCHANGED <<want, rows>>
        /\ n \in Conns
    <3>1. /\ want[c] # None /\ n # None /\ conn[n].state = "greeting" /\ UNCHANGED <<want, rows>>
      BY <1>4, <2>1 DEF Send, At
    <3> QED
      BY <1>1, <2>1, <3>1, OwnedConn
  <2>3. CASE endpoint # conn[n].proc
    <3>1. HangUp(c)
      BY <1>4, <2>1, <2>3 DEF Send
    <3> QED
      BY <1>1, <2>1, <2>2, <3>1, LosesContract
  <2>4. CASE endpoint = conn[n].proc
    <3>1. /\ conn' = [conn EXCEPT ![n] = [@ EXCEPT !.state = "sent", !.req = want[c],
                                                   !.known = remembered[want[c].key]]]
          /\ UNCHANGED client
      BY <1>4, <2>1, <2>4 DEF Send
    <3>2. /\ conn'[n].state = "sent" /\ conn'[n].req = want[c]
          /\ \A m \in Conns \ {n} : conn'[m] = conn[m]
      BY <1>1, <2>2, <3>1 DEF DataOK, ConnType
    <3>3. \A d \in Clients \ {c} : client[d].conn # n
      BY <2>1, <2>2 DEF CInv, OwnersWait
    <3>4. \A d \in Clients : client[d].conn # None => client[d].conn \in Conns
      BY <1>1, OwnedConn
    <3>5. OwnersWait'
      BY <2>1, <2>2, <3>1, <3>2, <3>3, <3>4 DEF CInv, OwnersWait
    <3>6. Backed(n)' /\ AnswerGiven(n)'
      <4>1. want'[c] = conn'[n].req
        BY <2>1, <2>2, <3>2
      <4>2. \E d \in Clients : want'[d] = conn'[n].req
        BY <4>1
      <4>3. Backed(n)'
        BY <4>2 DEF Backed
      <4>4. conn'[n].state # "answered"
        BY <3>2
      <4>5. AnswerGiven(n)'
        BY <4>4 DEF AnswerGiven
      <4> QED
        BY <4>3, <4>5
    <3>7. \A m \in Conns \ {n} : Backed(m)' /\ AnswerGiven(m)'
      BY <2>1, <2>2, <3>2, StaysBacked
    <3>8. \A d \in Clients : AnswerAt(d)' = AnswerAt(d)
      BY <2>1, <2>2, <3>1, <3>2, <3>3, <3>4 DEF AnswerAt, At
    <3>9. Telling' = Telling
      BY <3>8 DEF Telling
    <3>10. CInv'
      <4>1. \A m \in Conns : (Backed(m) /\ AnswerGiven(m))'
        BY <3>6, <3>7
      <4> QED
        BY <3>5, <4>1 DEF CInv
    <3>11. UNCHANGED Contract!vars
      BY <2>1, <2>2, <3>9, Stutters
    <3> QED
      BY <3>10, <3>11
  <2> QED
    BY <2>3, <2>4
<1>5. CASE Receive(c)
  BY <1>5, ReceiveContract
<1>6. CASE Break(c)
  BY <1>1, <1>6, LosesContract DEF Break
<1>7. CASE Launch(c) \/ StartFails(c)
  <2>1. /\ client'[c].pc # "connected" /\ client'[c].conn = None
        /\ client[c].pc # "connected"
        /\ \A d \in Clients \ {c} : client'[d] = client[d]
        /\ UNCHANGED <<conn, want, rows>>
    BY <1>1, <1>7 DEF Launch, StartFails, DataOK, ClientType, Idle
  <2>2. client[c].conn = None
    BY <2>1 DEF CInv, OwnersWait
  <2>3. OwnersWait'
    BY <2>1, <2>2 DEF CInv, OwnersWait
  <2>4. \A m \in Conns : Backed(m)' /\ AnswerGiven(m)'
    BY <2>1, StaysBacked
  <2>5. \A d \in Clients : AnswerAt(d)' = AnswerAt(d)
    BY <2>1, <2>2 DEF AnswerAt, At
  <2>6. Telling' = Telling
    BY <2>5 DEF Telling
  <2> QED
    BY <2>1, <2>3, <2>4, <2>6, Stutters DEF CInv
<1>8. CASE Abandon(c)
  BY <1>1, <1>8, LosesContract DEF Abandon
<1> QED
  BY <1>2, <1>3, <1>4, <1>5, <1>6, <1>7, <1>8 DEF Client, Call

LEMMA ExpireContract ==
    ASSUME CInv, Expire
    PROVE  CInv' /\ [Contract!Next]_(Contract!vars)
<1>1. ~expired /\ expired' = TRUE /\ UNCHANGED <<conn, client, want, remembered>>
  BY DEF Expire
<1>2. CInv'
  BY <1>1 DEF CInv, OwnersWait, Backed, AnswerGiven
<1>3. Contract!Expire
  BY <1>1 DEF Contract!Expire, AnswerAt, At
<1> QED
  BY <1>2, <1>3 DEF Contract!Next

LEMMA StepContract ==
    ASSUME SInv, SInv', CInv, [Next]_vars
    PROVE  CInv' /\ [Contract!Next]_(Contract!vars)
<1>1. DataOK
  BY TypeGivesData DEF SInv
<1>2. ASSUME NEW p \in Procs, Coordinator(p)
      PROVE  CInv' /\ [Contract!Next]_(Contract!vars)
  BY <1>1, <1>2, CoordinatorContract, Stutters
<1>3. ASSUME NEW n \in Conns, Task(n)
      PROVE  CInv' /\ [Contract!Next]_(Contract!vars)
  BY <1>3, TaskContract
<1>4. ASSUME NEW c \in Clients, Client(c)
      PROVE  CInv' /\ [Contract!Next]_(Contract!vars)
  BY <1>4, ClientContract
<1>5. CASE Expire
  BY <1>5, ExpireContract
<1>6. CASE UNCHANGED vars
  <2>1. UNCHANGED <<conn, client, want, rows>>
    BY <1>6 DEF vars, rows
  <2>2. Telling' = Telling
    BY <2>1 DEF Telling, AnswerAt, At
  <2>3. CInv'
    BY <2>1 DEF CInv, OwnersWait, Backed, AnswerGiven, rows
  <2> QED
    BY <2>1, <2>2, <2>3, Stutters
<1> QED
  BY <1>2, <1>3, <1>4, <1>5, <1>6 DEF Next

LEMMA InitContract ==
    ASSUME Init
    PROVE  CInv /\ Contract!Init
<1>1. CInv
  BY DEF Init, CInv, OwnersWait, Backed, AnswerGiven, Working, Free, Idle
<1>2. \A c \in Clients : AnswerAt(c) = "none"
  BY DEF Init, AnswerAt, At, Idle
<1>3. Contract!Init
  BY <1>2 DEF Init, Contract!Init, Unknown
<1> QED
  BY <1>1, <1>3

(* Whatever could still execute a request has a client that waits for it,  *)
(* or can no longer execute it (call, submit).                             *)
THEOREM ServiceContractInductive == Spec => []CInv
<1>1. Init => CInv
  BY InitContract
<1>2. SInv /\ SInv' /\ CInv /\ [Next]_vars => CInv'
  BY StepContract
<1> QED
  BY <1>1, <1>2, ServiceInductive, PTL DEF Spec

(* To its client a request is one step, at most once under its key, between *)
(* the question and the answer: whichever processes end, connections break *)
(* and calls are given up and repeated (existing, submit, call).           *)
THEOREM RequestContractHolds == Spec => ImplementsRequestContract
<1>1. Init => Contract!Init
  BY InitContract
<1>2. SInv /\ SInv' /\ CInv /\ [Next]_vars => [Contract!Next]_(Contract!vars)
  BY StepContract
<1> QED
  BY <1>1, <1>2, ServiceInductive, ServiceContractInductive, PTL
     DEF Spec, ImplementsRequestContract, Contract!Spec
=============================================================================
