------------------------- MODULE Observation_proofs -------------------------
(***************************************************************************)
(* Theorems about what callers of Observation see.  The work of the jobs   *)
(* enters through one lemma (WorkCommits): every step of a job is a commit *)
(* of a row and its events that leaves ended jobs alone.  The calls enter  *)
(* through MoveHolds, AnswerHolds, BeginHolds and HangHolds.  The second   *)
(* part is about what the event log tells.                                 *)
(***************************************************************************)
EXTENDS Observation, SequenceTheorems, FiniteSetTheorems, WellFoundedInduction, TLAPS

\* Every nonempty set of naturals has a least element: the library's
\* well-foundedness of <, in a form that needs no operator parameter.
LEMMA LeastNatural ==
    ASSUME NEW T, T \subseteq Nat, T # {}
    PROVE  \E x \in T : \A y \in T : x <= y
<1> DEFINE R == {ss \in Nat \X Nat : ss[1] < ss[2]}
<1>1. IsWellFoundedOn(R, Nat)
  BY NatLessThanWellFounded DEF OpToRel
<1>2. PICK x \in T : \A y \in T : ~ (<<y, x>> \in R)
  <2> HIDE DEF R
  <2> QED BY <1>1, WFMin
<1>3. \A y \in T : ~(y < x)
  BY <1>2
<1> QED
  BY <1>3

-----------------------------------------------------------------------------
(* Sets of events: matching rows split at a cursor and do not change when  *)
(* the log grows behind them.                                              *)

LEMMA MatchingSplits ==
    ASSUME NEW l, NEW f, NEW a \in Nat, NEW b \in Nat, NEW d \in Nat, a <= b, b <= d
    PROVE  MatchingIn(l, f, a, d) = MatchingIn(l, f, a, b) \cup MatchingIn(l, f, b, d)
BY DEF MatchingIn

LEMMA MatchingNothing ==
    ASSUME NEW l, NEW f, NEW a \in Nat
    PROVE  MatchingIn(l, f, a, a) = {}
BY DEF MatchingIn

LEMMA MatchingTyped ==
    ASSUME NEW l, NEW f, NEW a \in Nat, NEW b \in Nat
    PROVE  MatchingIn(l, f, a, b) \in SUBSET Nat
BY DEF MatchingIn

LEMMA MatchingStable ==
    ASSUME NEW l \in Seq(Entries), NEW e \in Seq(Entries),
           NEW f, NEW a \in Nat, NEW b \in Nat, b <= Len(l)
    PROVE  MatchingIn(l \o e, f, a, b) = MatchingIn(l, f, a, b)
<1> DEFINE m == l \o e
<1>1. Len(m) = Len(l) + Len(e) /\ Len(e) \in Nat /\ Len(l) \in Nat
  OBVIOUS
<1>2. \A n \in 1 .. Len(l) : m[n] = l[n]
  OBVIOUS
<1>3. \A n \in a + 1 .. b : n <= Len(l) /\ n <= Len(m) /\ m[n] = l[n]
  BY <1>1, <1>2
<1> HIDE DEF m
<1>4. MatchingIn(m, f, a, b) = MatchingIn(l, f, a, b)
  BY <1>3 DEF MatchingIn
<1> QED
  BY <1>4 DEF m

-----------------------------------------------------------------------------
(* A read of the log stops at a row between its start and its window's end.*)

LEMMA ReadStops ==
    ASSUME ObservationAssumption, NEW p, p.start \in Nat, Len(log) \in Nat,
           p.start <= Len(log), p.limit \in Limits, p.room \in Rooms
    PROVE  /\ WindowEnd(p.start) \in p.start .. Len(log)
           /\ Taken(p) \in p.start .. WindowEnd(p.start)
<1> DEFINE E == WindowEnd(p.start)
           S == p.start .. E
           T == {n \in S : n = E \/ ~Fits(p, n + 1)}
<1>1. E \in Nat /\ p.start <= E /\ E <= Len(log)
  BY DEF WindowEnd, ObservationAssumption
<1>2. Fits(p, p.start)
  <2>1. Matching(p.filter, p.start, p.start) = {}
    BY MatchingNothing DEF Matching
  <2>2. Bytes({}) = 0
    <3>1. {n \in {} : log[n].type = "result.ready"} = {}
      OBVIOUS
    <3> QED BY <3>1, FS_EmptySet DEF Bytes
  <2>3. p.limit \in Nat /\ p.room \in Nat
    BY DEF ObservationAssumption
  <2> QED
    BY <2>1, <2>2, <2>3, FS_EmptySet DEF Fits
<1>3. PICK x \in T : \A y \in T : x <= y
  <2>1. E \in T /\ T \subseteq Nat
    BY <1>1
  <2> QED
    BY <2>1, LeastNatural
<1>4. Fits(p, x)
  <2>1. CASE x = p.start
    BY <2>1, <1>2
  <2>2. CASE x # p.start
    <3>1. x - 1 \in S /\ x - 1 # E /\ x - 1 \notin T
      BY <2>2, <1>1, <1>3
    <3>2. (x - 1) + 1 = x
      BY <1>1, <1>3
    <3> QED
      BY <3>1, <3>2
  <2> QED
    BY <2>1, <2>2
<1>5. \E n \in S : Fits(p, n) /\ (n = E \/ ~Fits(p, n + 1))
  BY <1>3, <1>4
<1>6. Taken(p) \in S
  BY <1>5 DEF Taken
<1> QED
  BY <1>1, <1>6

-----------------------------------------------------------------------------
(* Every step of a job is one commit of a row and its events, and the row  *)
(* of a job that ended keeps its state and its revision.                   *)

RowsTyped ==
    /\ job \in [Jobs -> Rows]
    /\ \A j \in Jobs : ~Terminal(job[j].state) => job[j].head <= job[j].parts

GoodCommit(j, row, e) ==
    /\ Commit(j, row, e)
    /\ ~Terminal(row.state) => row.head <= row.parts
    /\ Terminal(job[j].state) => row.state = job[j].state /\ row.head = job[j].head

LEMMA EntryTyped ==
    ASSUME NEW j \in Jobs
    PROVE  /\ \A t \in EventTypes, s \in {"none", "queued", "running"} \cup Ends :
                StateEvent(j, t, s) \in Entries
           /\ \A t \in EventTypes, r \in 0 .. MaxParts + 1 : ResultEvent(j, t, r) \in Entries
<1>1. MaxParts \in Nat
  BY ObservationAssumption DEF ObservationAssumption
<1> QED
  BY <1>1 DEF StateEvent, ResultEvent, Event, Entries

LEMMA FinishCommits ==
    ASSUME RowsTyped, NEW j \in Jobs, NEW report \in Ends, Finish(j, report)
    PROVE  \E row \in Rows, e \in Seq(Entries) : GoodCommit(j, row, e)
<1> DEFINE s == EndState(j, report)
           row == [job[j] EXCEPT !.state = s,
                                 !.head = IF ShowsResult(j, s) THEN @ + 1 ELSE @]
           ready == IF ShowsResult(j, s)
                    THEN <<ResultEvent(j, "result.ready", job[j].head + 1)>> ELSE <<>>
           data == IF s = "completed" /\ job[j].kind = "prepare"
                   THEN <<ResultEvent(j, "dataset.ready", 0)>> ELSE <<>>
           end == <<StateEvent(j, "job.ended", s)>>
<1>0. MaxParts \in Nat
  BY ObservationAssumption DEF ObservationAssumption
<1>1. job[j] \in Rows /\ job[j].state \in {"running", "stopping"}
  BY DEF RowsTyped, Finish
<1>2. s \in Ends
  BY <1>1 DEF EndState, Rows, States, StopReasons, Ends
<1>3. ~Terminal(job[j].state)
  BY <1>1 DEF Terminal, Ends
<1>4. job[j].head \in Nat /\ job[j].parts \in 0 .. MaxParts /\ job[j].head <= job[j].parts
  BY <1>0, <1>1, <1>3 DEF RowsTyped, Rows, States
<1>5. job[j].head + 1 \in 0 .. MaxParts + 1
  BY <1>0, <1>4
<1>6. row \in Rows /\ row.state = s
  BY <1>1, <1>2, <1>5 DEF Rows, States
<1>7. ready \in Seq(Entries) /\ data \in Seq(Entries) /\ end \in Seq(Entries)
  <2>1. ResultEvent(j, "result.ready", job[j].head + 1) \in Entries
    BY <1>5, EntryTyped DEF EventTypes
  <2>2. ResultEvent(j, "dataset.ready", 0) \in Entries
    BY <1>0, EntryTyped DEF EventTypes
  <2>3. StateEvent(j, "job.ended", s) \in Entries
    BY <1>2, EntryTyped DEF EventTypes
  <2> HIDE DEF s
  <2> QED
    BY <2>1, <2>2, <2>3
<1>8. EndEvents(j, s) = ready \o data \o end
  BY DEF EndEvents
<1>9. ready \o data \o end \in Seq(Entries)
  <2> HIDE DEF ready, data, end
  <2> QED BY <1>7
<1>10. Commit(j, row, EndEvents(j, s))
  BY DEF Finish
<1>11. Terminal(row.state)
  BY <1>2, <1>6 DEF Terminal
<1> HIDE DEF row, s
<1> QED
  BY <1>3, <1>6, <1>8, <1>9, <1>10, <1>11 DEF GoodCommit

LEMMA WorkCommits ==
    ASSUME RowsTyped, NEW j \in Jobs, Work(j)
    PROVE  \E row \in Rows, e \in Seq(Entries) : GoodCommit(j, row, e)
<1>0. MaxParts \in Nat /\ Kinds \subseteq Shapes /\ Reports \subseteq Ends /\ Stops \subseteq StopReasons
  BY ObservationAssumption DEF ObservationAssumption
<1>1. job[j] \in Rows
  BY DEF RowsTyped
<1>2. <<>> \in Seq(Entries)
  OBVIOUS
<1>3. ASSUME NEW k \in Kinds, Submit(j, k)
      PROVE  \E row \in Rows, e \in Seq(Entries) : GoodCommit(j, row, e)
  <2> DEFINE row == [Absent EXCEPT !.state = "queued", !.kind = k]
             e == <<StateEvent(j, "job.accepted", "queued")>>
  <2>0. Absent \in Rows /\ Absent.head = 0 /\ Absent.parts = 0
    BY <1>0 DEF Absent, Rows, States
  <2>1. row \in Rows /\ row.head <= row.parts
    <3>1. [Absent EXCEPT !.state = "queued"] \in Rows
      BY <2>0 DEF Rows, States
    <3>2. row = [[Absent EXCEPT !.state = "queued"] EXCEPT !.kind = k]
      OBVIOUS
    <3>3. row \in Rows
      BY <3>1, <3>2 DEF Rows, States
    <3>4. row.head = 0 /\ row.parts = 0
      BY <2>0 DEF Rows, States
    <3> QED
      BY <3>3, <3>4
  <2>2. e \in Seq(Entries)
    BY EntryTyped DEF EventTypes
  <2>3. GoodCommit(j, row, e)
    BY <1>3, <2>1 DEF Submit, GoodCommit, Terminal, Ends
  <2> QED
    BY <2>1, <2>2, <2>3
<1>4. ASSUME Start(j)
      PROVE  \E row \in Rows, e \in Seq(Entries) : GoodCommit(j, row, e)
  <2> DEFINE row == [job[j] EXCEPT !.state = "running"]
             e == <<StateEvent(j, "job.started", "running")>>
  <2>1. row \in Rows
    BY <1>1 DEF Rows, States
  <2>2. e \in Seq(Entries)
    BY EntryTyped DEF EventTypes
  <2>3. GoodCommit(j, row, e)
    BY <1>1, <1>4 DEF Start, GoodCommit, RowsTyped, Rows, States, Terminal, Ends
  <2> QED
    BY <2>1, <2>2, <2>3
<1>5. ASSUME Publish(j)
      PROVE  \E row \in Rows, e \in Seq(Entries) : GoodCommit(j, row, e)
  <2> DEFINE shown == job[j].kind = "preview"
             rev == job[j].head + 1
             row == [job[j] EXCEPT !.parts = @ + 1, !.head = IF shown THEN rev ELSE @]
             e == IF shown THEN <<ResultEvent(j, "result.ready", rev)>> ELSE <<>>
  <2>1. job[j].state = "running" /\ job[j].parts < MaxParts /\ job[j].head <= job[j].parts
    BY <1>5 DEF Publish, RowsTyped, Terminal, Ends
  <2>2. rev \in 0 .. MaxParts + 1 /\ job[j].parts + 1 \in 0 .. MaxParts /\ rev <= job[j].parts + 1
    BY <1>0, <1>1, <2>1 DEF Rows, States
  <2>3. row \in Rows /\ row.head <= row.parts
    <3> DEFINE h == IF shown THEN rev ELSE job[j].head
               q == job[j].parts + 1
    <3>1. h \in 0 .. MaxParts + 1 /\ q \in 0 .. MaxParts /\ h <= q
      BY <1>0, <1>1, <2>1, <2>2 DEF Rows, States
    <3>2. row = [job[j] EXCEPT !.parts = q, !.head = h]
      OBVIOUS
    <3> HIDE DEF h, q, row
    <3> QED
      BY <1>1, <3>1, <3>2 DEF Rows, States
  <2>4. e \in Seq(Entries)
    <3>1. ResultEvent(j, "result.ready", rev) \in Entries
      BY <2>2, EntryTyped DEF EventTypes
    <3> QED BY <3>1
  <2>5. Commit(j, row, e)
    BY <1>5 DEF Publish
  <2> HIDE DEF row, e
  <2> QED
    BY <2>1, <2>3, <2>4, <2>5 DEF GoodCommit, Terminal, Ends
<1>6. ASSUME Invalidate(j)
      PROVE  \E row \in Rows, e \in Seq(Entries) : GoodCommit(j, row, e)
  <2> DEFINE row == [job[j] EXCEPT !.valid = FALSE]
             e == <<ResultEvent(j, "result.invalidated", 0)>>
  <2>1. row \in Rows
    BY <1>1 DEF Rows, States
  <2>2. e \in Seq(Entries)
    BY <1>0, EntryTyped DEF EventTypes
  <2>3. GoodCommit(j, row, e)
    BY <1>1, <1>6 DEF Invalidate, GoodCommit, RowsTyped, Rows, States
  <2> QED
    BY <2>1, <2>2, <2>3
<1>7. ASSUME NEW r \in Stops, Cancel(j, r)
      PROVE  \E row \in Rows, e \in Seq(Entries) : GoodCommit(j, row, e)
  <2>1. r \in StopReasons /\ r \in Ends
    BY <1>0 DEF StopReasons, Ends
  <2>2. CASE job[j].state = "queued"
    <3> DEFINE row == [job[j] EXCEPT !.state = r, !.stop = r]
               e == <<StateEvent(j, "job.ended", r)>>
    <3>1. row \in Rows /\ row.state \in Ends
      BY <1>1, <2>1 DEF Rows, States
    <3>2. e \in Seq(Entries)
      <4>1. StateEvent(j, "job.ended", r) \in Entries
        BY <2>1, EntryTyped DEF EventTypes
      <4> QED BY <4>1
    <3>3. Commit(j, row, e) /\ ~Terminal(job[j].state)
      BY <1>7, <2>2 DEF Cancel, Terminal, Ends
    <3> HIDE DEF row, e
    <3> QED
      BY <3>1, <3>2, <3>3 DEF GoodCommit, Terminal
  <2>3. CASE job[j].state \in {"running", "stopping"}
    <3> DEFINE row == [job[j] EXCEPT !.state = "stopping",
                                     !.stop = IF @ = "none" THEN r ELSE @]
    <3>1. row \in Rows
      BY <1>1, <2>1 DEF Rows, States
    <3>2. row.head <= row.parts
      BY <1>1, <2>3 DEF Rows, States, RowsTyped, Terminal, Ends
    <3>3. Commit(j, row, <<>>) /\ ~Terminal(job[j].state)
      BY <1>7, <2>3 DEF Cancel, Terminal, Ends
    <3> HIDE DEF row
    <3> QED
      BY <1>2, <3>1, <3>2, <3>3 DEF GoodCommit
  <2> QED
    BY <1>7, <2>2, <2>3 DEF Cancel
<1>8. ASSUME NEW r \in Ends, Finish(j, r)
      PROVE  \E row \in Rows, e \in Seq(Entries) : GoodCommit(j, row, e)
  BY <1>8, FinishCommits
<1>9. Recover(j) => \E r \in Ends : Finish(j, r)
  BY DEF Recover, Ends
<1>10. (\E r \in Reports : up /\ Finish(j, r)) => \E r \in Ends : Finish(j, r)
  BY <1>0
<1> QED
  BY <1>3, <1>4, <1>5, <1>6, <1>7, <1>8, <1>9, <1>10 DEF Work

-----------------------------------------------------------------------------
(* The inductive invariant.  What is on its way or asleep has to be tied   *)
(* to the log: a call starts at its follower's cursor, an answered page    *)
(* holds what follows that cursor, a terminal answer agrees with its row,  *)
(* and a call that is about to sleep found nothing unless it was notified. *)

NothingFor(c) ==
    IF call[c].method = "events" THEN Len(log) <= call[c].start
    ELSE ~Terminal(job[call[c].job].state)

FollowOK(c) ==
    follow[c] # Nothing =>
        /\ follow[c].base <= follow[c].cursor /\ follow[c].cursor <= Len(log)
        /\ follow[c].got = Matching(follow[c].filter, follow[c].base, follow[c].cursor)

PollOK(c) ==
    call[c].pc \in Places /\ call[c].method = "events" =>
        /\ follow[c] # Nothing
        /\ call[c].start = follow[c].cursor /\ call[c].filter = follow[c].filter

PageOK(c) ==
    call[c].pc = "answered" /\ call[c].answer.pc = "page" =>
        /\ follow[c] # Nothing
        /\ follow[c].cursor <= call[c].answer.cursor
        /\ call[c].answer.cursor <= Len(log)
        /\ call[c].answer.list =
               Matching(follow[c].filter, follow[c].cursor, call[c].answer.cursor)

Final(a) == Terminal(a.state) => job[a.job].state = a.state /\ job[a.job].head = a.head

StateOK(c) == call[c].pc = "answered" /\ call[c].answer.pc = "state" => Final(call[c].answer)

ToldOK(c) == told[c] # Nothing => Terminal(told[c].state) /\ Final(told[c])

AsleepOK(c) ==
    call[c].pc \in {"drowsy", "asleep"} /\ ~fresh[c] /\ ~unsent => NothingFor(c)

ClientOK(c) ==
    /\ FollowOK(c) /\ PollOK(c) /\ PageOK(c) /\ StateOK(c) /\ ToldOK(c) /\ AsleepOK(c)

IInv == TypeOK /\ RowsTyped /\ \A c \in Clients : ClientOK(c)

LEMMA PcOfCall ==
    ASSUME NEW k \in Calls
    PROVE  /\ k.pc \in {"idle", "answered"} \cup Places
           /\ k.pc = "idle" <=> k = Idle
           /\ k.pc = "answered" <=> k \in AnsweredCalls
           /\ k.pc \in Places <=> k \in EventCalls \cup WaitCalls
           /\ k.pc \in Places =>
                 /\ k.method = "events" => k \in EventCalls
                 /\ k.method = "wait" => k \in WaitCalls
                 /\ k.method \in {"events", "wait"}
<1>1. Idle \notin EventCalls /\ Idle.pc = "idle"
  BY DEF Idle, EventCalls, Places, Receiving
<1>2. CASE k = Idle
  BY <1>1, <1>2 DEF Idle, EventCalls, WaitCalls, AnsweredCalls, Places, Receiving
<1>3. CASE k \in EventCalls
  BY <1>3 DEF Idle, EventCalls, WaitCalls, AnsweredCalls, Places, Receiving
<1>4. CASE k \in WaitCalls
  BY <1>4 DEF Idle, EventCalls, WaitCalls, AnsweredCalls, Places, Receiving
<1>5. CASE k \in AnsweredCalls
  BY <1>5 DEF Idle, EventCalls, WaitCalls, AnsweredCalls, Places, Receiving
<1> QED
  BY <1>2, <1>3, <1>4, <1>5 DEF Calls

LEMMA AnswerCases ==
    ASSUME NEW a \in {Nothing} \cup Told \cup Pages
    PROVE  /\ a.pc = "page" => a \in Pages
           /\ a.pc = "state" => a \in Told
BY DEF Nothing, Told, Pages

\* A call that moves on keeps its request.
LEMMA MoveTyped ==
    ASSUME NEW k \in Calls, k.pc \in Places, NEW p \in Places
    PROVE  LET m == [k EXCEPT !.pc = p]
           IN  /\ m \in Calls /\ m.pc = p /\ m.method = k.method
               /\ k.method = "events" => m.start = k.start /\ m.filter = k.filter
               /\ k.method = "wait" => m.job = k.job
<1>1. CASE k \in EventCalls
  BY <1>1 DEF EventCalls, Calls
<1>2. CASE k \in WaitCalls
  BY <1>2 DEF WaitCalls, Calls
<1> QED
  BY <1>1, <1>2, PcOfCall

Followed ==
    [pc : {"following"}, filter : Filters, base : Nat, view : Views,
     cursor : Nat, got : SUBSET Nat]

LEMMA FollowTyped ==
    ASSUME NEW f \in Follows, f # Nothing
    PROVE  /\ f.cursor \in Nat /\ f.base \in Nat /\ f.filter \in Filters
           /\ f.got \in SUBSET Nat
           /\ \A n \in Nat, g \in SUBSET Nat :
                 /\ Advanced(f, n, g) \in Follows /\ Advanced(f, n, g) # Nothing
                 /\ Advanced(f, n, g).cursor = n /\ Advanced(f, n, g).got = f.got \cup g
                 /\ Advanced(f, n, g).base = f.base
                 /\ Advanced(f, n, g).filter = f.filter
<1>1. f \in Followed
  BY DEF Follows, Followed
<1>2. \A n \in Nat, g \in SUBSET Nat :
         /\ Advanced(f, n, g) \in Followed
         /\ Advanced(f, n, g).cursor = n /\ Advanced(f, n, g).got = f.got \cup g
         /\ Advanced(f, n, g).base = f.base
         /\ Advanced(f, n, g).filter = f.filter
  BY <1>1 DEF Followed, Advanced
<1>3. \A h \in Followed : h # Nothing /\ h \in Follows
  BY DEF Nothing, Follows, Followed
<1>4. f.cursor \in Nat /\ f.base \in Nat /\ f.filter \in Filters /\ f.got \in SUBSET Nat
  BY <1>1 DEF Followed
<1> QED
  BY <1>2, <1>3, <1>4

-----------------------------------------------------------------------------
(* Init, and the steps that change the database.                           *)

LEMMA InitHolds ==
    ASSUME Init
    PROVE  IInv
<1>0. MaxParts \in Nat /\ MaxLost \in Nat /\ MaxCrashes \in Nat
  BY ObservationAssumption DEF ObservationAssumption
<1>1. RowsTyped
  BY <1>0 DEF Init, RowsTyped, Rows, States, Absent
<1>2. TypeOK
  <2>1. Idle \in Calls /\ Nothing \in Follows
    BY DEF Calls, Follows
  <2>2. <<>> \in Seq(Entries)
    OBVIOUS
  <2>3. /\ call \in [Clients -> Calls] /\ follow \in [Clients -> Follows]
        /\ told \in [Clients -> {Nothing} \cup Told]
    BY <2>1 DEF Init
  <2>4. fresh \in [Clients -> BOOLEAN] /\ late \in [Clients -> BOOLEAN]
    BY DEF Init
  <2>5. unsent \in BOOLEAN /\ up \in BOOLEAN /\ log \in Seq(Entries)
    BY <2>2 DEF Init
  <2>6. lost \in 0 .. MaxLost /\ crashes \in 0 .. MaxCrashes
    BY <1>0 DEF Init
  <2> QED
    BY <1>1, <2>3, <2>4, <2>5, <2>6 DEF TypeOK, RowsTyped
<1>3. ASSUME NEW c \in Clients
      PROVE  ClientOK(c)
  <2>1. call[c] = Idle /\ follow[c] = Nothing /\ told[c] = Nothing
    BY DEF Init
  <2>2. call[c].pc = "idle"
    BY <2>1 DEF Idle
  <2> QED
    BY <2>1, <2>2 DEF ClientOK, FollowOK, PollOK, PageOK, StateOK, ToldOK, AsleepOK,
                      Places, Receiving
<1> QED
  BY <1>1, <1>2, <1>3 DEF IInv

\* What TypeOK and RowsTyped say of the database after a commit.
LEMMA CommitTyped ==
    ASSUME IInv, NEW j \in Jobs, NEW row \in Rows, NEW e \in Seq(Entries),
           GoodCommit(j, row, e)
    PROVE  /\ TypeOK' /\ RowsTyped'
           /\ Len(log) \in Nat /\ Len(log) <= Len(log')
<1>1. /\ job' = [job EXCEPT ![j] = row] /\ log' = log \o e /\ unsent' = TRUE
      /\ UNCHANGED <<up, call, fresh, late, follow, told, lost, crashes>>
      /\ ~Terminal(row.state) => row.head <= row.parts
  BY DEF GoodCommit, Commit, callVars, clientVars
<1>2. log \in Seq(Entries) /\ job \in [Jobs -> Rows]
  BY DEF IInv, TypeOK
<1>3. log' \in Seq(Entries) /\ Len(log) \in Nat /\ Len(log) <= Len(log')
  BY <1>1, <1>2
<1>4. RowsTyped'
  BY <1>1, <1>2 DEF IInv, RowsTyped
<1>5. TypeOK'
  BY <1>1, <1>3, <1>4 DEF IInv, TypeOK, RowsTyped
<1> QED
  BY <1>3, <1>4, <1>5

LEMMA FinalStays ==
    ASSUME IInv, NEW j \in Jobs, NEW row \in Rows, NEW e \in Seq(Entries),
           GoodCommit(j, row, e), NEW a \in Told, Final(a)
    PROVE  Final(a)'
<1>1. a.job \in Jobs
  BY DEF Told
<1>2. job' = [job EXCEPT ![j] = row] /\ job \in [Jobs -> Rows]
  BY DEF GoodCommit, Commit, IInv, TypeOK
<1>3. Terminal(job[j].state) => row.state = job[j].state /\ row.head = job[j].head
  BY DEF GoodCommit
<1> QED
  BY <1>1, <1>2, <1>3 DEF Final, Terminal

LEMMA CommitHolds ==
    ASSUME IInv, NEW j \in Jobs, NEW row \in Rows, NEW e \in Seq(Entries),
           GoodCommit(j, row, e)
    PROVE  IInv'
<1>1. /\ TypeOK' /\ RowsTyped' /\ Len(log) \in Nat /\ Len(log) <= Len(log') /\ Len(log') \in Nat
  <2>1. TypeOK' /\ RowsTyped' /\ Len(log) \in Nat /\ Len(log) <= Len(log')
    BY CommitTyped
  <2>2. Len(log') \in Nat
    BY <2>1 DEF TypeOK
  <2> QED BY <2>1, <2>2
<1>2. /\ log' = log \o e /\ unsent' = TRUE
      /\ UNCHANGED <<call, fresh, follow, told>>
  BY DEF GoodCommit, Commit, callVars, clientVars
<1>3. ASSUME NEW c \in Clients
      PROVE  ClientOK(c)'
  <2>0. /\ log \in Seq(Entries) /\ call[c] \in Calls /\ follow[c] \in Follows
        /\ told[c] \in {Nothing} \cup Told
        /\ FollowOK(c) /\ PollOK(c) /\ PageOK(c) /\ StateOK(c) /\ ToldOK(c)
    BY DEF IInv, TypeOK, ClientOK
  <2>1. FollowOK(c)'
    <3> SUFFICES ASSUME follow[c] # Nothing
                 PROVE  /\ follow[c].base <= follow[c].cursor /\ follow[c].cursor <= Len(log')
                        /\ follow[c].got =
                             MatchingIn(log', follow[c].filter, follow[c].base, follow[c].cursor)
      BY <1>2 DEF FollowOK, Matching
    <3>1. follow[c].base \in Nat /\ follow[c].cursor \in Nat
      BY <2>0, FollowTyped
    <3> QED
      BY <1>1, <1>2, <2>0, <3>1, MatchingStable DEF FollowOK, Matching
  <2>2. PollOK(c)'
    BY <1>2, <2>0 DEF PollOK
  <2>3. PageOK(c)'
    <3> SUFFICES ASSUME call[c].pc = "answered", call[c].answer.pc = "page"
                 PROVE  /\ follow[c] # Nothing
                        /\ follow[c].cursor <= call[c].answer.cursor
                        /\ call[c].answer.cursor <= Len(log')
                        /\ call[c].answer.list =
                             MatchingIn(log', follow[c].filter, follow[c].cursor,
                                        call[c].answer.cursor)
      BY <1>2 DEF PageOK, Matching
    <3>1. call[c].answer \in Pages
      BY <2>0, PcOfCall, AnswerCases DEF AnsweredCalls
    <3>2. call[c].answer.cursor \in Nat
      BY <3>1 DEF Pages
    <3>3. follow[c] # Nothing
      BY <2>0 DEF PageOK
    <3>4. follow[c].cursor \in Nat
      BY <2>0, <3>3, FollowTyped
    <3> QED
      BY <1>1, <1>2, <2>0, <3>2, <3>3, <3>4, MatchingStable DEF PageOK, Matching
  <2>4. StateOK(c)'
    <3> SUFFICES ASSUME call[c].pc = "answered", call[c].answer.pc = "state"
                 PROVE  Final(call[c].answer)'
      BY <1>2 DEF StateOK, Final
    <3>1. call[c].answer \in Told
      BY <2>0, PcOfCall, AnswerCases DEF AnsweredCalls
    <3>2. Final(call[c].answer)
      BY <2>0 DEF StateOK
    <3>3. \A a \in Told : Final(a) => Final(a)'
      BY FinalStays
    <3> QED
      BY <1>2, <3>1, <3>2, <3>3 DEF Final
  <2>5. ToldOK(c)'
    <3> SUFFICES ASSUME told[c] # Nothing
                 PROVE  Terminal(told[c].state) /\ Final(told[c])'
      BY <1>2 DEF ToldOK, Final
    <3>1. told[c] \in Told /\ Terminal(told[c].state) /\ Final(told[c])
      BY <2>0 DEF ToldOK
    <3>3. \A a \in Told : Final(a) => Final(a)'
      BY FinalStays
    <3> QED
      BY <1>2, <3>1, <3>3 DEF Final
  <2>6. AsleepOK(c)'
    BY <1>2 DEF AsleepOK
  <2> QED
    BY <2>1, <2>2, <2>3, <2>4, <2>5, <2>6 DEF ClientOK
<1> QED
  BY <1>1, <1>3 DEF IInv

\* A client whose call and knowledge a step leaves alone.
LEMMA OthersHold ==
    ASSUME IInv, NEW d \in Clients, UNCHANGED <<job, log, unsent>>,
           call'[d] = call[d], fresh'[d] = fresh[d],
           follow'[d] = follow[d], told'[d] = told[d]
    PROVE  ClientOK(d)'
<1>1. ClientOK(d)
  BY DEF IInv
<1> QED
  BY <1>1 DEF ClientOK, FollowOK, PollOK, PageOK, StateOK, ToldOK, AsleepOK, NothingFor,
              Final, Matching

\* The parts of the invariant that speak of the database alone.
LEMMA DatabaseHolds ==
    ASSUME IInv, UNCHANGED <<job, log>>
    PROVE  RowsTyped' /\ log' \in Seq(Entries) /\ job' \in [Jobs -> Rows]
BY DEF IInv, TypeOK, RowsTyped

LEMMA NotifyHolds ==
    ASSUME IInv, Notify
    PROVE  IInv'
<1>1. /\ UNCHANGED <<job, log, up, call, late, follow, told, lost, crashes>>
      /\ unsent' = FALSE
      /\ fresh' = [c \in Clients |-> call[c].pc \in Receiving]
  BY DEF Notify, clientVars
<1>2. TypeOK' /\ RowsTyped'
  <2>1. fresh' \in [Clients -> BOOLEAN]
    <3>1. \A c \in Clients : (call[c].pc \in Receiving) \in BOOLEAN
      OBVIOUS
    <3>2. [c \in Clients |-> call[c].pc \in Receiving] \in [Clients -> BOOLEAN]
      BY <3>1, Zenon
    <3> QED
      BY <1>1, <3>2, Zenon
  <2>2. /\ UNCHANGED <<job, log, up, call, late, follow, told, lost, crashes>>
        /\ unsent' \in BOOLEAN
    BY <1>1
  <2> QED
    BY <2>1, <2>2, DatabaseHolds DEF IInv, TypeOK
<1>3. ASSUME NEW c \in Clients
      PROVE  ClientOK(c)'
  <2>1. ClientOK(c)
    BY DEF IInv
  <2>2. AsleepOK(c)'
    BY <1>1 DEF AsleepOK, Receiving
  <2>3. (FollowOK(c) /\ PollOK(c) /\ PageOK(c) /\ StateOK(c) /\ ToldOK(c))'
    BY <1>1, <2>1 DEF ClientOK, FollowOK, PollOK, PageOK, StateOK, ToldOK, Final, Matching
  <2> QED
    BY <2>2, <2>3 DEF ClientOK
<1> QED
  BY <1>2, <1>3 DEF IInv

LEMMA CrashHolds ==
    ASSUME IInv, Crash
    PROVE  IInv'
<1>0. MaxCrashes \in Nat
  BY ObservationAssumption DEF ObservationAssumption
<1>1. /\ UNCHANGED <<job, log, follow, told, lost>>
      /\ unsent' = FALSE /\ up' = FALSE /\ crashes < MaxCrashes /\ crashes' = crashes + 1
      /\ fresh' = [c \in Clients |-> FALSE] /\ late' = [c \in Clients |-> FALSE]
      /\ call' = [c \in Clients |-> Idle]
  BY DEF Crash, clientVars
<1>2. TypeOK' /\ RowsTyped'
  <2>1. crashes' \in 0 .. MaxCrashes
    BY <1>0, <1>1 DEF IInv, TypeOK
  <2>2. call' \in [Clients -> Calls]
    BY <1>1 DEF Calls
  <2> QED
    BY <1>1, <2>1, <2>2, DatabaseHolds DEF IInv, TypeOK
<1>3. ASSUME NEW c \in Clients
      PROVE  ClientOK(c)'
  <2>1. ClientOK(c)
    BY DEF IInv
  <2>2. call'[c].pc = "idle"
    BY <1>1 DEF Idle
  <2>3. (PollOK(c) /\ PageOK(c) /\ StateOK(c) /\ AsleepOK(c))'
    BY <2>2 DEF PollOK, PageOK, StateOK, AsleepOK, Places, Receiving
  <2>4. (FollowOK(c) /\ ToldOK(c))'
    BY <1>1, <2>1 DEF ClientOK, FollowOK, ToldOK, Final, Matching
  <2> QED
    BY <2>3, <2>4 DEF ClientOK
<1> QED
  BY <1>2, <1>3 DEF IInv

LEMMA ServeHolds ==
    ASSUME IInv, Serve
    PROVE  IInv'
<1>1. /\ UNCHANGED <<job, log, unsent, call, fresh, late, follow, told, lost, crashes>>
      /\ up' = TRUE
  BY DEF Serve, jobVars, callVars, clientVars
<1>2. TypeOK' /\ RowsTyped'
  BY <1>1, DatabaseHolds DEF IInv, TypeOK
<1>3. \A c \in Clients : ClientOK(c)'
  BY <1>1, OthersHold
<1> QED
  BY <1>2, <1>3 DEF IInv

-----------------------------------------------------------------------------
(* The steps of one call, and of its caller.                               *)

\* A step that changes what one client holds and nothing of the database.
ClientStep(c) ==
    /\ UNCHANGED <<job, log, unsent>>
    /\ up' \in BOOLEAN /\ lost' \in 0 .. MaxLost /\ UNCHANGED crashes
    /\ \E k \in Calls : call' = [call EXCEPT ![c] = k]
    /\ \E b \in BOOLEAN : fresh' = [fresh EXCEPT ![c] = b]
    /\ \E b \in BOOLEAN : late' = [late EXCEPT ![c] = b]
    /\ \E f \in Follows : follow' = [follow EXCEPT ![c] = f]
    /\ \E a \in {Nothing} \cup Told : told' = [told EXCEPT ![c] = a]

LEMMA ClientStepHolds ==
    ASSUME IInv, NEW c \in Clients, ClientStep(c), ClientOK(c)'
    PROVE  IInv'
<1>1. TypeOK' /\ RowsTyped'
  <2>1. /\ call' \in [Clients -> Calls] /\ fresh' \in [Clients -> BOOLEAN]
        /\ late' \in [Clients -> BOOLEAN]
    BY DEF ClientStep, IInv, TypeOK
  <2>2. /\ follow' \in [Clients -> Follows] /\ told' \in [Clients -> {Nothing} \cup Told]
    BY DEF ClientStep, IInv, TypeOK
  <2>3. /\ up' \in BOOLEAN /\ lost' \in 0 .. MaxLost /\ crashes' = crashes
        /\ UNCHANGED <<job, log, unsent>>
    BY DEF ClientStep
  <2> QED
    BY <2>1, <2>2, <2>3, DatabaseHolds DEF IInv, TypeOK
<1>2. ASSUME NEW d \in Clients, d # c
      PROVE  ClientOK(d)'
  <2>1. /\ UNCHANGED <<job, log, unsent>>
        /\ call'[d] = call[d] /\ fresh'[d] = fresh[d]
        /\ follow'[d] = follow[d] /\ told'[d] = told[d]
    BY <1>2 DEF ClientStep, IInv, TypeOK
  <2> QED
    BY <2>1, OthersHold
<1> QED
  BY <1>1, <1>2 DEF IInv

\* What the invariant says of one client.
LEMMA OneClient ==
    ASSUME IInv, NEW c \in Clients
    PROVE  /\ call[c] \in Calls /\ fresh[c] \in BOOLEAN /\ late[c] \in BOOLEAN
           /\ follow[c] \in Follows /\ told[c] \in {Nothing} \cup Told
           /\ log \in Seq(Entries) /\ Len(log) \in Nat /\ job \in [Jobs -> Rows]
           /\ up \in BOOLEAN /\ lost \in 0 .. MaxLost
           /\ call = [call EXCEPT ![c] = call[c]]
           /\ fresh = [fresh EXCEPT ![c] = fresh[c]]
           /\ late = [late EXCEPT ![c] = late[c]]
           /\ follow = [follow EXCEPT ![c] = follow[c]]
           /\ told = [told EXCEPT ![c] = told[c]]
           /\ FollowOK(c) /\ PollOK(c) /\ PageOK(c) /\ StateOK(c) /\ ToldOK(c) /\ AsleepOK(c)
BY DEF IInv, TypeOK, ClientOK

\* A call moves to another place with its request, its receiver set to b.
LEMMA MoveHolds ==
    ASSUME IInv, NEW c \in Clients, call[c].pc \in Places, NEW p \in Places,
           NEW b \in BOOLEAN,
           UNCHANGED <<job, log, unsent, up, late, follow, told, lost, crashes>>,
           call' = [call EXCEPT ![c].pc = p], fresh' = [fresh EXCEPT ![c] = b],
           p \in {"drowsy", "asleep"} /\ ~b /\ ~unsent => NothingFor(c)
    PROVE  IInv'
<1> DEFINE k == [call[c] EXCEPT !.pc = p]
<1>0. /\ call[c] \in Calls /\ late[c] \in BOOLEAN /\ follow[c] \in Follows
      /\ told[c] \in {Nothing} \cup Told /\ up \in BOOLEAN /\ lost \in 0 .. MaxLost
      /\ late = [late EXCEPT ![c] = late[c]] /\ follow = [follow EXCEPT ![c] = follow[c]]
      /\ told = [told EXCEPT ![c] = told[c]]
      /\ FollowOK(c) /\ PollOK(c) /\ ToldOK(c)
  BY OneClient
<1>1. /\ k \in Calls /\ k.pc = p /\ k.method = call[c].method
      /\ call[c].method = "events" => k.start = call[c].start /\ k.filter = call[c].filter
      /\ call[c].method = "wait" => k.job = call[c].job
      /\ call[c].method \in {"events", "wait"}
  BY <1>0, MoveTyped, PcOfCall
<1>2. call' = [call EXCEPT ![c] = k] /\ call'[c] = k /\ fresh'[c] = b
  BY DEF IInv, TypeOK
<1> HIDE DEF k
<1>3. ClientStep(c)
  BY <1>0, <1>1, <1>2 DEF ClientStep
<1>4. k.pc # "answered"
  BY <1>1 DEF Places, Receiving
<1>5. (FollowOK(c) /\ ToldOK(c))'
  BY <1>0 DEF FollowOK, ToldOK, Final, Matching
<1>6. (PageOK(c) /\ StateOK(c))'
  BY <1>2, <1>4 DEF PageOK, StateOK
<1>7. PollOK(c)'
  BY <1>0, <1>1, <1>2 DEF PollOK
<1>8. AsleepOK(c)'
  BY <1>1, <1>2 DEF AsleepOK, NothingFor
<1> QED
  BY <1>3, <1>5, <1>6, <1>7, <1>8, ClientStepHolds DEF ClientOK

LEMMA SubscribeHolds ==
    ASSUME IInv, NEW c \in Clients, Subscribe(c)
    PROVE  IInv'
<1>1. "read" \in Places /\ "subscribe" \in Places
  BY DEF Places, Receiving
<1> QED
  BY <1>1, MoveHolds DEF Subscribe, jobVars, clientVars

LEMMA WakeHolds ==
    ASSUME IInv, NEW c \in Clients, Wake(c)
    PROVE  IInv'
<1>1. "read" \in Places /\ "asleep" \in Places
  BY DEF Places, Receiving
<1> QED
  BY <1>1, MoveHolds DEF Wake, jobVars, clientVars

LEMMA DozeHolds ==
    ASSUME IInv, NEW c \in Clients, Doze(c)
    PROVE  IInv'
<1>1. "asleep" \in Places /\ "drowsy" \in Places
  BY DEF Places, Receiving
<1>2. fresh[c] \in BOOLEAN /\ fresh = [fresh EXCEPT ![c] = fresh[c]] /\ AsleepOK(c)
  BY OneClient
<1>3. ~fresh[c] /\ ~unsent => NothingFor(c)
  BY <1>2 DEF Doze, AsleepOK
<1> QED
  BY <1>1, <1>2, <1>3, MoveHolds DEF Doze, jobVars, clientVars

LEMMA ExpireHolds ==
    ASSUME IInv, NEW c \in Clients, Expire(c)
    PROVE  IInv'
<1>1. /\ UNCHANGED <<job, log, unsent, up, call, fresh, follow, told, lost, crashes>>
      /\ late' = [late EXCEPT ![c] = TRUE]
  BY DEF Expire, jobVars, clientVars
<1>2. ClientStep(c)
  BY <1>1, OneClient DEF ClientStep
<1>3. ClientOK(c)'
  BY <1>1, OthersHold
<1> QED
  BY <1>2, <1>3, ClientStepHolds

LEMMA AnswerHolds ==
    ASSUME IInv, NEW c \in Clients, NEW a \in {Nothing} \cup Told \cup Pages,
           UNCHANGED <<job, log, unsent, up, fresh, late, follow, told, lost, crashes>>,
           Answer(c, a),
           a.pc = "page" =>
               /\ follow[c] # Nothing
               /\ follow[c].cursor <= a.cursor /\ a.cursor <= Len(log)
               /\ a.list = Matching(follow[c].filter, follow[c].cursor, a.cursor),
           a.pc = "state" => Final(a)
    PROVE  IInv'
<1> DEFINE k == [pc |-> "answered", answer |-> a]
<1>1. k \in Calls /\ k.pc = "answered" /\ k.answer = a
  BY DEF Calls, AnsweredCalls
<1>2. call' = [call EXCEPT ![c] = k] /\ call'[c] = k
  BY DEF Answer, IInv, TypeOK
<1> HIDE DEF k
<1>3. ClientStep(c)
  BY <1>1, <1>2, OneClient DEF ClientStep
<1>4. (FollowOK(c) /\ ToldOK(c))'
  BY OneClient DEF FollowOK, ToldOK, Final, Matching
<1>5. (PollOK(c) /\ AsleepOK(c))'
  BY <1>1, <1>2 DEF PollOK, AsleepOK, Places, Receiving
<1>6. (PageOK(c) /\ StateOK(c))'
  BY <1>1, <1>2 DEF PageOK, StateOK, Final, Matching
<1> QED
  BY <1>3, <1>4, <1>5, <1>6, ClientStepHolds DEF ClientOK

LEMMA ReadEventsHolds ==
    ASSUME IInv, NEW c \in Clients, ReadEvents(c)
    PROVE  IInv'
<1> DEFINE p == call[c]
<1>1. /\ p.pc = "read" /\ p.method = "events" /\ p.pc \in Places
      /\ UNCHANGED <<job, log, unsent, up, fresh, late, follow, told, lost, crashes>>
  BY DEF ReadEvents, jobVars, clientVars, Places, Receiving
<1>2. p \in EventCalls /\ Len(log) \in Nat /\ FollowOK(c)
  BY <1>1, OneClient, PcOfCall
<1>3. /\ p.start \in Nat /\ p.limit \in Limits /\ p.room \in Rooms
  BY <1>2 DEF EventCalls
<1>4. follow[c] # Nothing /\ p.start = follow[c].cursor /\ p.filter = follow[c].filter
  BY <1>1, OneClient DEF PollOK
<1>5. p.start <= Len(log)
  BY <1>2, <1>4 DEF FollowOK
<1>6. /\ WindowEnd(p.start) \in p.start .. Len(log)
      /\ Taken(p) \in p.start .. WindowEnd(p.start)
  BY <1>2, <1>3, <1>5, ObservationAssumption, ReadStops
<1>7. /\ Taken(p) \in Nat /\ p.start <= Taken(p) /\ Taken(p) <= Len(log)
      /\ WindowEnd(p.start) \in Nat /\ Taken(p) <= WindowEnd(p.start)
  BY <1>2, <1>3, <1>6
<1>8. CASE Answer(c, Nothing)
  <2>1. Nothing.pc = "none"
    BY DEF Nothing
  <2> QED
    BY <1>1, <1>8, <2>1, AnswerHolds
<1>9. CASE Answer(c, [pc |-> "page", list |-> List(p), cursor |-> Last(p)])
  <2> DEFINE a == [pc |-> "page", list |-> List(p), cursor |-> Last(p)]
  <2>1. List(p) \in SUBSET Nat
    BY <1>3, <1>7, MatchingTyped DEF List, Matching
  <2>2. a \in Pages
    BY <1>7, <2>1 DEF Pages, Last
  <2>3. /\ a.pc = "page" /\ a.cursor = Taken(p)
        /\ a.list = Matching(follow[c].filter, follow[c].cursor, Taken(p))
    BY <1>4 DEF List, Last
  <2>4. Answer(c, a)
    BY <1>9
  <2> HIDE DEF a, p
  <2> QED
    BY <1>1, <1>4, <1>7, <2>2, <2>3, <2>4, AnswerHolds
<1>10. CASE /\ ~TooSmall(p) /\ ~(List(p) # {} \/ Last(p) > p.start \/ late[c])
            /\ call' = [call EXCEPT ![c].pc = "drowsy"]
  <2>1. Taken(p) = p.start /\ WindowEnd(p.start) = p.start
    BY <1>3, <1>7, <1>10 DEF TooSmall, Last
  <2>2. Len(log) <= p.start
    BY <1>2, <1>3, <2>1, ObservationAssumption DEF WindowEnd, ObservationAssumption
  <2>3. NothingFor(c)
    BY <1>1, <2>2 DEF NothingFor
  <2>4. "drowsy" \in Places /\ fresh[c] \in BOOLEAN /\ fresh' = [fresh EXCEPT ![c] = fresh[c]]
    BY <1>1, OneClient DEF Places, Receiving
  <2> QED
    BY <1>1, <1>10, <2>3, <2>4, MoveHolds
<1> QED
  BY <1>8, <1>9, <1>10 DEF ReadEvents

LEMMA ReadJobHolds ==
    ASSUME IInv, NEW c \in Clients, ReadJob(c)
    PROVE  IInv'
<1> DEFINE j == call[c].job
           a == [pc |-> "state", job |-> j, state |-> job[j].state, head |-> job[j].head]
<1>1. /\ call[c].pc = "read" /\ call[c].method = "wait" /\ call[c].pc \in Places
      /\ UNCHANGED <<job, log, unsent, up, fresh, late, follow, told, lost, crashes>>
  BY DEF ReadJob, jobVars, clientVars, Places, Receiving
<1>2. j \in Jobs /\ job[j] \in Rows
  BY <1>1, OneClient, PcOfCall DEF WaitCalls
<1>3. CASE Answer(c, a)
  <2>0. MaxParts \in Nat
    BY ObservationAssumption DEF ObservationAssumption
  <2>1. a \in Told
    BY <1>2, <2>0 DEF Told, Rows
  <2>2. a.pc = "state" /\ Final(a)
    BY DEF Final
  <2> HIDE DEF a
  <2> QED
    BY <1>1, <1>3, <2>1, <2>2, AnswerHolds
<1>4. CASE ~Terminal(job[j].state) /\ call' = [call EXCEPT ![c].pc = "drowsy"]
  <2>1. NothingFor(c)
    BY <1>1, <1>4 DEF NothingFor
  <2>2. "drowsy" \in Places /\ fresh[c] \in BOOLEAN /\ fresh' = [fresh EXCEPT ![c] = fresh[c]]
    BY <1>1, OneClient DEF Places, Receiving
  <2> QED
    BY <1>1, <1>4, <2>1, <2>2, MoveHolds
<1> QED
  BY <1>3, <1>4 DEF ReadJob

-----------------------------------------------------------------------------
LEMMA BeginHolds ==
    ASSUME IInv, NEW c \in Clients, NEW k \in EventCalls \cup WaitCalls,
           k.pc = "subscribe", Begin(c, k),
           k.method = "events" =>
               /\ follow[c] # Nothing
               /\ k.start = follow[c].cursor /\ k.filter = follow[c].filter
    PROVE  IInv'
<1>1. /\ UNCHANGED <<job, log, unsent, up, fresh, follow, told, lost, crashes>>
      /\ call' = [call EXCEPT ![c] = k] /\ late' = [late EXCEPT ![c] = FALSE]
      /\ call'[c] = k
  BY DEF Begin, jobVars, clientVars, IInv, TypeOK
<1>2. ClientStep(c)
  BY <1>1, OneClient DEF ClientStep, Calls
<1>3. (FollowOK(c) /\ ToldOK(c))'
  BY <1>1, OneClient DEF FollowOK, ToldOK, Final, Matching
<1>4. (PageOK(c) /\ StateOK(c) /\ AsleepOK(c))'
  BY <1>1 DEF PageOK, StateOK, AsleepOK
<1>5. PollOK(c)'
  BY <1>1 DEF PollOK
<1> QED
  BY <1>2, <1>3, <1>4, <1>5, ClientStepHolds DEF ClientOK

LEMMA PollHolds ==
    ASSUME IInv, NEW c \in Clients, NEW limit \in Limits, NEW room \in Rooms,
           Poll(c, limit, room)
    PROVE  IInv'
<1> DEFINE k == [pc |-> "subscribe", method |-> "events", filter |-> follow[c].filter,
                 start |-> follow[c].cursor, limit |-> limit, room |-> room]
<1>1. follow[c] # Nothing /\ Begin(c, k)
  BY DEF Poll
<1>2. follow[c].filter \in Filters /\ follow[c].cursor \in Nat
  BY <1>1, OneClient, FollowTyped
<1>3. k \in EventCalls
  BY <1>2 DEF EventCalls, Places
<1>4. k.pc = "subscribe" /\ k.start = follow[c].cursor /\ k.filter = follow[c].filter
  OBVIOUS
<1> HIDE DEF k
<1> QED
  BY <1>1, <1>3, <1>4, BeginHolds

LEMMA WaitHolds ==
    ASSUME IInv, NEW c \in Clients, NEW j \in Jobs, Wait(c, j)
    PROVE  IInv'
<1> DEFINE k == [pc |-> "subscribe", method |-> "wait", job |-> j]
<1>1. Begin(c, k)
  BY DEF Wait
<1>2. k \in WaitCalls /\ k.pc = "subscribe" /\ k.method = "wait"
  BY DEF WaitCalls, Places
<1> HIDE DEF k
<1> QED
  BY <1>1, <1>2, BeginHolds

LEMMA FollowHolds ==
    ASSUME IInv, NEW c \in Clients, NEW filter \in Filters, NEW base \in Nat,
           NEW view \in Views, base <= Len(log),
           UNCHANGED <<job, log, unsent, up, call, fresh, late, told, lost, crashes>>,
           call[c].pc = "idle", follow' = [follow EXCEPT ![c] = Following(filter, base, view)]
    PROVE  IInv'
<1> DEFINE f == Following(filter, base, view)
<1>1. /\ f \in Follows /\ f.base = base /\ f.cursor = base /\ f.got = {} /\ f.filter = filter
  BY DEF Following, Follows
<1>2. follow'[c] = f
  BY DEF IInv, TypeOK
<1>3. MatchingIn(log, filter, base, base) = {}
  BY MatchingNothing
<1> HIDE DEF f
<1>4. ClientStep(c)
  <2>1. follow' = [follow EXCEPT ![c] = f]
    BY DEF f
  <2> QED
    BY <1>1, <2>1, OneClient DEF ClientStep
<1>5. FollowOK(c)'
  <2>1. /\ f.base <= f.cursor /\ f.cursor <= Len(log')
        /\ f.got = MatchingIn(log', f.filter, f.base, f.cursor)
    BY <1>1, <1>3
  <2> QED
    BY <1>2, <2>1 DEF FollowOK, Matching
<1>6. (PollOK(c) /\ PageOK(c) /\ StateOK(c) /\ AsleepOK(c))'
  BY DEF PollOK, PageOK, StateOK, AsleepOK, Places, Receiving
<1>7. ToldOK(c)'
  BY OneClient DEF ToldOK, Final
<1> QED
  BY <1>4, <1>5, <1>6, <1>7, ClientStepHolds DEF ClientOK

LEMMA FollowAllHolds ==
    ASSUME IInv, NEW c \in Clients, NEW types \in Topics, FollowAll(c, types)
    PROVE  IInv'
<1>1. [jobs |-> {}, types |-> types] \in Filters
  BY ObservationAssumption DEF ObservationAssumption, Filters
<1>2. Nothing \in Views /\ 0 <= Len(log)
  BY OneClient DEF Views
<1> QED
  BY <1>1, <1>2, FollowHolds DEF FollowAll, Unfollowed, jobVars, callVars

LEMMA SnapshotHolds ==
    ASSUME IInv, NEW c \in Clients, NEW j \in Jobs, Snapshot(c, j)
    PROVE  IInv'
<1>0. MaxParts \in Nat
  BY ObservationAssumption DEF ObservationAssumption
<1> DEFINE filter == [jobs |-> {j}, types |-> {}]
           view == [pc |-> "row", job |-> j, state |-> job[j].state, head |-> job[j].head]
<1>1. filter \in Filters
  BY DEF Filters
<1>2. job[j] \in Rows /\ Len(log) \in Nat
  BY OneClient
<1>3. view \in Views
  BY <1>0, <1>2 DEF Views, Rows
<1>4. /\ follow' = [follow EXCEPT ![c] = Following(filter, Len(log), view)]
      /\ call[c].pc = "idle"
      /\ UNCHANGED <<job, log, unsent, up, call, fresh, late, told, lost, crashes>>
  BY DEF Snapshot, Unfollowed, jobVars, callVars
<1>5. Len(log) <= Len(log)
  BY <1>2
<1> HIDE DEF filter, view
<1> QED
  BY <1>1, <1>2, <1>3, <1>4, <1>5, FollowHolds

\* The end of a call: the client holds f and a afterwards.
LEMMA HangHolds ==
    ASSUME IInv, NEW c \in Clients, NEW f \in Follows, NEW a \in {Nothing} \cup Told,
           UNCHANGED <<job, log, unsent, up, crashes>>, lost' \in 0 .. MaxLost, Hang(c),
           follow' = [follow EXCEPT ![c] = f], told' = [told EXCEPT ![c] = a],
           f # Nothing =>
               /\ f.base <= f.cursor /\ f.cursor <= Len(log)
               /\ f.got = Matching(f.filter, f.base, f.cursor),
           a # Nothing => Terminal(a.state) /\ Final(a)
    PROVE  IInv'
<1>1. /\ call' = [call EXCEPT ![c] = Idle] /\ call'[c] = Idle
      /\ follow'[c] = f /\ told'[c] = a
  BY DEF Hang, IInv, TypeOK
<1>2. Idle \in Calls /\ Idle.pc = "idle"
  BY DEF Calls, Idle
<1>3. ClientStep(c)
  BY <1>1, <1>2, OneClient DEF ClientStep, Hang
<1>4. (PollOK(c) /\ PageOK(c) /\ StateOK(c) /\ AsleepOK(c))'
  BY <1>1, <1>2 DEF PollOK, PageOK, StateOK, AsleepOK, Places, Receiving
<1>5. FollowOK(c)'
  BY <1>1 DEF FollowOK, Matching
<1>6. ToldOK(c)'
  BY <1>1 DEF ToldOK, Final
<1> QED
  BY <1>3, <1>4, <1>5, <1>6, ClientStepHolds DEF ClientOK

LEMMA ReceiveHolds ==
    ASSUME IInv, NEW c \in Clients, Receive(c)
    PROVE  IInv'
<1> DEFINE a == call[c].answer
           f == IF a.pc = "page"
                THEN Advanced(follow[c], a.cursor, a.list) ELSE follow[c]
           t == IF a.pc = "state" /\ Terminal(a.state) THEN a ELSE told[c]
<1>1. /\ call[c].pc = "answered" /\ Hang(c)
      /\ UNCHANGED <<job, log, unsent, up, lost, crashes>>
      /\ lost \in 0 .. MaxLost
  BY OneClient DEF Receive, jobVars
<1>2. a \in {Nothing} \cup Told \cup Pages
  BY <1>1, OneClient, PcOfCall DEF AnsweredCalls
<1>3. follow[c] \in Follows /\ FollowOK(c) /\ PageOK(c) /\ Len(log) \in Nat
  BY OneClient
<1>4. CASE a.pc = "page"
  <2>1. a \in Pages /\ follow[c] # Nothing
    BY <1>1, <1>2, <1>3, <1>4, AnswerCases DEF PageOK
  <2>2. a.cursor \in Nat /\ a.list \in SUBSET Nat
    BY <2>1 DEF Pages
  <2>3. /\ follow[c].base \in Nat /\ follow[c].cursor \in Nat /\ follow[c].got \in SUBSET Nat
    BY <1>3, <2>1, FollowTyped
  <2>4. /\ f \in Follows /\ f # Nothing /\ f.cursor = a.cursor
        /\ f.got = follow[c].got \cup a.list
        /\ f.base = follow[c].base /\ f.filter = follow[c].filter
    <3>1. f = Advanced(follow[c], a.cursor, a.list)
      BY <1>4
    <3> HIDE DEF f, a
    <3> QED
      BY <1>3, <2>1, <2>2, <3>1, FollowTyped
  <2>5. /\ follow[c].base <= follow[c].cursor /\ follow[c].cursor <= a.cursor
        /\ a.cursor <= Len(log)
        /\ follow[c].got = MatchingIn(log, follow[c].filter, follow[c].base, follow[c].cursor)
        /\ a.list = MatchingIn(log, follow[c].filter, follow[c].cursor, a.cursor)
    BY <1>1, <1>3, <1>4, <2>1 DEF FollowOK, PageOK, Matching
  <2>6. f.got = MatchingIn(log, f.filter, f.base, f.cursor)
    <3>1. follow[c].got \cup a.list = MatchingIn(log, follow[c].filter, follow[c].base, a.cursor)
      BY <2>2, <2>3, <2>5, MatchingSplits
    <3> QED
      BY <2>4, <3>1
  <2>7. f.base <= f.cursor /\ f.cursor <= Len(log)
    BY <1>3, <2>2, <2>3, <2>4, <2>5
  <2>8. /\ follow' = [follow EXCEPT ![c] = f] /\ told' = [told EXCEPT ![c] = told[c]]
    <3>1. told' = told
      BY <1>4 DEF Receive
    <3>2. follow' = [follow EXCEPT ![c] = f]
      BY <1>4 DEF Receive
    <3> QED
      BY <3>1, <3>2, OneClient
  <2>9. told[c] \in {Nothing} \cup Told /\ ToldOK(c)
    BY OneClient
  <2> HIDE DEF f, a, t
  <2> QED
    BY <1>1, <2>4, <2>6, <2>7, <2>8, <2>9, HangHolds DEF ToldOK, Matching
<1>5. CASE a.pc # "page"
  <2>1. f = follow[c]
    BY <1>5
  <2>2. follow' = [follow EXCEPT ![c] = follow[c]]
    BY <1>5, OneClient DEF Receive
  <2>3. t \in {Nothing} \cup Told /\ told' = [told EXCEPT ![c] = t]
    <3>1. CASE a.pc = "state" /\ Terminal(a.state)
      <4>1. a \in Told
        BY <1>2, <3>1, AnswerCases
      <4> QED
        BY <3>1, <4>1 DEF Receive
    <3>2. CASE ~(a.pc = "state" /\ Terminal(a.state))
      BY <3>2, OneClient DEF Receive
    <3> QED
      BY <3>1, <3>2
  <2>4. t # Nothing => Terminal(t.state) /\ Final(t)
    <3>1. StateOK(c) /\ ToldOK(c)
      BY OneClient
    <3> QED
      BY <1>1, <3>1 DEF StateOK, ToldOK, Final
  <2> HIDE DEF f, a, t
  <2> QED
    BY <1>1, <1>3, <2>2, <2>3, <2>4, HangHolds DEF FollowOK
<1> QED
  BY <1>4, <1>5

LEMMA LoseAnswerHolds ==
    ASSUME IInv, NEW c \in Clients, LoseAnswer(c)
    PROVE  IInv'
<1>1. /\ UNCHANGED <<job, log, unsent, up, crashes>> /\ Hang(c)
      /\ follow' = [follow EXCEPT ![c] = follow[c]]
      /\ told' = [told EXCEPT ![c] = told[c]]
  BY OneClient DEF LoseAnswer, jobVars
<1>2. lost' \in 0 .. MaxLost
  <2>1. MaxLost \in Nat
    BY ObservationAssumption DEF ObservationAssumption
  <2> QED
    BY <2>1, OneClient DEF LoseAnswer
<1>3. /\ follow[c] \in Follows /\ told[c] \in {Nothing} \cup Told
      /\ FollowOK(c) /\ ToldOK(c)
  BY OneClient
<1> QED
  BY <1>1, <1>2, <1>3, HangHolds DEF FollowOK, ToldOK

-----------------------------------------------------------------------------
LEMMA NextHolds ==
    ASSUME IInv, [Next]_vars
    PROVE  IInv'
<1>1. ASSUME NEW j \in Jobs, Work(j)
      PROVE  IInv'
  <2>1. RowsTyped
    BY DEF IInv
  <2>2. PICK row \in Rows, e \in Seq(Entries) : GoodCommit(j, row, e)
    BY <1>1, <2>1, WorkCommits
  <2> QED
    BY <2>2, CommitHolds
<1>2. ASSUME NEW c \in Clients, Observe(c)
      PROVE  IInv'
  BY <1>2, SubscribeHolds, ReadEventsHolds, ReadJobHolds, DozeHolds, WakeHolds, ExpireHolds
     DEF Observe
<1>3. ASSUME NEW c \in Clients, Caller(c)
      PROVE  IInv'
  BY <1>3, FollowAllHolds, SnapshotHolds, WaitHolds, PollHolds, ReceiveHolds, LoseAnswerHolds
     DEF Caller
<1>4. CASE UNCHANGED vars
  <2>1. /\ UNCHANGED <<job, log, unsent, up, call, fresh, late, follow, told, lost, crashes>>
    BY <1>4 DEF vars
  <2>2. TypeOK' /\ RowsTyped'
    BY <2>1, DatabaseHolds DEF IInv, TypeOK
  <2>3. \A c \in Clients : ClientOK(c)'
    BY <2>1, OthersHold
  <2> QED
    BY <2>2, <2>3 DEF IInv
<1> QED
  BY <1>1, <1>2, <1>3, <1>4, NotifyHolds, CrashHolds, ServeHolds DEF Next

\* The invariant holds in every reachable state.
THEOREM ObservationInductive == Spec => []IInv
BY InitHolds, NextHolds, PTL DEF Spec

\* The rows, events, calls and what callers hold keep their types.
THEOREM ObservationTypeCorrect == Spec => []TypeOK
<1>1. IInv => TypeOK
  BY DEF IInv
<1> QED
  BY <1>1, ObservationInductive, PTL

\* events, wait_response: no commit is slept through, whatever the number of
\* clients and jobs and however commits fall between a read and its await.
THEOREM NoWakeupLost == Spec => []NoLostWakeup
<1>1. IInv => NoLostWakeup
  <2> SUFFICES ASSUME IInv, NEW c \in Clients,
                      call[c].pc = "asleep", ~fresh[c], ~unsent
               PROVE  NothingFor(c)
    BY DEF NoLostWakeup, NothingFor
  <2> QED
    BY OneClient DEF AsleepOK
<1> QED
  BY <1>1, ObservationInductive, PTL

\* events: for every batch, limit, room and filter, a caller that passes its
\* cursor on receives each event it wants once, and in the order of the log.
THEOREM EveryEventOnce == Spec => []EventsOnceInOrder
<1>1. IInv => EventsOnceInOrder
  <2> SUFFICES ASSUME IInv, NEW c \in Clients, follow[c] # Nothing
               PROVE  /\ follow[c].base <= follow[c].cursor /\ follow[c].cursor <= Len(log)
                      /\ follow[c].got = Matching(follow[c].filter, follow[c].base, follow[c].cursor)
                      /\ call[c].pc = "answered" /\ call[c].answer.pc = "page" =>
                             call[c].answer.list = Matching(follow[c].filter, follow[c].cursor,
                                                            call[c].answer.cursor)
    BY DEF EventsOnceInOrder
  <2> QED
    BY OneClient DEF FollowOK, PageOK
<1> QED
  BY <1>1, ObservationInductive, PTL

\* wait_response: a terminal answer stays true, for every caller that holds it.
THEOREM TerminalAnswersStay == Spec => []TerminalAnswersHold
<1>1. IInv => TerminalAnswersHold
  <2> SUFFICES ASSUME IInv, NEW c \in Clients, told[c] # Nothing
               PROVE  /\ job[told[c].job].state = told[c].state
                      /\ job[told[c].job].head = told[c].head
    BY DEF TerminalAnswersHold
  <2> QED
    BY OneClient DEF ToldOK, Final
<1> QED
  BY <1>1, ObservationInductive, PTL

-----------------------------------------------------------------------------
(***************************************************************************)
(* What the event log tells: the life of each job in order, and, to a      *)
(* caller who has a snapshot and all events after it, the state and the    *)
(* revision of every job it follows.                                       *)
(***************************************************************************)
Life == {"job.accepted", "job.started", "job.ended"}
Ready == {"result.ready"}

-----------------------------------------------------------------------------
(***************************************************************************)
(* The events of a job in a log, and the last of them.                     *)
(***************************************************************************)
Of(e, j, types) == e.job = j /\ e.type \in types
NoneOf(l, j, types, to) == \A m \in 1 .. to : ~Of(l[m], j, types)
LastOf(l, j, types, n, to) ==
    n \in 1 .. to /\ Of(l[n], j, types) /\ \A m \in n + 1 .. to : ~Of(l[m], j, types)

Tells(l, j, s, to) ==
    \/ s = "none" /\ NoneOf(l, j, Life, to)
    \/ \E n \in 1 .. to : LastOf(l, j, Life, n, to) /\ l[n].state = s
Shows(l, j, h, to) ==
    \/ h = 0 /\ NoneOf(l, j, Ready, to)
    \/ \E n \in 1 .. to : LastOf(l, j, Ready, n, to) /\ l[n].rev = h

\* b is l with e at its end.
Joins(l, e, b) ==
    /\ Len(l) \in Nat /\ Len(e) \in Nat /\ Len(b) = Len(l) + Len(e)
    /\ \A m \in 1 .. Len(l) : b[m] = l[m]
    /\ \A k \in 1 .. Len(e) : b[Len(l) + k] = e[k]
    /\ \A m \in 1 .. Len(b) : m \in 1 .. Len(l) \/ \E k \in 1 .. Len(e) : m = Len(l) + k

LEMMA Joined ==
    ASSUME NEW S, NEW l \in Seq(S), NEW e \in Seq(S)
    PROVE  Joins(l, e, l \o e)
<1>1. /\ Len(l) \in Nat /\ Len(e) \in Nat /\ Len(l \o e) = Len(l) + Len(e)
      /\ \A m \in 1 .. Len(l) : (l \o e)[m] = l[m]
      /\ \A k \in 1 .. Len(e) : (l \o e)[Len(l) + k] = e[k]
  OBVIOUS
<1>2. ASSUME NEW m \in 1 .. Len(l) + Len(e), m \notin 1 .. Len(l)
      PROVE  \E k \in 1 .. Len(e) : m = Len(l) + k
  <2>1. m - Len(l) \in 1 .. Len(e) /\ m = Len(l) + (m - Len(l))
    BY <1>1, <1>2
  <2> QED
    BY <2>1
<1> QED
  BY <1>1, <1>2 DEF Joins

\* What was so up to a place stays so when the log grows.
LEMMA PrefixStable ==
    ASSUME NEW S, NEW l \in Seq(S), NEW e \in Seq(S), NEW to \in 0 .. Len(l), NEW j, NEW types
    PROVE  /\ NoneOf(l, j, types, to) <=> NoneOf(l \o e, j, types, to)
           /\ \A n \in 1 .. to : /\ LastOf(l, j, types, n, to) <=> LastOf(l \o e, j, types, n, to)
                                 /\ (l \o e)[n] = l[n]
<1>1. \A m \in 1 .. to : m \in 1 .. Len(l)
  OBVIOUS
<1>2. \A m \in 1 .. to : (l \o e)[m] = l[m]
  <2>1. Joins(l, e, l \o e)
    BY Joined
  <2> QED
    BY <1>1, <2>1 DEF Joins
<1>3. \A n \in 1 .. to : \A m \in n + 1 .. to : m \in 1 .. to
  OBVIOUS
<1> QED
  BY <1>2, <1>3 DEF NoneOf, LastOf

\* Events of other kinds change nothing of what is the last.
LEMMA Unaffected ==
    ASSUME NEW S, NEW l \in Seq(S), NEW e \in Seq(S), NEW j, NEW types,
           \A k \in 1 .. Len(e) : ~Of(e[k], j, types)
    PROVE  /\ NoneOf(l, j, types, Len(l)) => NoneOf(l \o e, j, types, Len(l \o e))
           /\ \A n \in 1 .. Len(l) :
                 LastOf(l, j, types, n, Len(l)) => LastOf(l \o e, j, types, n, Len(l \o e))
<1>1. PICK b : b = l \o e
  OBVIOUS
<1>j. Joins(l, e, b)
  BY <1>1, Joined
<1>2. /\ Len(l) \in Nat /\ Len(e) \in Nat /\ Len(b) = Len(l) + Len(e)
      /\ \A m \in 1 .. Len(l) : b[m] = l[m]
      /\ \A m \in 1 .. Len(b) : m \in 1 .. Len(l) \/ ~Of(b[m], j, types)
  <2>1. \A k \in 1 .. Len(e) : b[Len(l) + k] = e[k]
    BY <1>j DEF Joins
  <2>2. ASSUME NEW m \in 1 .. Len(b), m \notin 1 .. Len(l)
        PROVE  ~Of(b[m], j, types)
    <3>1. PICK k \in 1 .. Len(e) : m = Len(l) + k
      BY <1>j, <2>2 DEF Joins
    <3> QED
      BY <2>1, <3>1
  <2> QED
    BY <1>j, <2>2 DEF Joins
<1>3. NoneOf(l, j, types, Len(l)) => NoneOf(b, j, types, Len(b))
  BY <1>2 DEF NoneOf
<1>4. ASSUME NEW n \in 1 .. Len(l), LastOf(l, j, types, n, Len(l))
      PROVE  LastOf(b, j, types, n, Len(b))
  <2>1. n \in 1 .. Len(b) /\ Of(b[n], j, types)
    BY <1>2, <1>4 DEF LastOf
  <2>2. ASSUME NEW m \in n + 1 .. Len(b) PROVE ~Of(b[m], j, types)
    <3>1. m \in 1 .. Len(b)
      BY <1>2
    <3>2. CASE m \in 1 .. Len(l)
      BY <3>2, <1>2, <1>4 DEF LastOf
    <3> QED
      BY <3>1, <3>2, <1>2
  <2> QED
    BY <2>1, <2>2 DEF LastOf
<1> QED
  BY <1>1, <1>3, <1>4

\* The last of the new events is the last of all.
LEMMA NewLast ==
    ASSUME NEW S, NEW l \in Seq(S), NEW e \in Seq(S), NEW j, NEW types,
           NEW k \in 1 .. Len(e), LastOf(e, j, types, k, Len(e))
    PROVE  /\ LastOf(l \o e, j, types, Len(l) + k, Len(l \o e))
           /\ (l \o e)[Len(l) + k] = e[k] /\ Len(l) + k \in 1 .. Len(l \o e)
<1>1. PICK b : b = l \o e
  OBVIOUS
<1>j. Joins(l, e, b)
  BY <1>1, Joined
<1>2. /\ Len(l) \in Nat /\ Len(e) \in Nat /\ Len(b) = Len(l) + Len(e)
      /\ \A i \in 1 .. Len(e) : b[Len(l) + i] = e[i]
  <2>1. Len(l) \in Nat /\ Len(e) \in Nat /\ Len(b) = Len(l) + Len(e)
    BY <1>j DEF Joins
  <2>2. \A i \in 1 .. Len(e) : b[Len(l) + i] = e[i]
    BY <1>j DEF Joins
  <2> QED
    BY <2>1, <2>2
<1>3. ASSUME NEW m \in Len(l) + k + 1 .. Len(b) PROVE ~Of(b[m], j, types)
  <2>1. m - Len(l) \in k + 1 .. Len(e) /\ m - Len(l) \in 1 .. Len(e) /\ Len(l) + (m - Len(l)) = m
    BY <1>2
  <2> QED
    BY <2>1, <1>2 DEF LastOf
<1>4. Len(l) + k \in 1 .. Len(b) /\ b[Len(l) + k] = e[k]
  BY <1>2
<1> QED
  BY <1>1, <1>3, <1>4 DEF LastOf

LEMMA LastUnique ==
    ASSUME NEW l, NEW j, NEW types, NEW to \in Nat, NEW m, NEW n,
           LastOf(l, j, types, m, to), LastOf(l, j, types, n, to)
    PROVE  m = n
<1>1. m \in 1 .. to /\ n \in 1 .. to
  BY DEF LastOf
<1>2. ~(m < n) /\ ~(n < m)
  <2>1. m < n => n \in m + 1 .. to
    BY <1>1
  <2>2. n < m => m \in n + 1 .. to
    BY <1>1
  <2> QED
    BY <2>1, <2>2 DEF LastOf
<1> QED
  BY <1>1, <1>2

-----------------------------------------------------------------------------
(* What a step of a job writes: events of that job, in the order in which  *)
(* its life may go on, and the last of them says what the row has become.  *)

Good(j, old, row, e) ==
    /\ row.state # "none"
    /\ old.head <= row.head
    /\ Terminal(old.state) => Terminal(row.state)
    /\ \A k \in 1 .. Len(e) :
          /\ e[k].job = j
          /\ e[k].type = "job.accepted" => old.state = "none" /\ k = 1
          /\ Terminal(old.state) => e[k].type = "result.invalidated"
          /\ e[k].type = "job.ended" => Terminal(row.state) /\ k = Len(e)
          /\ e[k].type = "result.ready" => e[k].rev = row.head /\ old.head < row.head /\ k = 1
    /\ \/ Visible(row.state) = Visible(old.state) /\ \A k \in 1 .. Len(e) : e[k].type \notin Life
       \/ /\ Len(e) \in 1 .. Len(e) /\ e[Len(e)].type \in Life
          /\ e[Len(e)].state = Visible(row.state)
    /\ \/ row.head = old.head /\ \A k \in 1 .. Len(e) : e[k].type \notin Ready
       \/ 1 \in 1 .. Len(e) /\ e[1].type \in Ready

Tell(j) == \E row : \E e \in Seq(Entries) : Commit(j, row, e) /\ Good(j, job[j], row, e)

Fresh == \A j \in Jobs : job[j].state = "none" => job[j].head = 0

\* Steps that write one event, and steps that write none.
LEMMA OneEvent ==
    ASSUME NEW j, NEW old, NEW row, NEW x,
           row.state # "none", x.job = j,
           Terminal(old.state) => Terminal(row.state) /\ x.type = "result.invalidated",
           x.type = "job.accepted" => old.state = "none",
           x.type = "job.ended" => Terminal(row.state),
           IF x.type \in Life THEN x.state = Visible(row.state)
                              ELSE Visible(row.state) = Visible(old.state),
           old.head \in Int,
           IF x.type = "result.ready" THEN x.rev = row.head /\ row.head = old.head + 1
                                      ELSE row.head = old.head
    PROVE  Good(j, old, row, <<x>>)
<1>1. PICK e : e = <<x>>
  OBVIOUS
<1>2. Len(e) = 1 /\ e[1] = x
  BY <1>1
<1>3. \A k \in 1 .. Len(e) : k = 1
  BY <1>2
<1>4. Len(e) \in 1 .. Len(e) /\ 1 \in 1 .. Len(e)
  BY <1>2
<1> QED
  BY <1>1, <1>2, <1>3, <1>4 DEF Good, Ready

LEMMA NoEvent ==
    ASSUME NEW j, NEW old, NEW row,
           row.state # "none", Terminal(old.state) => Terminal(row.state),
           Visible(row.state) = Visible(old.state), old.head \in Int, row.head = old.head
    PROVE  Good(j, old, row, <<>>)
BY DEF Good

LEMMA TellOne ==
    ASSUME NEW j, NEW row, NEW x \in Entries,
           Commit(j, row, <<x>>), Good(j, job[j], row, <<x>>)
    PROVE  Tell(j)
<1>1. <<x>> \in Seq(Entries)
  OBVIOUS
<1>2. PICK e : e = <<x>>
  OBVIOUS
<1>3. e \in Seq(Entries) /\ Commit(j, row, e) /\ Good(j, job[j], row, e)
  BY <1>1, <1>2
<1> QED
  BY <1>3 DEF Tell

LEMMA JoinTwo ==
    ASSUME NEW a, NEW d
    PROVE  (<<a>> \o <<>>) \o <<d>> = <<a, d>> /\ (<<>> \o <<a>>) \o <<d>> = <<a, d>>
<1>1. PICK S : S = {a, d}
  OBVIOUS
<1>2. <<a>> \in Seq(S) /\ <<d>> \in Seq(S) /\ <<>> \in Seq(S)
  BY <1>1
<1>3. <<a>> \o <<>> = <<a>> /\ <<>> \o <<a>> = <<a>>
  BY <1>2
<1>4. <<a>> \o <<d>> = <<a, d>>
  <2>1. PICK b, t : b = <<a>> \o <<d>> /\ t = <<a, d>>
    OBVIOUS
  <2>2. b \in Seq(S) /\ Len(b) = 2 /\ b[1] = a /\ b[2] = d
    BY <1>2, <2>1
  <2>3. t \in Seq(S) /\ Len(t) = 2 /\ t[1] = a /\ t[2] = d
    BY <1>1, <2>1
  <2>4. \A i \in 1 .. 2 : b[i] = t[i]
    BY <2>2, <2>3
  <2> QED
    BY <2>1, <2>2, <2>3, <2>4, SeqEqual
<1> QED
  BY <1>3, <1>4

LEMMA FinishTells ==
    ASSUME RowsTyped, NEW j \in Jobs, NEW report \in Ends, Finish(j, report)
    PROVE  Tell(j)
<1> DEFINE s == EndState(j, report)
           row == [job[j] EXCEPT !.state = s,
                                 !.head = IF ShowsResult(j, s) THEN @ + 1 ELSE @]
<1>0. MaxParts \in Nat
  BY ObservationAssumption DEF ObservationAssumption
<1>1. job[j] \in Rows /\ job[j].state \in {"running", "stopping"}
  BY DEF RowsTyped, Finish
<1>2. s \in Ends
  BY <1>1 DEF EndState, Rows, States, StopReasons, Ends
<1>3. ~Terminal(job[j].state)
  BY <1>1 DEF Terminal, Ends
<1>4. job[j].head \in Nat /\ job[j].parts \in 0 .. MaxParts /\ job[j].head <= job[j].parts
  BY <1>0, <1>1, <1>3 DEF RowsTyped, Rows, States
<1>5. job[j].head + 1 \in 0 .. MaxParts + 1
  BY <1>0, <1>4
<1>6. /\ row.state = s
      /\ row.head = IF ShowsResult(j, s) THEN job[j].head + 1 ELSE job[j].head
  BY <1>1 DEF Rows
<1>7. Commit(j, row, EndEvents(j, s))
  BY DEF Finish
<1>8. Terminal(s) /\ s # "none" /\ Visible(s) = s
  BY <1>2 DEF Terminal, Visible, Ends
<1>9. PICK a, b, d : /\ a = ResultEvent(j, "result.ready", job[j].head + 1)
                     /\ b = ResultEvent(j, "dataset.ready", 0)
                     /\ d = StateEvent(j, "job.ended", s)
  OBVIOUS
<1>10. a \in Entries /\ b \in Entries /\ d \in Entries
  <2>1. a \in Entries
    BY <1>5, <1>9, EntryTyped DEF EventTypes
  <2>2. b \in Entries
    BY <1>0, <1>9, EntryTyped DEF EventTypes
  <2>3. d \in Entries
    BY <1>2, <1>9, EntryTyped DEF EventTypes
  <2> QED
    BY <2>1, <2>2, <2>3
<1>11. /\ a.job = j /\ a.type = "result.ready" /\ a.rev = job[j].head + 1
       /\ b.job = j /\ b.type = "dataset.ready"
       /\ d.job = j /\ d.type = "job.ended" /\ d.state = s
  BY <1>9 DEF ResultEvent, StateEvent, Event
<1>12. PICK e : e = EndEvents(j, s)
  OBVIOUS
<1>13. CASE ShowsResult(j, s)
  <2>1. e = <<a, d>>
    <3>1. s = "completed" => job[j].kind # "prepare"
      BY <1>13 DEF ShowsResult
    <3>2. e = (<<a>> \o <<>>) \o <<d>>
      <4> HIDE DEF row, s
      <4> QED BY <1>9, <1>12, <1>13, <3>1 DEF EndEvents
    <3> QED
      BY <3>2, JoinTwo
  <2>2. Len(e) = 2 /\ e[1] = a /\ e[2] = d /\ e \in Seq(Entries)
    BY <2>1, <1>10
  <2>3. \A k \in 1 .. Len(e) : k = 1 \/ k = 2
    BY <2>2
  <2>4. 2 \in 1 .. Len(e) /\ 1 \in 1 .. Len(e)
    BY <2>2
  <2>5. row.head = job[j].head + 1
    BY <1>6, <1>13
  <2> HIDE DEF row, s
  <2>6. \A k \in 1 .. Len(e) :
          /\ e[k].job = j
          /\ e[k].type = "job.accepted" => job[j].state = "none" /\ k = 1
          /\ Terminal(job[j].state) => e[k].type = "result.invalidated"
          /\ e[k].type = "job.ended" => Terminal(row.state) /\ k = Len(e)
          /\ e[k].type = "result.ready" => e[k].rev = row.head /\ job[j].head < row.head /\ k = 1
    BY <1>3, <1>4, <1>6, <1>8, <1>11, <2>2, <2>3, <2>5
  <2>7. Good(j, job[j], row, e)
    BY <1>3, <1>4, <1>6, <1>8, <1>11, <2>2, <2>4, <2>5, <2>6 DEF Good, Life, Ready
  <2> QED
    BY <1>7, <1>12, <2>2, <2>7 DEF Tell
<1>14. CASE ~ShowsResult(j, s) /\ s = "completed" /\ job[j].kind = "prepare"
  <2>1. e = <<b, d>>
    <3>1. e = (<<>> \o <<b>>) \o <<d>>
      <4> HIDE DEF row, s
      <4> QED BY <1>9, <1>12, <1>14 DEF EndEvents
    <3> QED
      BY <3>1, JoinTwo
  <2>2. Len(e) = 2 /\ e[1] = b /\ e[2] = d /\ e \in Seq(Entries)
    BY <2>1, <1>10
  <2>3. \A k \in 1 .. Len(e) : k = 1 \/ k = 2
    BY <2>2
  <2>4. 2 \in 1 .. Len(e)
    BY <2>2
  <2>5. row.head = job[j].head
    BY <1>6, <1>14
  <2> HIDE DEF row, s
  <2>6. \A k \in 1 .. Len(e) :
          /\ e[k].job = j
          /\ e[k].type = "job.accepted" => job[j].state = "none" /\ k = 1
          /\ Terminal(job[j].state) => e[k].type = "result.invalidated"
          /\ e[k].type = "job.ended" => Terminal(row.state) /\ k = Len(e)
          /\ e[k].type = "result.ready" => e[k].rev = row.head /\ job[j].head < row.head /\ k = 1
    BY <1>3, <1>6, <1>8, <1>11, <2>2, <2>3
  <2>7. \A k \in 1 .. Len(e) : e[k].type \notin Ready
    BY <1>11, <2>2, <2>3 DEF Ready
  <2>8. Good(j, job[j], row, e)
    BY <1>3, <1>4, <1>6, <1>8, <1>11, <2>2, <2>4, <2>5, <2>6, <2>7 DEF Good, Life
  <2> QED
    BY <1>7, <1>12, <2>2, <2>8 DEF Tell
<1>15. CASE ~ShowsResult(j, s) /\ ~(s = "completed" /\ job[j].kind = "prepare")
  <2>1. e = <<d>>
    <3>1. e = (<<>> \o <<>>) \o <<d>>
      BY <1>9, <1>12, <1>15 DEF EndEvents
    <3> QED
      BY <3>1
  <2>2. row.head = job[j].head /\ <<d>> \in Seq(Entries)
    BY <1>6, <1>10, <1>15
  <2> HIDE DEF row, s
  <2>3. Good(j, job[j], row, <<d>>)
    BY <1>3, <1>4, <1>6, <1>8, <1>11, <2>2, OneEvent DEF Life
  <2> QED
    BY <1>7, <1>12, <2>1, <2>2, <2>3 DEF Tell
<1> QED
  BY <1>13, <1>14, <1>15

LEMMA WorkTells ==
    ASSUME RowsTyped, Fresh, NEW j \in Jobs, Work(j)
    PROVE  Tell(j)
<1>0. MaxParts \in Nat /\ Kinds \subseteq Shapes /\ Reports \subseteq Ends /\ Stops \subseteq StopReasons
  BY ObservationAssumption DEF ObservationAssumption
<1>1. job[j] \in Rows /\ job[j].head \in Nat
  BY <1>0 DEF RowsTyped, Rows
<1>2. ASSUME NEW k \in Kinds, Submit(j, k)
      PROVE  Tell(j)
  <2>1. PICK row : row = [Absent EXCEPT !.state = "queued", !.kind = k]
    OBVIOUS
  <2>2. PICK x : x = StateEvent(j, "job.accepted", "queued")
    OBVIOUS
  <2>3. Commit(j, row, <<x>>) /\ job[j].state = "none"
    BY <1>2, <2>1, <2>2 DEF Submit
  <2>4. row.state = "queued" /\ row.head = 0
    BY <2>1 DEF Absent
  <2>5. x \in Entries /\ x.job = j /\ x.type = "job.accepted" /\ x.state = "queued"
    BY <2>2, EntryTyped DEF EventTypes, StateEvent, Event
  <2>6. job[j].head = 0
    BY <2>3 DEF Fresh
  <2>7. Good(j, job[j], row, <<x>>)
    BY <1>1, <2>3, <2>4, <2>5, <2>6, OneEvent DEF Life, Terminal, Ends, Visible
  <2> QED
    BY <2>3, <2>5, <2>7, TellOne
<1>3. ASSUME Start(j)
      PROVE  Tell(j)
  <2>1. PICK row : row = [job[j] EXCEPT !.state = "running"]
    OBVIOUS
  <2>2. PICK x : x = StateEvent(j, "job.started", "running")
    OBVIOUS
  <2>3. Commit(j, row, <<x>>) /\ job[j].state = "queued"
    BY <1>3, <2>1, <2>2 DEF Start
  <2>4. row.state = "running" /\ row.head = job[j].head
    BY <1>1, <2>1 DEF Rows
  <2>5. x \in Entries /\ x.job = j /\ x.type = "job.started" /\ x.state = "running"
    BY <2>2, EntryTyped DEF EventTypes, StateEvent, Event
  <2>6. Good(j, job[j], row, <<x>>)
    BY <1>1, <2>3, <2>4, <2>5, OneEvent DEF Life, Terminal, Ends, Visible
  <2> QED
    BY <2>3, <2>5, <2>6, TellOne
<1>4. ASSUME Publish(j)
      PROVE  Tell(j)
  <2>1. PICK rev : rev = job[j].head + 1
    OBVIOUS
  <2>2. PICK row : row = [job[j] EXCEPT !.parts = @ + 1,
                                        !.head = IF job[j].kind = "preview" THEN rev ELSE @]
    OBVIOUS
  <2>3. PICK x : x = ResultEvent(j, "result.ready", rev)
    OBVIOUS
  <2>4. /\ Commit(j, row, IF job[j].kind = "preview" THEN <<x>> ELSE <<>>)
        /\ job[j].state = "running" /\ job[j].parts < MaxParts
    BY <1>4, <2>1, <2>2, <2>3 DEF Publish
  <2>5. /\ row.state = "running"
        /\ row.head = IF job[j].kind = "preview" THEN rev ELSE job[j].head
    BY <1>1, <2>2, <2>4 DEF Rows
  <2>6. rev \in 0 .. MaxParts + 1
    <3>1. job[j].head <= job[j].parts /\ job[j].parts \in 0 .. MaxParts
      BY <1>1, <2>4 DEF Rows, RowsTyped, Terminal, Ends
    <3> QED
      BY <1>0, <1>1, <2>1, <2>4, <3>1
  <2>7. x \in Entries /\ x.job = j /\ x.type = "result.ready" /\ x.rev = rev
    <3>1. x \in Entries
      BY <2>3, <2>6, EntryTyped DEF EventTypes
    <3> QED
      BY <3>1, <2>3 DEF ResultEvent, Event
  <2>8. CASE job[j].kind = "preview"
    <3>1. Good(j, job[j], row, <<x>>)
      BY <1>1, <2>1, <2>4, <2>5, <2>7, <2>8, OneEvent DEF Life, Terminal, Ends, Visible
    <3> QED
      BY <2>4, <2>7, <2>8, <3>1, TellOne
  <2>9. CASE job[j].kind # "preview"
    <3>1. Good(j, job[j], row, <<>>)
      BY <1>1, <2>4, <2>5, <2>9, NoEvent DEF Terminal, Ends
    <3>2. <<>> \in Seq(Entries)
      OBVIOUS
    <3> QED
      BY <2>4, <2>9, <3>1, <3>2 DEF Tell
  <2> QED
    BY <2>8, <2>9
<1>5. ASSUME Invalidate(j)
      PROVE  Tell(j)
  <2>1. PICK row : row = [job[j] EXCEPT !.valid = FALSE]
    OBVIOUS
  <2>2. PICK x : x = ResultEvent(j, "result.invalidated", 0)
    OBVIOUS
  <2>3. Commit(j, row, <<x>>) /\ job[j].state # "none"
    BY <1>5, <2>1, <2>2 DEF Invalidate
  <2>4. row.state = job[j].state /\ row.head = job[j].head
    BY <1>1, <2>1 DEF Rows
  <2>5. x \in Entries /\ x.job = j /\ x.type = "result.invalidated"
    <3>1. x \in Entries
      BY <1>0, <2>2, EntryTyped DEF EventTypes
    <3> QED
      BY <3>1, <2>2 DEF ResultEvent, Event
  <2>6. Good(j, job[j], row, <<x>>)
    BY <1>1, <2>3, <2>4, <2>5, OneEvent DEF Life
  <2> QED
    BY <2>3, <2>5, <2>6, TellOne
<1>6. ASSUME NEW r \in Stops, Cancel(j, r)
      PROVE  Tell(j)
  <2>1. r \in StopReasons /\ r \in Ends /\ r # "none"
    BY <1>0 DEF StopReasons, Ends
  <2>2. CASE job[j].state = "queued"
    <3>1. PICK row : row = [job[j] EXCEPT !.state = r, !.stop = r]
      OBVIOUS
    <3>2. PICK x : x = StateEvent(j, "job.ended", r)
      OBVIOUS
    <3>3. Commit(j, row, <<x>>)
      BY <1>6, <2>2, <3>1, <3>2 DEF Cancel
    <3>4. row.state = r /\ row.head = job[j].head
      BY <1>1, <3>1 DEF Rows
    <3>5. x \in Entries /\ x.job = j /\ x.type = "job.ended" /\ x.state = r
      <4>1. x \in Entries
        BY <2>1, <3>2, EntryTyped DEF EventTypes
      <4> QED
        BY <4>1, <3>2 DEF StateEvent, Event
    <3>6. Visible(r) = r /\ ~Terminal("queued") /\ Terminal(r)
      BY <2>1 DEF Visible, Terminal, Ends
    <3>7. Good(j, job[j], row, <<x>>)
      BY <1>1, <2>1, <2>2, <3>4, <3>5, <3>6, OneEvent DEF Life
    <3> QED
      BY <3>3, <3>5, <3>7, TellOne
  <2>3. CASE job[j].state \in {"running", "stopping"}
    <3>1. PICK row : row = [job[j] EXCEPT !.state = "stopping",
                                          !.stop = IF @ = "none" THEN r ELSE @]
      OBVIOUS
    <3>2. Commit(j, row, <<>>)
      BY <1>6, <2>3, <3>1 DEF Cancel
    <3>3. row.state = "stopping" /\ row.head = job[j].head
      BY <1>1, <3>1 DEF Rows
    <3>4. Good(j, job[j], row, <<>>)
      BY <1>1, <2>3, <3>3, NoEvent DEF Terminal, Ends, Visible
    <3>5. <<>> \in Seq(Entries)
      OBVIOUS
    <3> QED
      BY <3>2, <3>4, <3>5 DEF Tell
  <2> QED
    BY <1>6, <2>2, <2>3 DEF Cancel
<1>7. Recover(j) => \E r \in Ends : Finish(j, r)
  BY DEF Recover, Ends
<1>8. (\E r \in Reports : up /\ Finish(j, r)) => \E r \in Ends : Finish(j, r)
  BY <1>0
<1> QED
  BY <1>2, <1>3, <1>4, <1>5, <1>6, <1>7, <1>8, FinishTells DEF Work

-----------------------------------------------------------------------------
(* What a log tells of a job when events are added to it.                  *)

LEMMA ToldBefore ==
    ASSUME NEW S, NEW l \in Seq(S), NEW e \in Seq(S), NEW to \in 0 .. Len(l), NEW j, NEW v
    PROVE  /\ Tells(l, j, v, to) => Tells(l \o e, j, v, to)
           /\ Shows(l, j, v, to) => Shows(l \o e, j, v, to)
<1>1. \A types : /\ NoneOf(l, j, types, to) <=> NoneOf(l \o e, j, types, to)
                 /\ \A n \in 1 .. to : /\ LastOf(l, j, types, n, to) <=> LastOf(l \o e, j, types, n, to)
                                       /\ (l \o e)[n] = l[n]
  BY PrefixStable
<1>2. PICK b : b = l \o e
  OBVIOUS
<1> QED
  BY <1>1, <1>2 DEF Tells, Shows

LEMMA ToldStill ==
    ASSUME NEW S, NEW l \in Seq(S), NEW e \in Seq(S), NEW j, NEW v
    PROVE  /\ (\A k \in 1 .. Len(e) : ~Of(e[k], j, Life)) /\ Tells(l, j, v, Len(l))
                 => Tells(l \o e, j, v, Len(l \o e))
           /\ (\A k \in 1 .. Len(e) : ~Of(e[k], j, Ready)) /\ Shows(l, j, v, Len(l))
                 => Shows(l \o e, j, v, Len(l \o e))
<1>1. PICK b : b = l \o e
  OBVIOUS
<1>j. Joins(l, e, b)
  BY <1>1, Joined
<1>2. \A m \in 1 .. Len(l) : m \in 1 .. Len(b) /\ b[m] = l[m]
  <2>1. Len(l) \in Nat /\ Len(e) \in Nat /\ Len(b) = Len(l) + Len(e)
    BY <1>j DEF Joins
  <2>2. \A m \in 1 .. Len(l) : b[m] = l[m]
    BY <1>j DEF Joins
  <2> QED
    BY <2>1, <2>2
<1>3. \A types : (\A k \in 1 .. Len(e) : ~Of(e[k], j, types)) =>
         /\ NoneOf(l, j, types, Len(l)) => NoneOf(b, j, types, Len(b))
         /\ \A n \in 1 .. Len(l) :
               LastOf(l, j, types, n, Len(l)) => LastOf(b, j, types, n, Len(b))
  BY <1>1, Unaffected
<1> QED
  BY <1>1, <1>2, <1>3 DEF Tells, Shows

LEMMA ToldAnew ==
    ASSUME NEW S, NEW l \in Seq(S), NEW e \in Seq(S), NEW j, NEW k \in 1 .. Len(e)
    PROVE  /\ LastOf(e, j, Life, k, Len(e)) => Tells(l \o e, j, e[k].state, Len(l \o e))
           /\ LastOf(e, j, Ready, k, Len(e)) => Shows(l \o e, j, e[k].rev, Len(l \o e))
<1>1. PICK b : b = l \o e
  OBVIOUS
<1>2. \A types : LastOf(e, j, types, k, Len(e)) =>
         /\ LastOf(b, j, types, Len(l) + k, Len(b))
         /\ b[Len(l) + k] = e[k] /\ Len(l) + k \in 1 .. Len(b)
  BY <1>1, NewLast
<1> QED
  BY <1>1, <1>2 DEF Tells, Shows

-----------------------------------------------------------------------------
(* The log and the rows agree.                                             *)

EventsOfRows ==
    \A m \in 1 .. Len(log) :
        /\ job[log[m].job].state # "none"
        /\ log[m].type = "job.ended" => Terminal(job[log[m].job].state)
        /\ log[m].type = "result.ready" => log[m].rev <= job[log[m].job].head

RowsTold ==
    \A j \in Jobs : /\ Tells(log, j, Visible(job[j].state), Len(log))
                    /\ Shows(log, j, job[j].head, Len(log))

LogOK == EventsOfRows /\ LogTellsEachJob /\ Fresh /\ RowsTold

LEMMA LogStarts ==
    ASSUME Init
    PROVE  LogOK
<1>1. Len(log) = 0 /\ \A j \in Jobs : job[j] = Absent
  BY DEF Init
<1>2. EventsOfRows /\ LogTellsEachJob
  BY <1>1 DEF EventsOfRows, LogTellsEachJob
<1>3. Absent.state = "none" /\ Absent.head = 0 /\ Visible("none") = "none"
  BY DEF Absent, Visible
<1> QED
  BY <1>1, <1>2, <1>3 DEF LogOK, Fresh, RowsTold, Tells, Shows, NoneOf

LEMMA CommitKeepsLog ==
    ASSUME IInv, IInv', LogOK, NEW j \in Jobs, NEW row, NEW e \in Seq(Entries),
           Commit(j, row, e), Good(j, job[j], row, e)
    PROVE  LogOK'
<1>1. PICK l, b, old : l = log /\ b = log' /\ old = job[j]
  OBVIOUS
<1>2. /\ l \in Seq(Entries) /\ job \in [Jobs -> Rows] /\ job' \in [Jobs -> Rows]
      /\ b = l \o e /\ job' = [job EXCEPT ![j] = row]
  BY <1>1 DEF IInv, TypeOK, Commit
<1>3. /\ job'[j] = row /\ \A i \in Jobs : i # j => job'[i] = job[i]
      /\ row \in Rows /\ old \in Rows
  BY <1>1, <1>2
<1>4. row.head \in Nat /\ old.head \in Nat
  <2>1. MaxParts \in Nat
    BY ObservationAssumption DEF ObservationAssumption
  <2> QED
    BY <1>3, <2>1 DEF Rows
<1>j. Joins(l, e, b)
  BY <1>2, Joined
<1>5. Len(l) \in Nat /\ Len(e) \in Nat /\ Len(b) = Len(l) + Len(e)
  BY <1>j DEF Joins
<1>6. \A m \in 1 .. Len(l) : b[m] = l[m]
  BY <1>j DEF Joins
<1>7. \A k \in 1 .. Len(e) : b[Len(l) + k] = e[k]
  BY <1>j DEF Joins
<1>8. \A m \in 1 .. Len(b) : m \in 1 .. Len(l) \/ \E k \in 1 .. Len(e) : m = Len(l) + k
  BY <1>j DEF Joins
<1>9. \A m \in 1 .. Len(l) : l[m] \in Entries /\ l[m].job \in Jobs /\ l[m].rev \in Nat
  <2>1. MaxParts \in Nat
    BY ObservationAssumption DEF ObservationAssumption
  <2>2. \A m \in 1 .. Len(l) : l[m] \in Entries
    BY <1>2
  <2> QED
    BY <2>1, <2>2 DEF Entries
<1>10. /\ \A m \in 1 .. Len(l) :
            /\ job[l[m].job].state # "none"
            /\ l[m].type = "job.ended" => Terminal(job[l[m].job].state)
            /\ l[m].type = "result.ready" => l[m].rev <= job[l[m].job].head
       /\ \A m, n \in 1 .. Len(l) :
            m < n /\ l[m].job = l[n].job =>
                /\ l[n].type # "job.accepted"
                /\ l[m].type = "job.ended" => l[n].type = "result.invalidated"
                /\ l[m].type = "result.ready" /\ l[n].type = "result.ready" =>
                       l[m].rev < l[n].rev
  BY <1>1 DEF LogOK, EventsOfRows, LogTellsEachJob
<1>11. /\ row.state # "none" /\ old.head <= row.head
       /\ Terminal(old.state) => Terminal(row.state)
       /\ \A k \in 1 .. Len(e) :
          /\ e[k].job = j
          /\ e[k].type = "job.accepted" => old.state = "none" /\ k = 1
          /\ Terminal(old.state) => e[k].type = "result.invalidated"
          /\ e[k].type = "job.ended" => Terminal(row.state) /\ k = Len(e)
          /\ e[k].type = "result.ready" => e[k].rev = row.head /\ old.head < row.head /\ k = 1
  BY <1>1 DEF Good
<1>12. EventsOfRows'
  <2>1. ASSUME NEW m \in 1 .. Len(b)
        PROVE  /\ job'[b[m].job].state # "none"
               /\ b[m].type = "job.ended" => Terminal(job'[b[m].job].state)
               /\ b[m].type = "result.ready" => b[m].rev <= job'[b[m].job].head
    <3>1. CASE m \in 1 .. Len(l)
      <4>1. b[m] = l[m] /\ l[m].job \in Jobs /\ l[m].rev \in Nat
        BY <1>6, <1>9, <3>1
      <4>2. CASE l[m].job = j
        <5>1. /\ job[l[m].job] = old /\ job'[b[m].job] = row /\ b[m].type = l[m].type
              /\ b[m].rev = l[m].rev
          BY <1>1, <1>3, <4>1, <4>2
        <5>2. /\ l[m].type = "job.ended" => Terminal(old.state)
              /\ l[m].type = "result.ready" => l[m].rev <= old.head
          BY <1>10, <3>1, <5>1
        <5>3. l[m].type = "result.ready" => l[m].rev <= row.head
          BY <1>4, <1>11, <4>1, <5>2
        <5> QED
          BY <1>11, <5>1, <5>2, <5>3
      <4>3. CASE l[m].job # j
        BY <1>3, <1>10, <3>1, <4>1, <4>3
      <4> QED
        BY <4>2, <4>3
    <3>2. CASE m \notin 1 .. Len(l)
      <4>1. PICK k \in 1 .. Len(e) : m = Len(l) + k
        BY <1>8, <2>1, <3>2
      <4>2. b[m] = e[k]
        BY <1>7, <4>1
      <4> QED
        BY <1>3, <1>4, <1>11, <4>2
    <3> QED
      BY <3>1, <3>2
  <2> QED
    BY <1>1, <2>1 DEF EventsOfRows
<1>13. LogTellsEachJob'
  <2>1. ASSUME NEW m \in 1 .. Len(b), NEW n \in 1 .. Len(b), m < n, b[m].job = b[n].job
        PROVE  /\ b[n].type # "job.accepted"
               /\ b[m].type = "job.ended" => b[n].type = "result.invalidated"
               /\ b[m].type = "result.ready" /\ b[n].type = "result.ready" =>
                      b[m].rev < b[n].rev
    <3>1. CASE n \in 1 .. Len(l)
      <4>1. m \in 1 .. Len(l)
        BY <1>5, <2>1, <3>1
      <4> QED
        BY <1>6, <1>10, <2>1, <3>1, <4>1
    <3>2. CASE n \notin 1 .. Len(l)
      <4>1. PICK k \in 1 .. Len(e) : n = Len(l) + k /\ b[n] = e[k]
        BY <1>7, <1>8, <3>2
      <4>2. CASE m \in 1 .. Len(l)
        <5>1. b[m] = l[m] /\ l[m].job = j /\ l[m].rev \in Nat
          BY <1>6, <1>9, <1>11, <2>1, <4>1, <4>2
        <5>2. /\ old.state # "none"
              /\ l[m].type = "job.ended" => Terminal(old.state)
              /\ l[m].type = "result.ready" => l[m].rev <= old.head
          BY <1>1, <1>10, <4>2, <5>1
        <5>3. /\ e[k].type # "job.accepted"
              /\ l[m].type = "job.ended" => e[k].type = "result.invalidated"
          BY <1>11, <5>2
        <5>4. l[m].type = "result.ready" /\ e[k].type = "result.ready" => l[m].rev < e[k].rev
          BY <1>4, <1>11, <5>1, <5>2
        <5> QED
          BY <4>1, <5>1, <5>3, <5>4
      <4>3. CASE m \notin 1 .. Len(l)
        <5>1. PICK i \in 1 .. Len(e) : m = Len(l) + i /\ b[m] = e[i]
          BY <1>7, <1>8, <4>3
        <5>2. i < k /\ i # Len(e) /\ k # 1
          BY <1>5, <2>1, <4>1, <5>1
        <5> QED
          BY <1>11, <4>1, <5>1, <5>2
      <4> QED
        BY <4>2, <4>3
    <3> QED
      BY <3>1, <3>2
  <2> QED
    BY <1>1, <2>1 DEF LogTellsEachJob
<1>14. Fresh'
  BY <1>3, <1>11 DEF LogOK, Fresh
<1>15. RowsTold'
  <2>1. ASSUME NEW i \in Jobs
        PROVE  Tells(b, i, Visible(job'[i].state), Len(b)) /\ Shows(b, i, job'[i].head, Len(b))
    <3>0. Tells(l, i, Visible(job[i].state), Len(l)) /\ Shows(l, i, job[i].head, Len(l))
      BY <1>1 DEF LogOK, RowsTold
    <3>1. CASE i # j
      <4>1. \A k \in 1 .. Len(e) : ~Of(e[k], i, Life) /\ ~Of(e[k], i, Ready)
        BY <1>11, <3>1 DEF Of
      <4> QED
        BY <1>2, <1>3, <3>0, <3>1, <4>1, ToldStill
    <3>2. CASE i = j
      <4>1. Tells(b, j, Visible(row.state), Len(b))
        <5>1. CASE Visible(row.state) = Visible(old.state) /\ \A k \in 1 .. Len(e) : e[k].type \notin Life
          <6>1. \A k \in 1 .. Len(e) : ~Of(e[k], j, Life)
            BY <5>1 DEF Of
          <6>2. Tells(l, j, Visible(row.state), Len(l))
            BY <1>1, <3>0, <3>2, <5>1
          <6> QED
            BY <1>2, <6>1, <6>2, ToldStill
        <5>2. CASE /\ Len(e) \in 1 .. Len(e) /\ e[Len(e)].type \in Life
                   /\ e[Len(e)].state = Visible(row.state)
          <6>1. LastOf(e, j, Life, Len(e), Len(e))
            BY <1>5, <1>11, <5>2 DEF LastOf, Of
          <6> QED
            BY <1>2, <5>2, <6>1, ToldAnew
        <5> QED
          BY <1>1, <5>1, <5>2 DEF Good
      <4>2. Shows(b, j, row.head, Len(b))
        <5>1. CASE row.head = old.head /\ \A k \in 1 .. Len(e) : e[k].type \notin Ready
          <6>1. \A k \in 1 .. Len(e) : ~Of(e[k], j, Ready)
            BY <5>1 DEF Of
          <6>2. Shows(l, j, row.head, Len(l))
            BY <1>1, <3>0, <3>2, <5>1
          <6> QED
            BY <1>2, <6>1, <6>2, ToldStill
        <5>2. CASE 1 \in 1 .. Len(e) /\ e[1].type \in Ready
          <6>1. e[1].type = "result.ready" /\ e[1].rev = row.head
            BY <1>11, <5>2 DEF Ready
          <6>2. \A k \in 1 + 1 .. Len(e) : k \in 1 .. Len(e) /\ k # 1
            BY <1>5
          <6>3. \A k \in 1 + 1 .. Len(e) : ~Of(e[k], j, Ready)
            BY <1>11, <6>2 DEF Of, Ready
          <6>4. LastOf(e, j, Ready, 1, Len(e))
            BY <1>11, <5>2, <6>3 DEF LastOf, Of
          <6> QED
            BY <1>2, <5>2, <6>1, <6>4, ToldAnew
        <5> QED
          BY <1>1, <5>1, <5>2 DEF Good
      <4> QED
        BY <1>3, <3>2, <4>1, <4>2
    <3> QED
      BY <3>1, <3>2
  <2> QED
    BY <1>1, <2>1 DEF RowsTold
<1> QED
  BY <1>12, <1>13, <1>14, <1>15 DEF LogOK

-----------------------------------------------------------------------------
(* What a caller began with is what the log tells up to its base.          *)

ViewOK(f) ==
    IF f.view = Nothing THEN f.base = 0
    ELSE /\ f.filter.jobs = {f.view.job}
         /\ Tells(log, f.view.job, Visible(f.view.state), f.base)
         /\ Shows(log, f.view.job, f.view.head, f.base)

ViewsOK == \A c \in Clients : follow[c] # Nothing => ViewOK(follow[c])

LogInv == IInv /\ LogOK /\ ViewsOK

LEMMA CommitKeepsViews ==
    ASSUME LogInv, NEW j \in Jobs, NEW row, NEW e \in Seq(Entries), Commit(j, row, e)
    PROVE  ViewsOK'
<1>1. PICK l, b : l = log /\ b = log'
  OBVIOUS
<1>2. l \in Seq(Entries) /\ b = l \o e /\ follow' = follow
  BY <1>1 DEF LogInv, IInv, TypeOK, Commit, clientVars
<1>3. ASSUME NEW c \in Clients, follow[c] # Nothing
      PROVE  ViewOK(follow[c])'
  <2>1. PICK f : f = follow[c]
    OBVIOUS
  <2>2. f.base \in 0 .. Len(l)
    <3>1. f.base \in Nat /\ f.cursor \in Nat
      BY <2>1, <1>3, FollowTyped DEF LogInv, IInv, TypeOK
    <3>2. f.base <= f.cursor /\ f.cursor <= Len(l)
      BY <1>1, <1>3, <2>1 DEF LogInv, IInv, ClientOK, FollowOK
    <3>3. Len(l) \in Nat
      BY <1>2
    <3> QED
      BY <3>1, <3>2, <3>3
  <2>3. \A i, v : /\ Tells(l, i, v, f.base) => Tells(b, i, v, f.base)
                  /\ Shows(l, i, v, f.base) => Shows(b, i, v, f.base)
    BY <1>2, <2>2, ToldBefore
  <2>4. ViewOK(f)
    BY <1>3, <2>1 DEF LogInv, ViewsOK
  <2> QED
    BY <1>1, <1>2, <2>1, <2>3, <2>4 DEF ViewOK
<1> QED
  BY <1>2, <1>3 DEF ViewsOK

\* The steps that write no event.
LEMMA OthersKeepLog ==
    ASSUME LogOK, ViewsOK, follow \in [Clients -> Follows], UNCHANGED <<job, log>>,
           \A c \in Clients : follow'[c] # Nothing =>
               \/ follow'[c] = follow[c]
               \/ follow'[c].base = 0 /\ follow'[c].view = Nothing
               \/ follow[c] # Nothing /\ \E n, g : follow'[c] = Advanced(follow[c], n, g)
               \/ ViewOK(follow'[c])
    PROVE  LogOK' /\ ViewsOK'
<1>1. LogOK'
  BY DEF LogOK, EventsOfRows, LogTellsEachJob, Fresh, RowsTold
<1>2. ASSUME NEW c \in Clients, follow'[c] # Nothing
      PROVE  ViewOK(follow'[c])
  <2>1. PICK f, h : f = follow[c] /\ h = follow'[c]
    OBVIOUS
  <2>2. CASE h = f
    BY <1>2, <2>1, <2>2 DEF ViewsOK
  <2>3. CASE h.base = 0 /\ h.view = Nothing
    BY <2>1, <2>3 DEF ViewOK
  <2>4. CASE f # Nothing /\ \E n, g : h = Advanced(f, n, g)
    <3>0. f \in Followed
      BY <1>2, <2>1, <2>4 DEF Follows, Followed
    <3>1. h.base = f.base /\ h.view = f.view /\ h.filter = f.filter
      BY <2>4, <3>0 DEF Advanced, Followed
    <3>2. ViewOK(f)
      BY <2>1, <2>4 DEF ViewsOK
    <3> QED
      BY <2>1, <3>1, <3>2 DEF ViewOK
  <2> QED
    BY <1>2, <2>1, <2>2, <2>3, <2>4
<1>3. ViewsOK'
  BY <1>2 DEF ViewsOK, ViewOK
<1> QED
  BY <1>1, <1>3

LEMMA CallerKeepsLog ==
    ASSUME LogInv, NEW c \in Clients, Caller(c)
    PROVE  LogOK' /\ ViewsOK'
<1>0. LogOK /\ ViewsOK /\ follow \in [Clients -> Follows]
  BY DEF LogInv, IInv, TypeOK
<1>1. ASSUME NEW types \in Topics, FollowAll(c, types)
      PROVE  LogOK' /\ ViewsOK'
  <2>1. PICK f : f = Following([jobs |-> {}, types |-> types], 0, Nothing)
    OBVIOUS
  <2>2. f.base = 0 /\ f.view = Nothing
    BY <2>1 DEF Following
  <2>3. follow' = [follow EXCEPT ![c] = f] /\ UNCHANGED <<job, log>>
    BY <1>1, <2>1 DEF FollowAll, jobVars
  <2>4. follow'[c] = f /\ \A i \in Clients : i # c => follow'[i] = follow[i]
    BY <1>0, <2>3
  <2> QED
    BY <1>0, <2>2, <2>3, <2>4, OthersKeepLog
<1>2. ASSUME NEW j \in Jobs, Snapshot(c, j)
      PROVE  LogOK' /\ ViewsOK'
  <2>1. PICK v : v = [pc |-> "row", job |-> j, state |-> job[j].state, head |-> job[j].head]
    OBVIOUS
  <2>2. PICK f : f = Following([jobs |-> {j}, types |-> {}], Len(log), v)
    OBVIOUS
  <2>3. v # Nothing /\ v.job = j /\ v.state = job[j].state /\ v.head = job[j].head
    BY <2>1 DEF Nothing
  <2>4. f.base = Len(log) /\ f.view = v /\ f.filter.jobs = {j}
    BY <2>2 DEF Following
  <2>5. ViewOK(f)
    BY <1>0, <2>3, <2>4 DEF ViewOK, LogOK, RowsTold
  <2>6. follow' = [follow EXCEPT ![c] = f] /\ UNCHANGED <<job, log>>
    BY <1>2, <2>1, <2>2 DEF Snapshot, jobVars
  <2>7. follow'[c] = f /\ \A i \in Clients : i # c => follow'[i] = follow[i]
    BY <1>0, <2>6
  <2> QED
    BY <1>0, <2>5, <2>6, <2>7, OthersKeepLog
<1>3. ASSUME Receive(c)
      PROVE  LogOK' /\ ViewsOK'
  <2>1. PICK a : a = call[c].answer
    OBVIOUS
  <2>2. UNCHANGED <<job, log>>
    BY <1>3 DEF Receive, jobVars
  <2>3. CASE a.pc = "page"
    <3>1. PICK f : f = Advanced(follow[c], a.cursor, a.list)
      OBVIOUS
    <3>2. follow' = [follow EXCEPT ![c] = f]
      BY <1>3, <2>1, <2>3, <3>1 DEF Receive
    <3>3. follow'[c] = f /\ \A i \in Clients : i # c => follow'[i] = follow[i]
      BY <1>0, <3>2
    <3>4. follow[c] # Nothing
      BY <1>3, <2>1, <2>3 DEF Receive, LogInv, IInv, ClientOK, PageOK
    <3> QED
      BY <1>0, <2>2, <3>1, <3>3, <3>4, OthersKeepLog
  <2>4. CASE a.pc # "page"
    <3>1. follow' = follow
      BY <1>3, <2>1, <2>4 DEF Receive
    <3> QED
      BY <1>0, <2>2, <3>1, OthersKeepLog
  <2> QED
    BY <2>3, <2>4
<1>4. ASSUME UNCHANGED <<job, log, follow>>
      PROVE  LogOK' /\ ViewsOK'
  BY <1>0, <1>4, OthersKeepLog
<1>5. ASSUME NEW j \in Jobs, Wait(c, j)
      PROVE  UNCHANGED <<job, log, follow>>
  BY <1>5 DEF Wait, Begin, jobVars, clientVars
<1>6. ASSUME NEW limit \in Limits, NEW room \in Rooms, Poll(c, limit, room)
      PROVE  UNCHANGED <<job, log, follow>>
  BY <1>6 DEF Poll, Begin, jobVars, clientVars
<1>7. LoseAnswer(c) => UNCHANGED <<job, log, follow>>
  BY DEF LoseAnswer, jobVars
<1> QED
  BY <1>1, <1>2, <1>3, <1>4, <1>5, <1>6, <1>7 DEF Caller

LEMMA StepKeepsLog ==
    ASSUME LogInv, [Next]_vars
    PROVE  LogInv'
<1>0. IInv /\ IInv' /\ LogOK /\ ViewsOK /\ RowsTyped /\ Fresh /\ follow \in [Clients -> Follows]
  BY NextHolds DEF LogInv, IInv, LogOK, TypeOK
<1>1. ASSUME NEW j \in Jobs, Work(j)
      PROVE  LogOK' /\ ViewsOK'
  <2>1. PICK row : \E e \in Seq(Entries) : Commit(j, row, e) /\ Good(j, job[j], row, e)
    BY <1>0, <1>1, WorkTells DEF Tell
  <2>2. PICK e \in Seq(Entries) : Commit(j, row, e) /\ Good(j, job[j], row, e)
    BY <2>1
  <2> QED
    BY <1>0, <2>2, CommitKeepsLog, CommitKeepsViews
<1>2. ASSUME NEW c \in Clients, Observe(c)
      PROVE  UNCHANGED <<job, log, follow>>
  BY <1>2 DEF Observe, Subscribe, ReadEvents, ReadJob, Doze, Wake, Expire, jobVars, clientVars
<1>3. Notify \/ Crash \/ Serve \/ UNCHANGED vars => UNCHANGED <<job, log, follow>>
  BY DEF Notify, Crash, Serve, jobVars, clientVars, vars
<1>4. UNCHANGED <<job, log, follow>> => LogOK' /\ ViewsOK'
  BY <1>0, OthersKeepLog
<1>5. LogOK' /\ ViewsOK'
  BY <1>1, <1>2, <1>3, <1>4, CallerKeepsLog DEF Next
<1> QED
  BY <1>0, <1>5 DEF LogInv

\* The log and the rows agree in every reachable state, and what a caller
\* began with is what the log tells up to its base.
THEOREM ObservationLogInductive == Spec => []LogInv
<1>1. Init => LogInv
  <2> SUFFICES ASSUME Init PROVE LogInv
    OBVIOUS
  <2>1. ViewsOK
    BY DEF Init, ViewsOK
  <2> QED
    BY <2>1, InitHolds, LogStarts DEF LogInv
<1>2. LogInv /\ [Next]_vars => LogInv'
  BY StepKeepsLog
<1> QED
  BY <1>1, <1>2, PTL DEF Spec

\* set_state, publish, finish: the log tells each job's life in order, and
\* nothing but an invalidation follows its end, for any jobs and any clients.
THEOREM LogIsALife == Spec => []LogTellsEachJob
<1>1. LogInv => LogTellsEachJob
  BY DEF LogInv, LogOK
<1> QED
  BY <1>1, ObservationLogInductive, PTL

-----------------------------------------------------------------------------
(* A caller that has read to the end holds the last event of each kind     *)
(* after its base, or began with what the log had told before it.          *)

Top(S) == CHOOSE x \in S : \A y \in S : y <= x
Newest(S) == IF S = {} THEN Nothing ELSE log[Top(S)]

LEMMA LatestOf ==
    ASSUME NEW l, NEW base \in Nat, NEW to \in Nat, base <= to, NEW j, NEW types,
           NEW R, \A n : n \in R <=> n \in base + 1 .. to /\ Of(l[n], j, types)
    PROVE  /\ NoneOf(l, j, types, to) => R = {} /\ NoneOf(l, j, types, base)
           /\ \A n : LastOf(l, j, types, n, to) =>
                 /\ n > base => R # {} /\ Top(R) = n
                 /\ ~(n > base) => R = {} /\ LastOf(l, j, types, n, base)
<1>1. NoneOf(l, j, types, to) => R = {} /\ NoneOf(l, j, types, base)
  BY DEF NoneOf
<1>2. ASSUME NEW n, LastOf(l, j, types, n, to), n > base
      PROVE  R # {} /\ Top(R) = n
  <2>1. n \in 1 .. to /\ n \in R
    BY <1>2 DEF LastOf
  <2>2. \A y \in R : y <= n
    BY <1>2, <2>1 DEF LastOf
  <2>3. \A x \in R : (\A y \in R : y <= x) => x = n
    BY <2>1, <2>2
  <2> QED
    BY <2>1, <2>2, <2>3 DEF Top
<1>3. ASSUME NEW n, LastOf(l, j, types, n, to), ~(n > base)
      PROVE  R = {} /\ LastOf(l, j, types, n, base)
  <2>1. n \in 1 .. to /\ n \in 1 .. base
    BY <1>3 DEF LastOf
  <2>2. \A m \in base + 1 .. to : m \in n + 1 .. to
    BY <2>1
  <2>3. \A m \in n + 1 .. base : m \in n + 1 .. to
    BY <2>1
  <2> QED
    BY <1>3, <2>1, <2>2, <2>3 DEF LastOf
<1> QED
  BY <1>1, <1>2, <1>3

LEMMA MirrorOf ==
    ASSUME LogInv, NEW c \in Clients, NEW f, f = follow[c], f # Nothing,
           f.filter.types = {}, f.cursor >= Len(log),
           NEW j \in Jobs, f.filter.jobs = {} \/ j \in f.filter.jobs
    PROVE  Mirror(c, j) = <<Visible(job[j].state), job[j].head>>
<1>1. /\ f.base \in Nat /\ f.cursor \in Nat /\ Len(log) \in Nat
      /\ f.base <= Len(log) /\ f.cursor = Len(log) /\ f.got = Matching(f.filter, f.base, Len(log))
  <2>1. f.base \in Nat /\ f.cursor \in Nat /\ Len(log) \in Nat
    BY FollowTyped DEF LogInv, IInv, TypeOK
  <2>2. /\ f.base <= f.cursor /\ f.cursor <= Len(log)
        /\ f.got = Matching(f.filter, f.base, f.cursor)
    BY DEF LogInv, IInv, ClientOK, FollowOK
  <2>3. f.cursor = Len(log)
    BY <2>1, <2>2
  <2> QED
    BY <2>1, <2>2, <2>3
<1>2. PICK to : to = Len(log)
  OBVIOUS
<1>3. \A types : {n \in f.got : log[n].job = j /\ log[n].type \in types}
                   = {n \in f.base + 1 .. to : Of(log[n], j, types)}
  BY <1>1, <1>2 DEF Matching, MatchingIn, Wants, Of
<1>4. \A n \in 1 .. to : log[n] # Nothing
  <2>1. \A n \in 1 .. to : log[n] \in Entries
    BY <1>2 DEF LogInv, IInv, TypeOK
  <2> QED
    BY <2>1 DEF Entries, Nothing
<1>5. PICK view : view = IF f.view = Nothing THEN Absent ELSE f.view
  OBVIOUS
<1>6. Tells(log, j, Visible(view.state), f.base) /\ Shows(log, j, view.head, f.base)
  <2>1. ViewOK(f)
    BY DEF LogInv, ViewsOK
  <2>2. CASE f.view = Nothing
    <3>1. f.base = 0 /\ view.state = "none" /\ view.head = 0
      BY <1>5, <2>1, <2>2 DEF ViewOK, Absent
    <3>2. \A types : NoneOf(log, j, types, 0)
      BY DEF NoneOf
    <3> QED
      BY <3>1, <3>2 DEF Tells, Shows, Visible
  <2>3. CASE f.view # Nothing
    BY <1>5, <2>1, <2>3 DEF ViewOK
  <2> QED
    BY <2>2, <2>3
<1>7. Tells(log, j, Visible(job[j].state), to) /\ Shows(log, j, job[j].head, to)
  BY <1>2 DEF LogInv, LogOK, RowsTold
<1>8. ASSUME NEW types
      PROVE  /\ NoneOf(log, j, types, to) => Latest(c, j, types) = Nothing /\ NoneOf(log, j, types, f.base)
             /\ \A n : LastOf(log, j, types, n, to) =>
                   /\ n > f.base => Latest(c, j, types) = log[n] /\ log[n] # Nothing
                   /\ ~(n > f.base) => Latest(c, j, types) = Nothing /\ LastOf(log, j, types, n, f.base)
  <2>1. PICK R : R = {n \in f.base + 1 .. to : Of(log[n], j, types)}
    OBVIOUS
  <2>2. Latest(c, j, types) = IF R = {} THEN Nothing
                              ELSE log[Top(R)]
    <3>1. Latest(c, j, types) = Newest({n \in follow[c].got : log[n].job = j /\ log[n].type \in types})
      BY Zenon DEF Latest, Newest, Top
    <3>2. {n \in follow[c].got : log[n].job = j /\ log[n].type \in types} = R
      BY <1>3, <2>1
    <3>3. Latest(c, j, types) = Newest(R)
      BY <3>1, <3>2
    <3> QED
      BY <3>3 DEF Newest
  <2>3. /\ NoneOf(log, j, types, to) => R = {} /\ NoneOf(log, j, types, f.base)
        /\ \A n : LastOf(log, j, types, n, to) =>
              /\ n > f.base => R # {} /\ Top(R) = n
              /\ ~(n > f.base) => R = {} /\ LastOf(log, j, types, n, f.base)
    <3>1. PICK l, base : l = log /\ base = f.base
      OBVIOUS
    <3>2. base \in Nat /\ to \in Nat /\ base <= to
      BY <1>1, <1>2, <3>1
    <3>3. \A n : n \in R <=> n \in base + 1 .. to /\ Of(l[n], j, types)
      BY <2>1, <3>1
    <3>4. /\ NoneOf(l, j, types, to) => R = {} /\ NoneOf(l, j, types, base)
          /\ \A n : LastOf(l, j, types, n, to) =>
                /\ n > base => R # {} /\ Top(R) = n
                /\ ~(n > base) => R = {} /\ LastOf(l, j, types, n, base)
      BY <3>2, <3>3, LatestOf
    <3> QED
      BY <3>1, <3>4, Zenon
  <2>4. \A n : LastOf(log, j, types, n, to) => n \in 1 .. to
    BY DEF LastOf
  <2> QED
    BY <1>4, <2>2, <2>3, <2>4
<1>9. PICK life, ready : life = Latest(c, j, Life) /\ ready = Latest(c, j, Ready)
  OBVIOUS
<1>10. ASSUME NEW types, NEW n, NEW m,
              LastOf(log, j, types, n, f.base), LastOf(log, j, types, m, f.base)
       PROVE  m = n
  BY <1>1, <1>10, LastUnique
<1>11. ASSUME NEW types, NEW n, LastOf(log, j, types, n, f.base)
       PROVE  ~NoneOf(log, j, types, f.base)
  BY <1>11 DEF LastOf, NoneOf
<1>12. (IF life = Nothing THEN Visible(view.state) ELSE life.state) = Visible(job[j].state)
  <2>1. CASE NoneOf(log, j, Life, to) /\ Visible(job[j].state) = "none"
    BY <1>6, <1>8, <1>9, <1>11, <2>1 DEF Tells
  <2>2. ASSUME NEW n, LastOf(log, j, Life, n, to), log[n].state = Visible(job[j].state)
        PROVE  (IF life = Nothing THEN Visible(view.state) ELSE life.state) = Visible(job[j].state)
    <3>1. CASE n > f.base
      BY <1>8, <1>9, <2>2, <3>1
    <3>2. CASE ~(n > f.base)
      <4>1. life = Nothing /\ LastOf(log, j, Life, n, f.base)
        BY <1>8, <1>9, <2>2, <3>2
      <4> QED
        BY <1>6, <1>10, <1>11, <2>2, <4>1 DEF Tells
    <3> QED
      BY <3>1, <3>2
  <2> QED
    BY <1>7, <2>1, <2>2 DEF Tells
<1>13. (IF ready = Nothing THEN view.head ELSE ready.rev) = job[j].head
  <2>1. CASE NoneOf(log, j, Ready, to) /\ job[j].head = 0
    BY <1>6, <1>8, <1>9, <1>11, <2>1 DEF Shows
  <2>2. ASSUME NEW n, LastOf(log, j, Ready, n, to), log[n].rev = job[j].head
        PROVE  (IF ready = Nothing THEN view.head ELSE ready.rev) = job[j].head
    <3>1. CASE n > f.base
      BY <1>8, <1>9, <2>2, <3>1
    <3>2. CASE ~(n > f.base)
      <4>1. ready = Nothing /\ LastOf(log, j, Ready, n, f.base)
        BY <1>8, <1>9, <2>2, <3>2
      <4> QED
        BY <1>6, <1>10, <1>11, <2>2, <4>1 DEF Shows
    <3> QED
      BY <3>1, <3>2
  <2> QED
    BY <1>7, <2>1, <2>2 DEF Shows
<1>14. Mirror(c, j) = <<IF life = Nothing THEN Visible(view.state) ELSE life.state,
                        IF ready = Nothing THEN view.head ELSE ready.rev>>
  BY <1>5, <1>9 DEF Mirror, Life, Ready
<1> QED
  BY <1>12, <1>13, <1>14

\* snapshot, events: for every schedule of commits, polls and lost answers, a
\* caller that began with a snapshot, or with nothing, and has read to the end
\* of the log knows each job it follows.
THEOREM MirrorStaysCurrent == Spec => []MirrorIsCurrent
<1>1. LogInv => MirrorIsCurrent
  <2> SUFFICES ASSUME LogInv, NEW c \in Clients, NEW f, f = follow[c], f # Nothing,
                      f.filter.types = {}, f.cursor >= Len(log),
                      NEW j \in (IF f.filter.jobs = {} THEN Jobs ELSE f.filter.jobs)
               PROVE  Mirror(c, j) = <<Visible(job[j].state), job[j].head>>
    BY DEF MirrorIsCurrent
  <2>1. f.filter.jobs \in SUBSET Jobs
    BY FollowTyped DEF LogInv, IInv, TypeOK, Filters
  <2> QED
    BY <2>1, MirrorOf
<1> QED
  BY <1>1, ObservationLogInductive, PTL
=============================================================================
