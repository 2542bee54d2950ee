---------------------------- MODULE ScanJob_proofs ----------------------------
(***************************************************************************)
(* Theorems about what a job is given to read: whatever its requests do at *)
(* the same time, they stay within the budget, what has a digest is given  *)
(* out with the bytes of that digest, and a job that completes was given   *)
(* the frozen bytes and no others.  What an analysis publishes is exact.   *)
(***************************************************************************)
EXTENDS ScanJob, SumTheorems, FiniteSetTheorems, TLAPS

USE DEF disk, setup, verified, counters

-----------------------------------------------------------------------------
(***************************************************************************)
(* The inductive invariant of the store.                                   *)
(***************************************************************************)
Entries == Seq([file : Files, got : SUBSET Contents])
Rules == [digest : Contents \cup {"none", "unknown"}, source : BOOLEAN]

DiskOK ==
    /\ content \in [Files -> Contents] /\ moved \subseteq Files
    /\ \A f \in Files \ Managed : content[f] = "changed" => f \in moved

SetupOK ==
    /\ manifest \in Manifests /\ registered \in 0 .. Len(manifest)
    /\ refused => registered < Len(manifest)
    /\ allowed \in [Files -> Rules]
    /\ \A k \in 1 .. registered :
          manifest[k].digest # "none" => allowed[manifest[k].file].digest = manifest[k].digest
    /\ \A f \in Files : allowed[f].digest # "unknown" =>
          \E k \in 1 .. registered : /\ manifest[k].file = f
                                     /\ manifest[k].digest = allowed[f].digest

CountersOK == limit \in Nat /\ reserved \in Nat /\ BudgetKept

\* What a request has in hand.
RequestOK(q) ==
    /\ q \in Requests
    /\ q.at \in {"ranges", "detached", "stream", "chunk"} => allowed[q.file].digest = "none"
    /\ q.at \in {"ranges", "detached", "chunk"} => ("changed" \in q.got => q.file \in moved)
    /\ q.at \in {"locking", "load", "insert"} => allowed[q.file].digest \in Contents
    /\ q.at = "insert" => q.got \subseteq {allowed[q.file].digest}

EntryOK(entry) == entry.got \subseteq {allowed[entry.file].digest}

DeliveryOK(d) ==
    /\ d \in Deliveries
    /\ d.how = "part" => d.content = allowed[d.file].digest
    /\ d.how # "part" => allowed[d.file].digest = "none"
    /\ d.how = "ranges" => d.content = "frozen"
    /\ d.how = "stream" /\ d.content = "changed" => d.file \in moved

ReadersOK ==
    /\ reader \in [Readers -> Requests]
    /\ \A r \in Readers : RequestOK(reader[r])
    /\ cache \in Entries /\ \A i \in 1 .. Len(cache) : EntryOK(cache[i])
    /\ \A d \in delivered : DeliveryOK(d)

\* Nobody asks before all files are taken in.
Waiting == reader = [r \in Readers |-> Idle] /\ cache = <<>> /\ delivered = {}

StoreInv == DiskOK /\ SetupOK /\ CountersOK /\ ReadersOK /\ (~Open => Waiting)

LEMMA ScanConstants ==
    /\ Size \in [Files -> Nat] /\ Limits \subseteq Nat /\ Chunk \in Nat \ {0}
    /\ Manifests \subseteq Seq(Registration)
    /\ Single \in Readers /\ JobKinds \subseteq {"query", "analysis"}
<1>1. FilesAssumption /\ LimitsAssumption /\ JobAssumption
  BY FilesAssumption, LimitsAssumption, JobAssumption
<1> QED
  BY <1>1 DEF FilesAssumption, LimitsAssumption, JobAssumption

LEMMA RequestShapes ==
    /\ Idle \in Requests /\ Failed \in Requests /\ Gone \in Requests
    /\ Idle.at = "idle" /\ Failed.at = "failed" /\ Gone.at = "gone"
BY DEF Requests, Idle, Failed, Gone

LEMMA RequestFields ==
    ASSUME NEW q \in Requests
    PROVE  /\ q.at \in {"idle", "failed", "gone", "ranges", "detached", "load", "stream",
                        "chunk", "locking", "insert"}
           /\ q.at = "idle" => q = Idle
           /\ q.at \notin {"idle", "failed", "gone"} => q.file \in Files
           /\ q.at \in {"ranges", "detached", "load", "chunk"} =>
                 q.left \in Nat /\ q.got \in SUBSET Contents
           /\ q.at \in {"stream", "chunk"} => q.rest \in Nat
           /\ q.at = "chunk" => q.size \in Nat
           /\ q.at = "insert" => q.got \in SUBSET Contents
BY DEF Requests, Idle, Failed, Gone

LEMMA InitStore == Init => StoreInv
<1> SUFFICES ASSUME Init PROVE StoreInv
  OBVIOUS
<1>1. DiskOK
  BY DEF DiskOK, Init, Contents
<1>2. SetupOK
  <2>1. manifest \in Manifests /\ Len(manifest) \in Nat
    BY ScanConstants DEF Init
  <2> QED
    BY <2>1 DEF SetupOK, Init, Rules, Unknown
<1>3. CountersOK
  BY ScanConstants DEF CountersOK, BudgetKept, Init
<1>4. ReadersOK
  BY RequestShapes DEF ReadersOK, Init, RequestOK, Entries
<1> QED
  BY <1>1, <1>2, <1>3, <1>4 DEF StoreInv, Waiting, Init

-----------------------------------------------------------------------------
(* Files are taken in, and change.                                         *)

LEMMA RegisterHolds ==
    ASSUME StoreInv, Register
    PROVE  StoreInv'
<1>1. /\ registered < Len(manifest) /\ ~refused /\ registered \in Nat /\ Len(manifest) \in Nat
      /\ UNCHANGED <<disk, manifest, limit, verified, counters, reader, delivered>>
  <2>1. Len(manifest) \in Nat
    BY ScanConstants DEF StoreInv, SetupOK
  <2> QED
    BY <2>1 DEF Register, StoreInv, SetupOK
<1>2. Waiting /\ Waiting'
  BY <1>1 DEF StoreInv, Open, Waiting
<1>3. PICK next : next = manifest[registered + 1]
  OBVIOUS
<1>4. next.file \in Files /\ next.digest \in Contents \cup {"none"} /\ next.source \in BOOLEAN
  <2>1. manifest \in Seq(Registration) /\ registered + 1 \in 1 .. Len(manifest)
    BY <1>1, ScanConstants DEF StoreInv, SetupOK
  <2>2. next \in Registration
    BY <2>1, <1>3
  <2> QED
    BY <2>2 DEF Registration
<1>5. SetupOK'
  <2>1. CASE Contradicts(next.file, next.digest)
    <3>1. refused' = TRUE /\ UNCHANGED <<registered, allowed>>
      BY <2>1, <1>3 DEF Register
    <3> QED
      BY <3>1, <1>1 DEF StoreInv, SetupOK
  <2>2. CASE ~Contradicts(next.file, next.digest)
    <3>1. PICK rule : rule = Merged(next.file, next.digest, next.source)
      OBVIOUS
    <3>2. /\ allowed' = [allowed EXCEPT ![next.file] = rule]
          /\ registered' = registered + 1 /\ refused' = refused
      BY <2>2, <3>1, <1>3 DEF Register
    <3>3. /\ rule \in Rules
          /\ rule.digest = IF allowed[next.file].digest \in {"unknown", "none"}
                           THEN next.digest ELSE allowed[next.file].digest
      BY <3>1, <1>4 DEF Merged, Rules, StoreInv, SetupOK
    <3>4. /\ next.digest # "none" => rule.digest = next.digest
          /\ allowed[next.file].digest \notin {"unknown", "none"} =>
                rule.digest = allowed[next.file].digest
          /\ rule.digest # allowed[next.file].digest => rule.digest = next.digest
      BY <3>3, <2>2 DEF Contradicts
    <3>5. allowed \in [Files -> Rules] /\ allowed' \in [Files -> Rules]
      BY <3>2, <3>3, <1>4 DEF StoreInv, SetupOK
    <3>6. registered' \in 0 .. Len(manifest) /\ (1 .. registered') = (1 .. registered) \cup {registered + 1}
      BY <3>2, <1>1
    <3>7. ASSUME NEW k \in 1 .. registered', manifest[k].digest # "none"
          PROVE  allowed'[manifest[k].file].digest = manifest[k].digest
      <4>1. CASE k = registered + 1
        BY <4>1, <3>2, <3>4, <3>5, <3>7, <1>3, <1>4
      <4>2. CASE k \in 1 .. registered
        <5>1. allowed[manifest[k].file].digest = manifest[k].digest
          BY <4>2, <3>7 DEF StoreInv, SetupOK
        <5>2. manifest[k].digest # "unknown"
          <6>1. manifest[k] \in Registration
            BY <4>2, <1>1, ScanConstants DEF StoreInv, SetupOK
          <6> QED
            BY <6>1 DEF Registration, Contents
        <5> QED
          BY <5>1, <5>2, <3>2, <3>4, <3>5, <3>7, <1>4
      <4> QED
        BY <4>1, <4>2, <3>6
    <3>8. ASSUME NEW f \in Files, allowed'[f].digest # "unknown"
          PROVE  \E k \in 1 .. registered' : /\ manifest[k].file = f
                                             /\ manifest[k].digest = allowed'[f].digest
      <4>1. CASE f = next.file /\ rule.digest = next.digest
        <5>1. allowed'[f].digest = next.digest
          BY <4>1, <3>2, <3>5
        <5> QED
          BY <5>1, <4>1, <3>6, <1>3
      <4>2. CASE allowed'[f].digest = allowed[f].digest
        <5>1. PICK k \in 1 .. registered : /\ manifest[k].file = f
                                           /\ manifest[k].digest = allowed[f].digest
          BY <4>2, <3>8 DEF StoreInv, SetupOK
        <5> QED
          BY <5>1, <4>2, <3>6
      <4> QED
        BY <4>1, <4>2, <3>2, <3>4, <3>5, <1>4
    <3> QED
      BY <3>2, <3>5, <3>6, <3>7, <3>8, <1>1 DEF StoreInv, SetupOK
  <2> QED
    BY <2>1, <2>2
<1>6. DiskOK' /\ CountersOK'
  BY <1>1 DEF StoreInv, DiskOK, CountersOK, BudgetKept
<1>7. ReadersOK'
  BY <1>2, RequestShapes DEF ReadersOK, Waiting, RequestOK, Entries
<1> QED
  BY <1>2, <1>5, <1>6, <1>7 DEF StoreInv

LEMMA DisturbHolds ==
    ASSUME StoreInv, NEW f \in Files, Disturb(f)
    PROVE  StoreInv'
<1>1. /\ content' = [content EXCEPT ![f] = "changed"]
      /\ moved' = moved \cup {f} \/ (f \in Managed /\ moved' = moved)
      /\ UNCHANGED <<setup, verified, counters, reader, delivered>>
  BY DEF Disturb, Change, Rot
<1>2. DiskOK'
  BY <1>1 DEF StoreInv, DiskOK, Contents
<1>3. SetupOK' /\ CountersOK' /\ (~Open' => Waiting')
  BY <1>1 DEF StoreInv, SetupOK, CountersOK, BudgetKept, Open, Waiting
<1>4. ReadersOK'
  <2>1. moved \subseteq moved'
    BY <1>1
  <2>2. ASSUME NEW r \in Readers PROVE RequestOK(reader[r])'
    BY <1>1, <2>1 DEF StoreInv, ReadersOK, RequestOK
  <2>3. ASSUME NEW d \in delivered PROVE DeliveryOK(d)'
    BY <1>1, <2>1 DEF StoreInv, ReadersOK, DeliveryOK
  <2>4. \A i \in 1 .. Len(cache) : EntryOK(cache[i])'
    BY <1>1 DEF StoreInv, ReadersOK, EntryOK
  <2> QED
    BY <1>1, <2>2, <2>3, <2>4 DEF StoreInv, ReadersOK
<1> QED
  BY <1>2, <1>3, <1>4 DEF StoreInv

-----------------------------------------------------------------------------
(* One request moves.                                                      *)

LEMMA RequestMoves ==
    ASSUME StoreInv, Open, UNCHANGED <<disk, setup>>,
           NEW r \in Readers, NEW q, Step(r, q), RequestOK(q),
           cache' \in Entries, \A i \in 1 .. Len(cache') : EntryOK(cache'[i]),
           NEW new, delivered' = delivered \cup new, \A d \in new : DeliveryOK(d),
           reserved' \in Nat, reserved' <= limit
    PROVE  StoreInv'
<1>1. DiskOK' /\ SetupOK' /\ CountersOK' /\ Open'
  BY DEF StoreInv, DiskOK, SetupOK, CountersOK, BudgetKept, Open
<1>2. /\ reader' \in [Readers -> Requests]
      /\ \A s \in Readers : reader'[s] \in {q, reader[s]}
  BY DEF StoreInv, ReadersOK, Step, RequestOK
<1>3. ASSUME NEW s \in Readers PROVE RequestOK(reader[s])'
  <2>1. RequestOK(reader'[s])
    BY <1>2 DEF StoreInv, ReadersOK
  <2> QED
    BY <2>1 DEF RequestOK
<1>4. \A d \in delivered' : DeliveryOK(d)'
  BY DEF StoreInv, ReadersOK, DeliveryOK
<1>5. \A i \in 1 .. Len(cache') : EntryOK(cache[i])'
  BY DEF EntryOK
<1> QED
  BY <1>1, <1>2, <1>3, <1>4, <1>5 DEF StoreInv, ReadersOK

\* The most frequent case: neither the cache nor what was given out changes.
LEMMA RequestMovesOnly ==
    ASSUME StoreInv, Open, UNCHANGED <<disk, setup, cache, delivered>>,
           NEW r \in Readers, NEW q, Step(r, q), RequestOK(q),
           reserved' = reserved \/ (\E n \in Nat : Fits(n) /\ Reserve(n))
    PROVE  StoreInv'
<1>1. reserved' \in Nat /\ reserved' <= limit
  BY DEF Fits, Reserve, StoreInv, CountersOK, BudgetKept
<1>2. cache' \in Entries /\ \A i \in 1 .. Len(cache') : EntryOK(cache'[i])
  BY DEF StoreInv, ReadersOK
<1>3. PICK new : new = {}
  OBVIOUS
<1>4. delivered' = delivered \cup new /\ \A d \in new : DeliveryOK(d)
  BY <1>3
<1>5. UNCHANGED <<disk, setup>>
  OBVIOUS
<1> HIDE DEF disk, setup
<1> QED
  BY <1>1, <1>2, <1>4, <1>5, RequestMoves

\* Whoever has a request in hand, all files are taken in.
LEMMA AtWork ==
    ASSUME StoreInv, NEW r \in Readers
    PROVE  /\ reader[r] \in Requests /\ RequestOK(reader[r])
           /\ reader[r].at # "idle" => Open
<1>1. reader[r] \in Requests /\ RequestOK(reader[r])
  BY DEF StoreInv, ReadersOK
<1>2. ASSUME ~Open PROVE reader[r].at = "idle"
  BY <1>2, RequestShapes DEF StoreInv, Waiting
<1> QED
  BY <1>1, <1>2

LEMMA EndsOK == RequestOK(Failed) /\ RequestOK(Idle) /\ RequestOK(Gone)
BY RequestShapes DEF RequestOK

LEMMA FailHolds ==
    ASSUME StoreInv, Open, NEW r \in Readers, Fail(r), UNCHANGED <<disk, setup>>
    PROVE  StoreInv'
BY EndsOK, RequestMovesOnly DEF Fail

LEMMA DropHolds ==
    ASSUME StoreInv, NEW r \in Readers, Drop(r)
    PROVE  StoreInv'
<1>1. PICK q : q = IF reader[r].at = "ranges" THEN [reader[r] EXCEPT !.at = "detached"] ELSE Gone
  OBVIOUS
<1>2. Step(r, q) /\ UNCHANGED <<disk, setup, cache, delivered>> /\ reserved' = reserved
  BY <1>1 DEF Drop
<1>3. Open
  BY AtWork DEF Drop
<1>4. RequestOK(q)
  <2>1. CASE reader[r].at = "ranges"
    <3>1. q = [at |-> "detached", file |-> reader[r].file, left |-> reader[r].left,
               got |-> reader[r].got]
      BY <2>1, <1>1, AtWork DEF Requests, Idle, Failed, Gone
    <3>2. q \in Requests
      BY <3>1, <2>1, AtWork, RequestFields DEF Requests
    <3> QED
      BY <3>1, <3>2, <2>1, AtWork DEF RequestOK
  <2>2. CASE reader[r].at # "ranges"
    BY <2>2, <1>1, EndsOK
  <2> QED
    BY <2>1, <2>2
<1> QED
  BY <1>2, <1>3, <1>4, RequestMovesOnly

\* A file is registered without a digest under all its names, or with the one
\* that was frozen.
LEMMA OutsideWorkspace ==
    ASSUME StoreInv, Open, NEW f \in Files, allowed[f].digest = "none"
    PROVE  f \notin Managed /\ f \in Sources
<1>1. PICK k \in 1 .. registered : manifest[k].file = f /\ manifest[k].digest = "none"
  BY DEF StoreInv, SetupOK
<1>2. registered = Len(manifest) /\ manifest \in Manifests
  BY DEF Open, StoreInv, SetupOK
<1>3. /\ manifest[k].source
      /\ f \in Managed => \E j \in 1 .. Len(manifest) : /\ manifest[j].file = f
                                                       /\ manifest[j].digest \in Contents
  BY <1>1, <1>2, ManifestAssumption
<1>4. \A j \in 1 .. Len(manifest) :
         manifest[j].file = f /\ manifest[j].digest \in Contents => allowed[f].digest # "none"
  BY <1>2 DEF StoreInv, SetupOK, Contents
<1>5. f \in Sources
  BY <1>1, <1>2, <1>3 DEF Sources
<1> QED
  BY <1>3, <1>4, <1>5

LEMMA DigestsFrozen ==
    ASSUME StoreInv, Open, NEW f \in Files, allowed[f].digest \in Contents
    PROVE  allowed[f].digest = "frozen"
<1>1. SUFFICES ASSUME allowed[f].digest = "changed" PROVE FALSE
  BY DEF Contents
<1>2. registered = Len(manifest) /\ manifest \in Manifests
  BY DEF Open, StoreInv, SetupOK
<1>3. PICK k \in 1 .. Len(manifest) : manifest[k].file = f /\ manifest[k].digest = "changed"
  BY <1>1, <1>2 DEF StoreInv, SetupOK
<1>4. PICK j \in 1 .. Len(manifest) : manifest[j].file = f /\ manifest[j].digest = "frozen"
  BY <1>2, <1>3, ManifestAssumption
<1>5. allowed[f].digest = "frozen"
  BY <1>2, <1>4 DEF StoreInv, SetupOK
<1> QED
  BY <1>1, <1>5

\* Requests on files without a digest.
LEMMA AskHolds ==
    ASSUME StoreInv, NEW r \in Readers, NEW f \in Files, NEW n \in Nat, Request(r, f, n)
    PROVE  StoreInv'
<1>1. Open /\ UNCHANGED <<disk, setup>>
  BY DEF Request, GetRanges, GetStream, GetPart
<1>2. CASE Fail(r)
  BY <1>1, <1>2, FailHolds
<1>3. CASE GetRanges(r, f, n) /\ ~Fail(r)
  <2>1. PICK q : q = [at |-> "ranges", file |-> f, left |-> n, got |-> {}]
    OBVIOUS
  <2>2. /\ Fits(n) /\ Reserve(n) /\ Step(r, q) /\ allowed[f].digest = "none"
        /\ UNCHANGED <<verified, delivered>>
    BY <1>3, <2>1 DEF GetRanges
  <2>3. RequestOK(q)
    BY <2>1, <2>2 DEF RequestOK, Requests
  <2> QED
    BY <1>1, <2>2, <2>3, RequestMovesOnly
<1>4. CASE GetStream(r, f, n) /\ ~Fail(r)
  <2>1. PICK q : q = [at |-> "stream", file |-> f, rest |-> n]
    OBVIOUS
  <2>2. /\ Step(r, q) /\ allowed[f].digest = "none"
        /\ UNCHANGED <<verified, delivered>> /\ reserved' = reserved
    BY <1>4, <2>1 DEF GetStream
  <2>3. RequestOK(q)
    BY <2>1, <2>2 DEF RequestOK, Requests
  <2> QED
    BY <1>1, <2>2, <2>3, RequestMovesOnly
<1>5. CASE GetPart(r, f) /\ ~Fail(r)
  <2>1. PICK q : q = [at |-> "locking", file |-> f]
    OBVIOUS
  <2>2. /\ Step(r, q) /\ allowed[f].digest \notin {"unknown", "none"}
        /\ UNCHANGED <<verified, delivered>> /\ reserved' = reserved
    BY <1>5, <2>1 DEF GetPart
  <2>3. allowed[f].digest \in Contents
    BY <2>2 DEF StoreInv, SetupOK, Rules
  <2>4. RequestOK(q)
    BY <2>1, <2>3 DEF RequestOK, Requests
  <2> QED
    BY <1>1, <2>2, <2>4, RequestMovesOnly
<1> QED
  BY <1>2, <1>3, <1>4, <1>5 DEF Request

\* What an unmoved file outside the workspace holds is frozen.
LEMMA ReadByteHolds ==
    ASSUME StoreInv, NEW r \in Readers, ReadByte(r)
    PROVE  StoreInv'
<1>1. PICK p : p = reader[r]
  OBVIOUS
<1>2. /\ p.at \in Reads /\ p.left > 0
      /\ Step(r, [p EXCEPT !.left = @ - 1, !.got = @ \cup {content[p.file]}])
      /\ UNCHANGED <<disk, setup, cache, delivered>> /\ reserved' = reserved
  BY <1>1 DEF ReadByte
<1>3. p \in Requests /\ RequestOK(p) /\ Open
  BY <1>1, <1>2, AtWork DEF Reads
<1>4. p.file \in Files /\ p.left \in Nat /\ p.got \in SUBSET Contents
  BY <1>2, <1>3, RequestFields DEF Reads
<1>5. content[p.file] \in Contents
  BY <1>4 DEF StoreInv, DiskOK
<1>6. PICK q : q = [p EXCEPT !.left = @ - 1, !.got = @ \cup {content[p.file]}]
  OBVIOUS
<1>7. /\ q \in Requests /\ q.at = p.at /\ q.file = p.file
      /\ q.got = p.got \cup {content[p.file]}
  <2>1. p.left - 1 \in Nat
    BY <1>2, <1>4
  <2>2. CASE p.at = "chunk"
    <3>1. p \in [at : {"chunk"}, file : Files, rest : Nat, size : Nat, left : Nat,
                 got : SUBSET Contents]
      BY <2>2, <1>3 DEF Requests, Idle, Failed, Gone
    <3> QED
      BY <3>1, <2>1, <1>5, <1>6 DEF Requests
  <2>3. CASE p.at # "chunk"
    <3>1. p \in [at : {"ranges", "detached", "load"}, file : Files, left : Nat,
                 got : SUBSET Contents]
      BY <2>3, <1>2, <1>3 DEF Requests, Idle, Failed, Gone, Reads
    <3> QED
      BY <3>1, <2>1, <1>5, <1>6 DEF Requests
  <2> QED
    BY <2>2, <2>3
<1>8. RequestOK(q)
  <2>1. ASSUME q.at \in {"ranges", "detached", "chunk"}, "changed" \in q.got
        PROVE  q.file \in moved
    <3>1. CASE "changed" \in p.got
      BY <3>1, <2>1, <1>3, <1>7 DEF RequestOK
    <3>2. CASE content[p.file] = "changed"
      <4>1. allowed[p.file].digest = "none"
        BY <2>1, <1>3, <1>7 DEF RequestOK
      <4>2. p.file \notin Managed
        BY <4>1, <1>3, <1>4, OutsideWorkspace
      <4> QED
        BY <4>2, <3>2, <1>4, <1>7 DEF StoreInv, DiskOK
    <3> QED
      BY <3>1, <3>2, <2>1, <1>7
  <2> QED
    BY <2>1, <1>2, <1>3, <1>7 DEF RequestOK, Reads
<1> QED
  BY <1>2, <1>3, <1>6, <1>8, RequestMovesOnly

LEMMA EndRangesHolds ==
    ASSUME StoreInv, NEW r \in Readers, EndRanges(r)
    PROVE  StoreInv'
<1>1. reader[r].at = "ranges" /\ UNCHANGED <<disk, setup>>
  BY DEF EndRanges
<1>2. Open /\ reader[r] \in Requests /\ RequestOK(reader[r])
  BY <1>1, AtWork
<1>3. CASE Fail(r)
  BY <1>1, <1>2, <1>3, FailHolds
<1>4. CASE ~Fail(r)
  <2>1. /\ reader[r].file \notin moved /\ Step(r, Idle)
        /\ UNCHANGED <<verified, counters>> /\ Give(r, "ranges", reader[r].got)
    BY <1>4 DEF EndRanges, Unmoved
  <2>2. PICK new : new = {[file |-> reader[r].file, how |-> "ranges", content |-> c] :
                             c \in reader[r].got}
    OBVIOUS
  <2>3. delivered' = delivered \cup new
    BY <2>1, <2>2 DEF Give
  <2>4. reader[r].got \subseteq {"frozen"} /\ reader[r].file \in Files
        /\ allowed[reader[r].file].digest = "none"
    BY <1>1, <1>2, <2>1, RequestFields DEF RequestOK, Contents
  <2>5. ASSUME NEW d \in new PROVE DeliveryOK(d)
    BY <2>2, <2>4 DEF DeliveryOK, Deliveries, Contents
  <2> QED
    BY <1>1, <1>2, <2>1, <2>3, <2>5, EndsOK, RequestMoves DEF StoreInv, ReadersOK, CountersOK, BudgetKept
<1> QED
  BY <1>3, <1>4

LEMMA StreamHolds ==
    ASSUME StoreInv, NEW r \in Readers, NextChunk(r) \/ EndStream(r)
    PROVE  StoreInv'
<1>1. reader[r].at = "stream" /\ UNCHANGED <<disk, setup>>
  BY DEF NextChunk, EndStream
<1>2. /\ Open /\ reader[r] \in Requests /\ RequestOK(reader[r])
      /\ reader[r].rest \in Nat /\ reader[r].file \in Files
  BY <1>1, AtWork, RequestFields
<1>3. CASE Fail(r)
  BY <1>1, <1>2, <1>3, FailHolds
<1>4. CASE NextChunk(r) /\ ~Fail(r)
  <2>1. PICK n : n = IF reader[r].rest <= Chunk THEN reader[r].rest ELSE Chunk
    OBVIOUS
  <2>2. n \in Nat /\ reader[r].rest - n \in Nat
    BY <2>1, <1>2, ScanConstants
  <2>3. PICK q : q = [at |-> "chunk", file |-> reader[r].file, rest |-> reader[r].rest - n,
                      size |-> n, left |-> n, got |-> {}]
    OBVIOUS
  <2>4. Fits(n) /\ Reserve(n) /\ Step(r, q) /\ UNCHANGED <<verified, delivered>>
    BY <1>4, <2>1, <2>3 DEF NextChunk
  <2>5. RequestOK(q)
    BY <2>2, <2>3, <1>1, <1>2 DEF RequestOK, Requests
  <2> QED
    BY <1>1, <1>2, <2>2, <2>4, <2>5, RequestMovesOnly
<1>5. CASE EndStream(r)
  BY <1>1, <1>2, <1>5, EndsOK, RequestMovesOnly DEF EndStream
<1> QED
  BY <1>3, <1>4, <1>5

LEMMA EndChunkHolds ==
    ASSUME StoreInv, NEW r \in Readers, EndChunk(r)
    PROVE  StoreInv'
<1>1. PICK p : p = reader[r]
  OBVIOUS
<1>2. PICK q : q = [at |-> "stream", file |-> p.file, rest |-> p.rest]
  OBVIOUS
<1>3. PICK new : new = {[file |-> p.file, how |-> "stream", content |-> c] : c \in p.got}
  OBVIOUS
<1>4. /\ p.at = "chunk" /\ Step(r, q) /\ delivered' = delivered \cup new
      /\ UNCHANGED <<disk, setup, verified, reserved>>
  BY <1>1, <1>2, <1>3 DEF EndChunk, Give
<1>5. /\ Open /\ p \in Requests /\ RequestOK(p) /\ p.file \in Files /\ p.rest \in Nat
      /\ p.got \in SUBSET Contents
  BY <1>1, <1>4, AtWork, RequestFields
<1>6. RequestOK(q)
  BY <1>2, <1>4, <1>5 DEF RequestOK, Requests
<1>7. ASSUME NEW d \in new PROVE DeliveryOK(d)
  BY <1>3, <1>4, <1>5 DEF DeliveryOK, Deliveries, RequestOK
<1> QED
  BY <1>4, <1>5, <1>6, <1>7, RequestMoves DEF StoreInv, ReadersOK, CountersOK, BudgetKept

-----------------------------------------------------------------------------
(* Files with a digest.                                                    *)

LEMMA ElementsTyped ==
    ASSUME NEW S, NEW c \in Seq(S)
    PROVE  Len(c) \in Nat /\ \A k \in 1 .. Len(c) : c[k] \in S
OBVIOUS

LEMMA TakeCachedHolds ==
    ASSUME StoreInv, NEW r \in Readers, TakeCached(r)
    PROVE  StoreInv'
<1>1. PICK f : f = reader[r].file
  OBVIOUS
<1>2. PICK i \in Cached(f) :
        /\ cache' = [k \in 1 .. Len(cache) |->
                        IF k < i THEN cache[k]
                        ELSE IF k < Len(cache) THEN cache[k + 1] ELSE cache[i]]
        /\ Give(r, "part", cache[i].got)
  BY <1>1 DEF TakeCached
<1>3. /\ reader[r].at = "locking" /\ Step(r, Idle)
      /\ UNCHANGED <<disk, setup, holder, cached, counters>>
  BY DEF TakeCached
<1>4. Open /\ f \in Files
  BY <1>1, <1>3, AtWork, RequestFields
<1>5. /\ cache \in Entries /\ \A k \in 1 .. Len(cache) : EntryOK(cache[k])
      /\ Len(cache) \in Nat /\ i \in 1 .. Len(cache) /\ cache[i].file = f
      /\ \A k \in 1 .. Len(cache) : cache[k] \in [file : Files, got : SUBSET Contents]
  <2>1. i \in 1 .. Len(cache) /\ cache[i].file = f
    BY <1>2 DEF Cached
  <2>2. cache \in Entries /\ \A k \in 1 .. Len(cache) : EntryOK(cache[k])
    BY DEF StoreInv, ReadersOK
  <2>3. /\ Len(cache) \in Nat
        /\ \A k \in 1 .. Len(cache) : cache[k] \in [file : Files, got : SUBSET Contents]
    BY <2>2, ElementsTyped DEF Entries
  <2> QED
    BY <2>1, <2>2, <2>3
<1>6. \A k \in 1 .. Len(cache) : \E j \in 1 .. Len(cache) : cache'[k] = cache[j]
  <2>1. ASSUME NEW k \in 1 .. Len(cache) PROVE \E j \in 1 .. Len(cache) : cache'[k] = cache[j]
    <3>1. CASE k < i
      BY <3>1, <1>2
    <3>2. CASE ~(k < i) /\ k < Len(cache)
      <4>1. k + 1 \in 1 .. Len(cache) /\ cache'[k] = cache[k + 1]
        BY <3>2, <1>2, <1>5
      <4> QED
        BY <4>1
    <3>3. CASE ~(k < i) /\ ~(k < Len(cache))
      BY <3>3, <1>2, <1>5
    <3> QED
      BY <3>1, <3>2, <3>3
  <2> QED
    BY <2>1
<1>7. cache' \in Entries /\ Len(cache') = Len(cache)
  <2>1. \A k \in 1 .. Len(cache) : cache'[k] \in [file : Files, got : SUBSET Contents]
    BY <1>5, <1>6
  <2>2. cache' \in [1 .. Len(cache) -> [file : Files, got : SUBSET Contents]]
    BY <2>1, <1>2
  <2> QED
    BY <2>2, <1>5 DEF Entries
<1>8. \A k \in 1 .. Len(cache') : EntryOK(cache'[k])
  BY <1>5, <1>6, <1>7
<1>9. PICK new : new = {[file |-> f, how |-> "part", content |-> c] : c \in cache[i].got}
  OBVIOUS
<1>10. delivered' = delivered \cup new
  BY <1>1, <1>2, <1>9 DEF Give
<1>11. ASSUME NEW d \in new PROVE DeliveryOK(d)
  <2>1. PICK c \in cache[i].got : d = [file |-> f, how |-> "part", content |-> c]
    BY <1>9, <1>11
  <2>2. c \in Contents /\ c = allowed[f].digest
    BY <2>1, <1>5 DEF EntryOK
  <2> QED
    BY <2>1, <2>2, <1>4 DEF DeliveryOK, Deliveries
<1> QED
  BY <1>3, <1>4, <1>7, <1>8, <1>10, <1>11, EndsOK, RequestMoves
  DEF StoreInv, CountersOK, BudgetKept

LEMMA LoadHolds ==
    ASSUME StoreInv, NEW r \in Readers, Load(r)
    PROVE  StoreInv'
<1>1. PICK f : f = reader[r].file
  OBVIOUS
<1>2. PICK q : q = [at |-> "load", file |-> f, left |-> Size[f], got |-> {}]
  OBVIOUS
<1>3. reader[r].at = "locking" /\ UNCHANGED <<disk, setup>>
  BY DEF Load
<1>4. Open /\ f \in Files /\ allowed[f].digest \in Contents /\ Size[f] \in Nat
  BY <1>1, <1>3, AtWork, RequestFields, ScanConstants DEF RequestOK
<1>5. CASE Fail(r)
  BY <1>3, <1>4, <1>5, FailHolds
<1>6. CASE ~Fail(r)
  <2>1. Fits(Size[f]) /\ Reserve(Size[f]) /\ Step(r, q) /\ UNCHANGED <<cache, cached, delivered>>
    BY <1>1, <1>2, <1>6 DEF Load
  <2>2. RequestOK(q)
    BY <1>2, <1>4 DEF RequestOK, Requests
  <2> QED
    BY <1>3, <1>4, <2>1, <2>2, RequestMovesOnly
<1> QED
  BY <1>5, <1>6

LEMMA VerifyHolds ==
    ASSUME StoreInv, NEW r \in Readers, Verify(r)
    PROVE  StoreInv'
<1>1. PICK p : p = reader[r]
  OBVIOUS
<1>2. PICK q : q = [at |-> "insert", file |-> p.file, got |-> p.got]
  OBVIOUS
<1>3. p.at = "load" /\ UNCHANGED <<disk, setup>>
  BY <1>1 DEF Verify
<1>4. /\ Open /\ p.file \in Files /\ p.got \in SUBSET Contents
      /\ allowed[p.file].digest \in Contents
  BY <1>1, <1>3, AtWork, RequestFields DEF RequestOK
<1>5. CASE Fail(r)
  BY <1>3, <1>4, <1>5, FailHolds
<1>6. CASE ~Fail(r)
  <2>1. Intact(p.file, p.got) /\ Step(r, q) /\ UNCHANGED <<verified, reserved, delivered>>
    BY <1>1, <1>2, <1>6 DEF Verify
  <2>2. RequestOK(q)
    BY <2>1, <1>2, <1>4 DEF RequestOK, Requests, Intact
  <2> QED
    BY <1>3, <1>4, <2>1, <2>2, RequestMovesOnly
<1> QED
  BY <1>5, <1>6

LEMMA EvictHolds ==
    ASSUME StoreInv, NEW r \in Readers, Evict(r)
    PROVE  StoreInv'
<1>1. /\ reader[r].at = "insert" /\ cache # <<>> /\ cache' = Tail(cache)
      /\ UNCHANGED <<disk, setup, counters, reader, delivered>>
  BY DEF Evict
<1>2. Open /\ RequestOK(reader[r])
  BY <1>1, AtWork
<1>3. cache \in Entries /\ \A k \in 1 .. Len(cache) : EntryOK(cache[k])
  BY DEF StoreInv, ReadersOK
<1>4. /\ cache' \in Entries /\ Len(cache') = Len(cache) - 1 /\ Len(cache) \in Nat
      /\ \A k \in 1 .. Len(cache') : cache'[k] = cache[k + 1]
  BY <1>1, <1>3 DEF Entries
<1>5. \A k \in 1 .. Len(cache') : EntryOK(cache'[k])
  BY <1>3, <1>4
<1>6. Step(r, reader[r])
  BY <1>1 DEF Step, StoreInv, ReadersOK
<1>7. PICK new : new = {}
  OBVIOUS
<1>8. delivered' = delivered \cup new /\ \A d \in new : DeliveryOK(d)
  BY <1>1, <1>7
<1> QED
  BY <1>1, <1>2, <1>4, <1>5, <1>6, <1>8, RequestMoves DEF StoreInv, CountersOK, BudgetKept

LEMMA InsertHolds ==
    ASSUME StoreInv, NEW r \in Readers, Insert(r)
    PROVE  StoreInv'
<1>1. PICK p : p = reader[r]
  OBVIOUS
<1>2. PICK entry : entry = [file |-> p.file, got |-> p.got]
  OBVIOUS
<1>3. PICK new : new = {[file |-> p.file, how |-> "part", content |-> c] : c \in p.got}
  OBVIOUS
<1>4. /\ p.at = "insert" /\ cache' \in {cache, Append(cache, entry)}
      /\ Step(r, Idle) /\ delivered' = delivered \cup new
      /\ UNCHANGED <<disk, setup, counters>>
  BY <1>1, <1>2, <1>3 DEF Insert, Give
<1>5. /\ Open /\ p.file \in Files /\ p.got \in SUBSET Contents
      /\ p.got \subseteq {allowed[p.file].digest}
  BY <1>1, <1>4, AtWork, RequestFields DEF RequestOK
<1>6. cache \in Entries /\ \A k \in 1 .. Len(cache) : EntryOK(cache[k])
  BY DEF StoreInv, ReadersOK
<1>7. EntryOK(entry) /\ entry \in [file : Files, got : SUBSET Contents]
  BY <1>2, <1>5 DEF EntryOK
<1>8. cache' \in Entries /\ \A k \in 1 .. Len(cache') : EntryOK(cache'[k])
  <2>1. CASE cache' = Append(cache, entry)
    <3>1. /\ cache' \in Entries /\ Len(cache') = Len(cache) + 1 /\ Len(cache) \in Nat
          /\ \A k \in 1 .. Len(cache) : cache'[k] = cache[k]
          /\ cache'[Len(cache) + 1] = entry
      BY <2>1, <1>6, <1>7 DEF Entries
    <3> QED
      BY <3>1, <1>6, <1>7
  <2> QED
    BY <2>1, <1>4, <1>6
<1>9. ASSUME NEW d \in new PROVE DeliveryOK(d)
  BY <1>3, <1>5 DEF DeliveryOK, Deliveries
<1> QED
  BY <1>4, <1>5, <1>8, <1>9, EndsOK, RequestMoves DEF StoreInv, CountersOK, BudgetKept

LEMMA ServeHolds ==
    ASSUME StoreInv, NEW r \in Readers, Serve(r)
    PROVE  StoreInv'
<1>1. CASE ReadFails(r)
  <2>1. Open
    BY <1>1, AtWork DEF ReadFails, Reads
  <2> QED
    BY <1>1, <2>1, FailHolds DEF ReadFails
<1> QED
  BY <1>1, ReadByteHolds, EndRangesHolds, StreamHolds, EndChunkHolds, TakeCachedHolds, LoadHolds,
     VerifyHolds, EvictHolds, InsertHolds
  DEF Serve

-----------------------------------------------------------------------------
(***************************************************************************)
(* The job.                                                                *)
(***************************************************************************)
Places ==
    [step : {"file", "metadata", "fragment", "checkpoint", "end"},
     file : Nat \ {0}, fragment : Nat \ {0}, reading : BOOLEAN]

\* Only one reader of an analysis ever asks, and not between two fragments;
\* a job that completes leaves no request that could still be answered.
JobInv ==
    /\ job \in {"starting", "running", "completed", "failed"} /\ kind \in {"query", "analysis"}
    /\ at \in Places
    /\ kind = "analysis" =>
          /\ at.file <= Len(manifest)
          /\ at.step \in {"file", "checkpoint", "end"} => ~at.reading
          /\ \A r \in Readers \ {Single} : reader[r] = Idle
          /\ job \in {"starting", "running"} /\ ~at.reading => reader[Single] = Idle
    /\ job = "completed" =>
          /\ \A r \in Readers : reader[r].at \in {"idle", "gone", "detached"}
          /\ \A d \in delivered : d.content = "frozen"

ScanInv == StoreInv /\ JobInv

LEMMA InitScan == JobInit => ScanInv
<1> SUFFICES ASSUME JobInit PROVE ScanInv
  OBVIOUS
<1>1. StoreInv
  BY InitStore DEF JobInit
<1>2. kind = "analysis" => Len(manifest) \in Nat \ {0}
  BY ScanConstants DEF JobInit, Init
<1>3. JobInv
  BY <1>2, ScanConstants DEF JobInit, Init, JobInv, Unread, Places
<1> QED
  BY <1>1, <1>3 DEF ScanInv

\* What a job of files as they were frozen was given out is frozen.
LEMMA CompletionIsFrozen ==
    ASSUME StoreInv, Open, Validated, NEW d \in delivered
    PROVE  d.content = "frozen"
<1>1. DeliveryOK(d)
  BY DEF StoreInv, ReadersOK
<1>2. d.file \in Files /\ d.content \in Contents /\ d.how \in {"ranges", "stream", "part"}
  BY <1>1 DEF DeliveryOK, Deliveries
<1>3. CASE d.how = "part"
  BY <1>1, <1>2, <1>3, DigestsFrozen DEF DeliveryOK
<1>4. CASE d.how = "ranges"
  BY <1>1, <1>4 DEF DeliveryOK
<1>5. CASE d.how = "stream"
  <2>1. d.file \in Sources
    BY <1>1, <1>2, <1>5, OutsideWorkspace DEF DeliveryOK
  <2>2. d.file \notin moved
    BY <2>1 DEF Validated, Unmoved
  <2> QED
    BY <1>1, <1>2, <1>5, <2>2 DEF DeliveryOK, Contents
<1> QED
  BY <1>2, <1>3, <1>4, <1>5

\* A request of a reader with nothing in hand is not served.
LEMMA ServedHaveWork ==
    ASSUME NEW r \in Readers, Serve(r)
    PROVE  /\ reader[r].at \notin {"idle", "gone", "failed"}
           /\ reader[r].at = "detached" => ReadByte(r)
           /\ UNCHANGED <<disk, setup>>
           /\ Evict(r) \/ \E q : Step(r, q)
<1>1. CASE ReadByte(r) \/ ReadFails(r)
  BY <1>1 DEF ReadByte, ReadFails, Reads, Fail
<1>2. CASE EndRanges(r) \/ NextChunk(r) \/ EndChunk(r) \/ EndStream(r)
  <2>1. reader[r].at \in {"ranges", "stream", "chunk"} /\ UNCHANGED <<disk, setup>>
    BY <1>2 DEF EndRanges, NextChunk, EndChunk, EndStream
  <2>2. \E q : Step(r, q)
    BY <1>2 DEF EndRanges, NextChunk, EndChunk, EndStream, Fail
  <2> QED
    BY <2>1, <2>2
<1>3. CASE TakeCached(r) \/ Load(r) \/ Verify(r) \/ Insert(r)
  <2>1. reader[r].at \in {"locking", "load", "insert"} /\ UNCHANGED <<disk, setup>>
    BY <1>3 DEF TakeCached, Load, Verify, Insert
  <2>2. \E q : Step(r, q)
    BY <1>3 DEF TakeCached, Load, Verify, Insert, Fail
  <2> QED
    BY <2>1, <2>2
<1>4. CASE Evict(r)
  BY <1>4 DEF Evict
<1> QED
  BY <1>1, <1>2, <1>3, <1>4 DEF Serve

\* A step of the job is a step of the store, or none.
LEMMA FileKnown ==
    ASSUME ScanInv, kind = "analysis"
    PROVE  File \in Files
<1>1. manifest \in Seq(Registration) /\ at.file \in 1 .. Len(manifest)
  <2>1. manifest \in Seq(Registration) /\ at.file \in Nat \ {0} /\ at.file <= Len(manifest)
    BY ScanConstants DEF ScanInv, StoreInv, SetupOK, JobInv, Places
  <2>2. Len(manifest) \in Nat
    BY <2>1
  <2> QED
    BY <2>1, <2>2
<1>2. manifest[at.file] \in Registration
  BY <1>1, ElementsTyped
<1> QED
  BY <1>2 DEF File, Registration

LEMMA StoreKept ==
    ASSUME ScanInv, [Next]_allVars
    PROVE  StoreInv'
<1> USE DEF ScanInv
<1>1. ASSUME UNCHANGED vars PROVE StoreInv'
  BY <1>1 DEF vars, StoreInv, DiskOK, SetupOK, CountersOK, BudgetKept, ReadersOK, Open, Waiting,
     RequestOK, EntryOK, DeliveryOK
<1>2. CASE Start \/ Stop \/ Complete
  BY <1>1, <1>2 DEF Start, Stop, Complete
<1>3. CASE Prepare
  BY <1>3, RegisterHolds DEF Prepare
<1>4. ASSUME NEW r \in Readers, Abandon(r) PROVE StoreInv'
  BY <1>4, DropHolds DEF Abandon
<1>5. ASSUME NEW r \in Readers, Ask(r) PROVE StoreInv'
  <2>1. PICK f \in Files : \E n \in 1 .. Size[f] : Request(r, f, n)
    BY <1>5 DEF Ask
  <2>2. \A n \in 1 .. Size[f] : n \in Nat
    BY ScanConstants
  <2> QED
    BY <2>1, <2>2, AskHolds
<1>6. ASSUME NEW r \in Readers, Work(r) PROVE StoreInv'
  BY <1>6, ServeHolds DEF Work
<1>7. CASE NextFile \/ Metadata \/ Accumulate \/ Finish \/ (\E publish \in BOOLEAN : Advance(publish))
  BY <1>1, <1>7 DEF NextFile, Metadata, Accumulate, Finish, Advance
<1>8. CASE Read
  <2>1. File \in Files
    BY <1>8, FileKnown DEF Read, Analyzing
  <2>2. PICK n \in 1 .. Size[File] :
           GetRanges(Single, File, n) \/ GetPart(Single, File) \/ GetStream(Single, File, n)
    BY <1>8 DEF Read
  <2>3. n \in Nat
    BY <2>1, ScanConstants
  <2> QED
    BY <2>1, <2>2, <2>3, AskHolds, ScanConstants DEF Request
<1>9. CASE Receive \/ Await
  <2>1. Serve(Single)
    BY <1>9 DEF Receive, Await, Serve
  <2> QED
    BY <2>1, ServeHolds, ScanConstants
<1>10. CASE Surroundings
  <2>1. PICK i \in 1 .. Len(manifest) : Disturb(manifest[i].file)
    BY <1>10 DEF Surroundings
  <2>2. manifest[i] \in Registration
    BY ElementsTyped, ScanConstants DEF StoreInv, SetupOK
  <2> QED
    BY <2>1, <2>2, DisturbHolds DEF Registration
<1>11. CASE UNCHANGED allVars
  BY <1>1, <1>11 DEF allVars
<1> QED
  BY <1>2, <1>3, <1>4, <1>5, <1>6, <1>7, <1>8, <1>9, <1>10, <1>11 DEF Next, Query, Analysis

LEMMA PlaceTyped ==
    ASSUME NEW s \in {"file", "metadata", "fragment", "checkpoint", "end"},
           NEW f \in Nat \ {0}, NEW g \in Nat \ {0}, NEW b \in BOOLEAN
    PROVE  LET p == [step |-> s, file |-> f, fragment |-> g, reading |-> b]
           IN  p \in Places /\ p.step = s /\ p.file = f /\ p.reading = b
BY DEF Places

LEMMA JobKept ==
    ASSUME ScanInv, [Next]_allVars
    PROVE  JobInv'
<1> USE DEF ScanInv
<1>1. JobInv /\ Single \in Readers /\ reader \in [Readers -> Requests]
  BY ScanConstants DEF StoreInv, ReadersOK
<1>2. CASE Start \/ Stop
  BY <1>1, <1>2 DEF Start, Stop, JobInv, vars, analysis
<1>3. CASE Prepare
  BY <1>1, <1>3 DEF Prepare, Register, JobInv, jobVars, request, analysis
<1>4. ASSUME NEW r \in Readers, Abandon(r) PROVE JobInv'
  <2>1. /\ reader[r].at \notin {"idle", "gone", "detached"} /\ UNCHANGED <<jobVars, manifest, delivered>>
        /\ job \in {"completed", "failed"} \/ kind = "query"
        /\ \E q : reader' = [reader EXCEPT ![r] = q]
    BY <1>4 DEF Abandon, Drop, Step
  <2>2. \A s \in Readers : s # r => reader'[s] = reader[s]
    BY <2>1, <1>1
  <2>3. kind = "analysis" => r = Single
    BY <2>1, <1>1, RequestShapes DEF JobInv
  <2> QED
    BY <1>1, <2>1, <2>2, <2>3 DEF JobInv, jobVars, request, analysis
<1>5. ASSUME NEW r \in Readers, Ask(r) PROVE JobInv'
  <2>1. /\ job = "running" /\ kind = "query" /\ UNCHANGED <<request, analysis, manifest>>
    BY <1>5 DEF Ask, Request, GetRanges, GetStream, GetPart
  <2> QED
    BY <1>1, <2>1 DEF JobInv, request, analysis
<1>6. ASSUME NEW r \in Readers, Serve(r), UNCHANGED <<request, at>>, kind = "query" \/ r = Single
      PROVE JobInv'
  <2>1. /\ reader[r].at \notin {"idle", "gone", "failed"} /\ UNCHANGED manifest
        /\ reader[r].at = "detached" => ReadByte(r)
        /\ \A s \in Readers : s # r => reader'[s] = reader[s]
    BY <1>1, <1>6, ServedHaveWork DEF Step, Evict
  <2>2. ASSUME job = "completed"
        PROVE  reader'[r].at = "detached" /\ delivered' = delivered
    <3>1. reader[r].at = "detached"
      BY <2>1, <2>2, <1>1 DEF JobInv
    <3>2. ReadByte(r)
      BY <2>1, <3>1
    <3>3. reader[r] \in [at : {"detached"}, file : Files, left : Nat, got : SUBSET Contents]
      BY <3>1, <1>1 DEF Requests, Idle, Failed, Gone
    <3> QED
      BY <3>1, <3>2, <3>3, <1>1 DEF ReadByte, Step
  <2>3. kind = "analysis" => at.reading \/ job \in {"completed", "failed"}
    BY <2>1, <1>1, <1>6, RequestShapes DEF JobInv
  <2>4. job' = job /\ kind' = kind /\ at' = at
    BY <1>6 DEF request
  <2> QED
    BY <1>1, <1>6, <2>1, <2>2, <2>3, <2>4 DEF JobInv
<1>7. CASE Complete
  <2>1. Validated => \A d \in delivered : d.content = "frozen"
    BY <1>7, CompletionIsFrozen DEF Complete
  <2> QED
    BY <1>1, <1>7, <2>1 DEF Complete, Outcome, JobInv, vars, analysis
<1>8. CASE NextFile \/ Metadata \/ Accumulate
  <2>1. /\ job = "running" /\ job' \in {"running", "failed"} /\ kind' = kind
        /\ UNCHANGED <<manifest, reader, delivered>>
    BY <1>8 DEF NextFile, Metadata, Accumulate, Analyzing, vars, request
  <2>2. /\ at' \in Places
        /\ at'.file = at.file
        /\ at'.step \in {"file", "checkpoint", "end"} => ~at'.reading
        /\ ~at'.reading => reader[Single] = Idle
    <3>p. PICK p : p = at
      OBVIOUS
    <3>0. /\ p \in Places /\ kind = "analysis" /\ job = "running"
          /\ p.step \in {"file", "checkpoint", "end"} => ~p.reading
          /\ ~p.reading => reader[Single] = Idle
      BY <1>1, <1>8, <3>p DEF JobInv, NextFile, Metadata, Accumulate, Analyzing
    <3>1. CASE NextFile
      <4>1. p.step = "file" /\ at' \in {p, [p EXCEPT !.step = "metadata"]}
        BY <3>1, <3>p DEF NextFile, Analyzing
      <4> QED
        BY <3>0, <3>p, <4>1 DEF Places
    <3>2. CASE Metadata
      <4>1. /\ at' = [p EXCEPT !.step = "fragment", !.fragment = 1, !.reading = FALSE]
            /\ reader[Single] = Idle
        BY <3>2, <3>p DEF Metadata
      <4>2. p.file \in Nat \ {0}
        BY <3>0 DEF Places
      <4>3. at' = [step |-> "fragment", file |-> p.file, fragment |-> 1, reading |-> FALSE]
        BY <3>0, <4>1 DEF Places
      <4>4. at' \in Places /\ at'.step = "fragment" /\ at'.file = p.file
        <5>1. PICK s \in {"file", "metadata", "fragment", "checkpoint", "end"} : s = "fragment"
          OBVIOUS
        <5>2. at' = [step |-> s, file |-> p.file, fragment |-> 1, reading |-> FALSE]
          BY <4>3, <5>1
        <5>3. 1 \in Nat \ {0} /\ FALSE \in BOOLEAN
          OBVIOUS
        <5>4. at' \in Places /\ at'.step = s /\ at'.file = p.file
          BY <4>2, <5>2, <5>3, PlaceTyped
        <5> QED
          BY <5>1, <5>4
      <4> QED
        BY <3>p, <4>1, <4>4
    <3>3. CASE Accumulate
      <4>1. /\ at' \in {p, [p EXCEPT !.step = "checkpoint", !.reading = FALSE]}
            /\ reader[Single] = Idle
        BY <3>3, <3>p DEF Accumulate
      <4> QED
        BY <3>0, <3>p, <4>1 DEF Places
    <3> QED
      BY <1>8, <3>1, <3>2, <3>3
  <2> QED
    BY <1>1, <2>1, <2>2 DEF JobInv
<1>9. CASE Read
  <2>1. /\ job = "running" /\ kind = "analysis" /\ at.step \in {"metadata", "fragment"}
        /\ at' = [at EXCEPT !.reading = TRUE] /\ UNCHANGED <<request, manifest>>
        /\ \E q : reader' = [reader EXCEPT ![Single] = q]
    BY <1>9 DEF Read, Analyzing, GetRanges, GetPart, GetStream, Step, Fail
  <2> QED
    BY <1>1, <2>1 DEF JobInv, request, Places
<1>10. CASE Receive \/ Await
  <2>1. Serve(Single) /\ UNCHANGED <<request, at>>
    BY <1>10 DEF Receive, Await, Serve, jobVars, analysis
  <2> QED
    BY <2>1, <1>1, <1>6
<1>11. CASE \E publish \in BOOLEAN : Advance(publish)
  <2>1. /\ job = "running" /\ job' \in {"running", "failed"} /\ kind = "analysis" /\ kind' = kind
        /\ at.step = "checkpoint" /\ UNCHANGED <<manifest, reader, delivered>>
        /\ at' = IF at.fragment < Fragments
                 THEN [at EXCEPT !.step = "fragment", !.fragment = @ + 1]
                 ELSE IF at.file < Len(manifest)
                 THEN [Unread EXCEPT !.file = at.file + 1]
                 ELSE [at EXCEPT !.step = "end"]
    BY <1>11 DEF Advance, Analyzing, vars, setup
  <2>2. /\ at.file \in Nat \ {0} /\ Len(manifest) \in Nat /\ at.file <= Len(manifest)
        /\ at.fragment \in Nat \ {0}
        /\ ~at.reading /\ reader[Single] = Idle
    BY <1>1, <2>1, ScanConstants DEF JobInv, StoreInv, SetupOK, Places
  <2>3. /\ at' \in Places
        /\ at'.file <= Len(manifest) /\ ~at'.reading
    <3>p. PICK p : p = at
      OBVIOUS
    <3>0. p \in Places
      BY <1>1, <3>p DEF JobInv
    <3>1. CASE at.fragment < Fragments
      <4>1. at' = [p EXCEPT !.step = "fragment", !.fragment = @ + 1]
        BY <2>1, <3>1, <3>p
      <4>2. at' = [step |-> "fragment", file |-> p.file, fragment |-> p.fragment + 1,
                   reading |-> p.reading]
        BY <3>0, <4>1 DEF Places
      <4>3. p.file \in Nat \ {0} /\ p.fragment + 1 \in Nat \ {0} /\ p.reading = FALSE
        BY <2>2, <3>0, <3>p DEF Places
      <4>4. at' \in Places /\ at'.file = p.file /\ at'.reading = FALSE
        BY <4>2, <4>3, PlaceTyped
      <4> QED
        BY <2>2, <3>p, <4>4
    <3>2. CASE ~(at.fragment < Fragments) /\ at.file < Len(manifest)
      <4>1. at' = [step |-> "file", file |-> p.file + 1, fragment |-> 1, reading |-> FALSE]
        BY <2>1, <3>2, <3>p DEF Unread
      <4> QED
        BY <2>2, <3>0, <3>2, <3>p, <4>1 DEF Places
    <3>3. CASE ~(at.fragment < Fragments) /\ ~(at.file < Len(manifest))
      <4>1. at' = [p EXCEPT !.step = "end"]
        BY <2>1, <3>3, <3>p
      <4> QED
        BY <2>2, <3>0, <3>p, <4>1 DEF Places
    <3> QED
      BY <3>1, <3>2, <3>3
  <2> QED
    BY <1>1, <2>1, <2>2, <2>3 DEF JobInv
<1>12. CASE Finish
  <2>1. /\ Open /\ kind = "analysis" /\ ~at.reading /\ job = "running"
        /\ job' = Outcome /\ UNCHANGED <<kind, at, vars>>
    BY <1>1, <1>12 DEF Finish, Analyzing, analysis, JobInv
  <2>2. \A r \in Readers : reader[r] = Idle
    BY <1>1, <2>1 DEF JobInv
  <2>3. Validated => \A d \in delivered : d.content = "frozen"
    BY <2>1, CompletionIsFrozen
  <2> QED
    BY <1>1, <2>1, <2>2, <2>3, RequestShapes DEF Outcome, JobInv, vars
<1>13. CASE Surroundings
  BY <1>1, <1>13 DEF Surroundings, Disturb, Change, Rot, JobInv, jobVars, request, analysis
<1>14. CASE UNCHANGED allVars
  BY <1>1, <1>14 DEF allVars, vars, JobInv, jobVars, request, analysis
<1>15. ASSUME NEW r \in Readers, Work(r) PROVE JobInv'
  BY <1>6, <1>15 DEF Work, jobVars, analysis
<1> QED
  BY <1>2, <1>3, <1>4, <1>5, <1>7, <1>8, <1>9, <1>10, <1>11, <1>12, <1>13, <1>14, <1>15
  DEF Next, Query, Analysis

-----------------------------------------------------------------------------
(* The theorems.                                                           *)

\* Every reachable state of a job that reads satisfies the invariant.
THEOREM ScanInductive == Spec => []ScanInv
<1>1. JobInit => ScanInv
  BY InitScan
<1>2. ScanInv /\ [Next]_allVars => ScanInv'
  BY StoreKept, JobKept DEF ScanInv
<1> QED
  BY <1>1, <1>2, PTL DEF Spec

\* However many requests reserve at the same time, the budget is not overdrawn
\* (Counters, fetch_update).
THEOREM BudgetHolds == Spec => []BudgetKept
<1>1. ScanInv => BudgetKept
  BY DEF ScanInv, StoreInv, CountersOK
<1> QED
  BY <1>1, ScanInductive, PTL

\* What has a digest under any of its names is only given out with the bytes
\* of that digest (CountStore::new, get_opts, get_ranges).
THEOREM OnlyVerified == Spec => []VerifiedOnly
<1>1. ScanInv => VerifiedOnly
  <2> SUFFICES ASSUME ScanInv, NEW k \in 1 .. registered, NEW d \in delivered,
                      manifest[k].digest # "none", d.file = manifest[k].file
               PROVE  d.content = manifest[k].digest
    BY DEF VerifiedOnly
  <2>1. allowed[d.file].digest = manifest[k].digest
    BY DEF ScanInv, StoreInv, SetupOK
  <2>2. DeliveryOK(d)
    BY DEF ScanInv, StoreInv, ReadersOK
  <2> QED
    BY <2>1, <2>2 DEF DeliveryOK
<1> QED
  BY <1>1, ScanInductive, PTL

\* Bytes that were not frozen come out of streams only, and never out of a job
\* that completes (execute_job).
THEOREM OnlyFrozen == Spec => []FrozenReads
<1>1. ScanInv => FrozenReads
  <2> SUFFICES ASSUME ScanInv, NEW d \in delivered, d.content # "frozen"
               PROVE  d.how = "stream" /\ job # "completed"
    BY DEF FrozenReads
  <2>1. DeliveryOK(d)
    BY DEF ScanInv, StoreInv, ReadersOK
  <2>2. d.file \in Files /\ d.how \in {"ranges", "stream", "part"} /\ d.content \in Contents
    BY <2>1 DEF DeliveryOK, Deliveries
  <2>3. Open
    BY DEF ScanInv, StoreInv, Waiting
  <2>4. d.how # "part"
    BY <2>1, <2>2, <2>3, DigestsFrozen DEF DeliveryOK, ScanInv
  <2> QED
    BY <2>1, <2>2, <2>4 DEF DeliveryOK, ScanInv, JobInv
<1> QED
  BY <1>1, ScanInductive, PTL

-----------------------------------------------------------------------------
(***************************************************************************)
(* The counters and the cache.  What is counted as read and what requests  *)
(* may still read is no more than what was reserved; a part that is loaded *)
(* is not in the cache, because whoever loads it has the lock.             *)
(***************************************************************************)
Pending == [r \in Readers |-> MayRead(reader[r])]
CountsOK ==
    /\ sourceBytes \in Nat /\ resultBytes \in Nat
    /\ sourceBytes + resultBytes + SumFunctionOnSet(Pending, Readers) <= reserved

CacheOK == cached \in Nat /\ CacheKept

LockOK ==
    /\ holder \in Readers \cup {NoReader}
    /\ \A r \in Readers :
          /\ holder = r <=> reader[r].at \in {"load", "insert"}
          /\ reader[r].at \in {"load", "insert"} => reader[r].file \notin CachedFiles
          /\ reader[r].at = "insert" => Size[reader[r].file] <= CacheBytes

BudgetInv == CountsOK /\ CacheOK /\ LockOK

LEMMA ReadersFinite == IsFiniteSet(Readers) /\ IsFiniteSet(Files) /\ NoReader \notin Readers
<1>1. FilesAssumption
  BY FilesAssumption
<1> QED
  BY <1>1 DEF FilesAssumption

LEMMA CacheNumbers == CacheBytes \in Nat /\ CacheEntries \in Nat \ {0}
<1>1. LimitsAssumption
  BY LimitsAssumption
<1> QED
  BY <1>1 DEF LimitsAssumption

LEMMA MayReadTyped ==
    ASSUME NEW q \in Requests
    PROVE  MayRead(q) \in Nat
BY RequestFields, ScanConstants DEF MayRead

LEMMA EndsReadNothing == MayRead(Idle) = 0 /\ MayRead(Failed) = 0 /\ MayRead(Gone) = 0
BY RequestShapes DEF MayRead

\* What one step of one request changes of the sum.
LEMMA RequestCounts ==
    ASSUME StoreInv, StoreInv', CountsOK, NEW r \in Readers, NEW q, Step(r, q),
           NEW read \in Nat, sourceBytes' + resultBytes' = sourceBytes + resultBytes + read,
           sourceBytes' \in Nat, resultBytes' \in Nat,
           NEW new \in Nat, reserved' = reserved + new,
           read + MayRead(q) <= MayRead(reader[r]) + new
    PROVE  CountsOK'
<1>1. /\ reader \in [Readers -> Requests] /\ reader' = [reader EXCEPT ![r] = q]
      /\ reserved \in Nat /\ reader' \in [Readers -> Requests]
  BY DEF StoreInv, ReadersOK, CountersOK, Step
<1>2. \A s \in Readers : /\ Pending[s] \in Int /\ Pending'[s] \in Int
                         /\ s # r => Pending'[s] = Pending[s]
  BY <1>1, MayReadTyped DEF Pending
<1>3. /\ Pending[r] = MayRead(reader[r]) /\ Pending'[r] = MayRead(q)
      /\ Pending[r] \in Nat /\ Pending'[r] \in Nat
  BY <1>1, MayReadTyped DEF Pending
<1> HIDE DEF Pending
<1>4. SumFunctionOnSet(Pending', Readers)
         = SumFunctionOnSet(Pending, Readers) - Pending[r] + Pending'[r]
  BY <1>2, ReadersFinite, SumChanged
<1>5. SumFunctionOnSet(Pending, Readers) \in Int
  BY <1>2, ReadersFinite, SumIsInt
<1>6. PICK total \in Int : total = SumFunctionOnSet(Pending, Readers)
  BY <1>5
<1>7. PICK was \in Nat, will \in Nat : was = MayRead(reader[r]) /\ will = MayRead(q)
  BY <1>3
<1>8. SumFunctionOnSet(Pending', Readers) = total - was + will
  BY <1>3, <1>4, <1>6, <1>7
<1>9. sourceBytes \in Nat /\ resultBytes \in Nat /\ sourceBytes + resultBytes + total <= reserved
  BY <1>6 DEF CountsOK
<1>10. read + will <= was + new
  BY <1>7
<1>11. reserved \in Nat
  BY <1>1
<1>12. sourceBytes' + resultBytes' + (total - was + will) <= reserved'
  <2>1. PICK a \in Nat, b \in Nat : a = sourceBytes /\ b = resultBytes
    BY <1>9
  <2>2. PICK c \in Nat, d \in Nat : c = sourceBytes' /\ d = resultBytes'
    OBVIOUS
  <2>3. PICK m \in Nat : m = reserved
    BY <1>11
  <2>4. c + d = a + b + read /\ a + b + total <= m /\ reserved' = m + new
    BY <2>1, <2>2, <2>3, <1>9
  <2>5. c + d + (total - was + will) <= m + new
    BY <2>4, <1>10
  <2> QED
    BY <2>2, <2>4, <2>5
<1> QED
  BY <1>8, <1>12 DEF CountsOK

LEMMA CountedAs ==
    ASSUME CountsOK, NEW f, NEW n \in Nat, Count(f, n)
    PROVE  /\ sourceBytes' + resultBytes' = sourceBytes + resultBytes + n
           /\ sourceBytes' \in Nat /\ resultBytes' \in Nat
BY DEF CountsOK, Count

\* A request that ends, or waits, counts nothing and reads nothing any more.
LEMMA RequestCountsNone ==
    ASSUME StoreInv, StoreInv', CountsOK, NEW r \in Readers, NEW q, Step(r, q),
           UNCHANGED counters, MayRead(q) <= MayRead(reader[r])
    PROVE  CountsOK'
<1>1. reserved \in Nat
  BY DEF StoreInv, CountersOK
<1>2. sourceBytes \in Nat /\ resultBytes \in Nat
  BY DEF CountsOK
<1>3. reader[r] \in Requests /\ q \in Requests
  <2>1. reader[r] \in Requests /\ reader'[r] \in Requests
    BY DEF StoreInv, ReadersOK
  <2>2. reader'[r] = q
    BY DEF Step, StoreInv, ReadersOK
  <2> QED
    BY <2>1, <2>2
<1>4. MayRead(q) \in Nat /\ MayRead(reader[r]) \in Nat
  BY <1>3, MayReadTyped
<1>5. PICK none \in Nat : none = 0
  OBVIOUS
<1>6. /\ sourceBytes' + resultBytes' = sourceBytes + resultBytes + none
      /\ sourceBytes' \in Nat /\ resultBytes' \in Nat /\ reserved' = reserved + none
      /\ none + MayRead(q) <= MayRead(reader[r]) + none
  BY <1>1, <1>2, <1>4, <1>5
<1> HIDE DEF counters
<1> QED
  BY <1>6, RequestCounts

LEMMA FailCounts ==
    ASSUME StoreInv, StoreInv', CountsOK, NEW r \in Readers, Fail(r)
    PROVE  CountsOK'
<1>1. reader[r] \in Requests /\ MayRead(reader[r]) \in Nat
  BY AtWork, MayReadTyped
<1>2. Step(r, Failed) /\ UNCHANGED counters
  BY DEF Fail
<1> HIDE DEF counters
<1> QED
  BY <1>1, <1>2, EndsReadNothing, RequestCountsNone

\* What is reserved is what may be read.
LEMMA ReserveCounts ==
    ASSUME StoreInv, StoreInv', CountsOK, NEW r \in Readers, NEW q, Step(r, q),
           NEW n \in Nat, Reserve(n), UNCHANGED <<sourceBytes, resultBytes>>,
           MayRead(q) = n
    PROVE  CountsOK'
<1>1. MayRead(reader[r]) \in Nat
  BY AtWork, MayReadTyped
<1>2. sourceBytes \in Nat /\ resultBytes \in Nat /\ reserved' = reserved + n
  BY DEF CountsOK, Reserve
<1>3. PICK none \in Nat : none = 0
  OBVIOUS
<1>4. /\ sourceBytes' + resultBytes' = sourceBytes + resultBytes + none
      /\ sourceBytes' \in Nat /\ resultBytes' \in Nat
      /\ none + MayRead(q) <= MayRead(reader[r]) + n
  BY <1>1, <1>2, <1>3
<1> QED
  BY <1>2, <1>4, RequestCounts

\* What is counted was waiting to be.
LEMMA CountCounts ==
    ASSUME StoreInv, StoreInv', CountsOK, NEW r \in Readers, NEW q, Step(r, q),
           NEW n \in Nat, UNCHANGED reserved,
           sourceBytes' + resultBytes' = sourceBytes + resultBytes + n,
           sourceBytes' \in Nat, resultBytes' \in Nat,
           n + MayRead(q) = MayRead(reader[r])
    PROVE  CountsOK'
<1>1. MayRead(reader[r]) \in Nat /\ reserved \in Nat
  BY AtWork, MayReadTyped DEF StoreInv, CountersOK
<1>2. PICK none \in Nat : none = 0
  OBVIOUS
<1>3. reserved' = reserved + none /\ n + MayRead(q) <= MayRead(reader[r]) + none
  BY <1>1, <1>2
<1> QED
  BY <1>3, RequestCounts

LEMMA MayReadShapes ==
    \A f, n, got, rest, size :
       /\ MayRead([at |-> "ranges", file |-> f, left |-> n, got |-> got]) = n
       /\ MayRead([at |-> "load", file |-> f, left |-> n, got |-> got]) = Size[f]
       /\ MayRead([at |-> "chunk", file |-> f, rest |-> rest, size |-> size, left |-> n,
                   got |-> got]) = size
       /\ MayRead([at |-> "stream", file |-> f, rest |-> rest]) = 0
       /\ MayRead([at |-> "locking", file |-> f]) = 0
       /\ MayRead([at |-> "insert", file |-> f, got |-> got]) = 0
BY DEF MayRead

LEMMA AskCounts ==
    ASSUME StoreInv, StoreInv', CountsOK, NEW r \in Readers, NEW f \in Files, NEW n \in Nat,
           Request(r, f, n)
    PROVE  CountsOK'
<1>0. MayRead(reader[r]) \in Nat
  BY AtWork, MayReadTyped
<1>1. CASE Fail(r)
  BY <1>1, FailCounts
<1>2. CASE ~Fail(r) /\ GetRanges(r, f, n)
  <2>1. /\ Reserve(n) /\ UNCHANGED <<sourceBytes, resultBytes>>
        /\ Step(r, [at |-> "ranges", file |-> f, left |-> n, got |-> {}])
    BY <1>2 DEF GetRanges
  <2> QED
    BY <2>1, MayReadShapes, ReserveCounts
<1>3. CASE ~Fail(r) /\ (GetStream(r, f, n) \/ GetPart(r, f))
  <2>1. PICK q \in {[at |-> "stream", file |-> f, rest |-> n], [at |-> "locking", file |-> f]} :
           Step(r, q) /\ UNCHANGED counters
    BY <1>3 DEF GetStream, GetPart
  <2>2. MayRead(q) <= MayRead(reader[r])
    BY <2>1, <1>0, MayReadShapes
  <2> HIDE DEF counters
  <2> QED
    BY <2>1, <2>2, RequestCountsNone
<1> QED
  BY <1>1, <1>2, <1>3 DEF Request

LEMMA ReadByteCounts ==
    ASSUME StoreInv, StoreInv', CountsOK, NEW r \in Readers, ReadByte(r)
    PROVE  CountsOK'
<1>1. PICK p : p = reader[r]
  OBVIOUS
<1>2. PICK q : q = [p EXCEPT !.left = @ - 1, !.got = @ \cup {content[p.file]}]
  OBVIOUS
<1>3. /\ p.at \in Reads /\ p.left > 0 /\ Step(r, q) /\ UNCHANGED reserved
      /\ IF p.at \in {"ranges", "detached"}
         THEN Count(p.file, 1) ELSE UNCHANGED <<sourceBytes, resultBytes>>
  BY <1>1, <1>2 DEF ReadByte
<1>4. p \in Requests /\ MayRead(p) \in Nat
  BY <1>1, AtWork, MayReadTyped
<1>5. /\ p.left \in Nat /\ q.at = p.at /\ q.left = p.left - 1
      /\ p.at = "chunk" => q.size = p.size
      /\ p.at = "load" => q.file = p.file
  BY <1>2, <1>3, <1>4, RequestFields DEF Requests, Idle, Failed, Gone, Reads
<1>6. CASE p.at \in {"ranges", "detached"}
  <2>1. MayRead(p) = p.left /\ MayRead(q) = p.left - 1
    BY <1>5, <1>6 DEF MayRead
  <2>2. PICK one \in Nat : one = 1
    OBVIOUS
  <2>3. Count(p.file, one) /\ one + MayRead(q) = MayRead(reader[r])
    BY <2>1, <2>2, <1>1, <1>3, <1>5, <1>6
  <2> QED
    BY <2>3, <1>3, CountedAs, CountCounts
<1>7. CASE p.at \in {"chunk", "load"}
  <2>1. MayRead(q) = MayRead(p)
    BY <1>5, <1>7 DEF MayRead
  <2>2. Step(r, q) /\ UNCHANGED counters /\ MayRead(q) <= MayRead(reader[r])
    BY <2>1, <1>1, <1>3, <1>4, <1>7
  <2> HIDE DEF counters
  <2> QED
    BY <2>2, RequestCountsNone
<1> QED
  BY <1>3, <1>6, <1>7 DEF Reads

LEMMA ServeCounts ==
    ASSUME StoreInv, StoreInv', CountsOK, NEW r \in Readers, Serve(r)
    PROVE  CountsOK'
<1>0. reader[r] \in Requests /\ MayRead(reader[r]) \in Nat
  BY AtWork, MayReadTyped
<1>1. CASE ReadByte(r)
  BY <1>1, ReadByteCounts
<1>2. CASE Fail(r)
  BY <1>2, FailCounts
<1>3. ASSUME NEW q, Step(r, q), UNCHANGED counters, MayRead(q) = 0
      PROVE  CountsOK'
  <2>1. MayRead(q) <= MayRead(reader[r])
    BY <1>0, <1>3
  <2> HIDE DEF counters
  <2> QED
    BY <2>1, <1>3, RequestCountsNone
<1>4. CASE ~Fail(r) /\ (ReadFails(r) \/ EndRanges(r) \/ EndStream(r) \/ TakeCached(r) \/ Insert(r))
  <2>1. Step(r, Idle) /\ UNCHANGED counters
    BY <1>4 DEF ReadFails, EndRanges, EndStream, TakeCached, Insert
  <2> QED
    BY <2>1, <1>3, EndsReadNothing
<1>5. CASE ~Fail(r) /\ NextChunk(r)
  <2>1. PICK rest, n : /\ rest = reader[r].rest /\ n = IF rest <= Chunk THEN rest ELSE Chunk
    OBVIOUS
  <2>2. /\ reader[r].at = "stream" /\ Reserve(n) /\ UNCHANGED <<sourceBytes, resultBytes>>
        /\ Step(r, [at |-> "chunk", file |-> reader[r].file, rest |-> rest - n,
                    size |-> n, left |-> n, got |-> {}])
    BY <2>1, <1>5 DEF NextChunk
  <2>3. n \in Nat
    BY <2>1, <2>2, <1>0, RequestFields, ScanConstants
  <2> QED
    BY <2>2, <2>3, MayReadShapes, ReserveCounts
<1>6. CASE EndChunk(r)
  <2>1. PICK p : p = reader[r]
    OBVIOUS
  <2>2. /\ p.at = "chunk" /\ Count(p.file, p.size) /\ UNCHANGED reserved
        /\ Step(r, [at |-> "stream", file |-> p.file, rest |-> p.rest])
    BY <2>1, <1>6 DEF EndChunk
  <2>3. p.size \in Nat /\ MayRead(p) = p.size
    BY <2>1, <2>2, <1>0, RequestFields DEF MayRead
  <2>4. PICK q : q = [at |-> "stream", file |-> p.file, rest |-> p.rest]
    OBVIOUS
  <2>5. p.size + MayRead(q) = MayRead(reader[r])
    BY <2>1, <2>3, <2>4, MayReadShapes
  <2> QED
    BY <2>2, <2>3, <2>4, <2>5, CountedAs, CountCounts
<1>7. CASE ~Fail(r) /\ Load(r)
  <2>1. PICK f : f = reader[r].file
    OBVIOUS
  <2>2. /\ reader[r].at = "locking" /\ Reserve(Size[f]) /\ UNCHANGED <<sourceBytes, resultBytes>>
        /\ Step(r, [at |-> "load", file |-> f, left |-> Size[f], got |-> {}])
    BY <2>1, <1>7 DEF Load
  <2>3. Size[f] \in Nat
    BY <2>1, <2>2, <1>0, RequestFields, ScanConstants
  <2> QED
    BY <2>2, <2>3, MayReadShapes, ReserveCounts
<1>8. CASE ~Fail(r) /\ Verify(r)
  <2>1. PICK p : p = reader[r]
    OBVIOUS
  <2>2. PICK q : q = [at |-> "insert", file |-> p.file, got |-> p.got]
    OBVIOUS
  <2>3. /\ p.at = "load" /\ Step(r, q) /\ UNCHANGED <<reserved, sourceBytes>>
        /\ resultBytes' = resultBytes + Size[p.file]
    BY <2>1, <2>2, <1>8 DEF Verify
  <2>4. PICK n : n = Size[p.file]
    OBVIOUS
  <2>5. n \in Nat /\ MayRead(p) = n
    BY <2>1, <2>3, <2>4, <1>0, RequestFields, ScanConstants DEF MayRead
  <2>6. sourceBytes \in Nat /\ resultBytes \in Nat
    BY DEF CountsOK
  <2>7. /\ sourceBytes' + resultBytes' = sourceBytes + resultBytes + n
        /\ sourceBytes' \in Nat /\ resultBytes' \in Nat
    BY <2>3, <2>4, <2>5, <2>6
  <2>8. n + MayRead(q) = MayRead(reader[r])
    BY <2>1, <2>2, <2>5, MayReadShapes
  <2> QED
    BY <2>3, <2>5, <2>7, <2>8, CountCounts
<1>9. CASE Evict(r)
  BY <1>9 DEF Evict, CountsOK, Pending
<1> QED
  BY <1>1, <1>2, <1>4, <1>5, <1>6, <1>7, <1>8, <1>9 DEF Serve

LEMMA DropCounts ==
    ASSUME StoreInv, StoreInv', CountsOK, NEW r \in Readers, Drop(r)
    PROVE  CountsOK'
<1>1. PICK p : p = reader[r]
  OBVIOUS
<1>2. PICK q : q = IF p.at = "ranges" THEN [p EXCEPT !.at = "detached"] ELSE Gone
  OBVIOUS
<1>3. Step(r, q) /\ UNCHANGED counters
  BY <1>1, <1>2 DEF Drop
<1>4. p \in Requests /\ MayRead(p) \in Nat
  BY <1>1, AtWork, MayReadTyped
<1>5. CASE p.at = "ranges"
  <2>1. q.at = "detached" /\ q.left = p.left
    BY <1>2, <1>4, <1>5 DEF Requests, Idle, Failed, Gone
  <2>2. MayRead(q) = MayRead(p)
    BY <2>1, <1>5 DEF MayRead
  <2>3. MayRead(q) <= MayRead(reader[r])
    BY <2>2, <1>1, <1>4
  <2> HIDE DEF counters
  <2> QED
    BY <2>3, <1>3, RequestCountsNone
<1>6. CASE p.at # "ranges"
  <2>1. MayRead(q) <= MayRead(reader[r])
    BY <1>1, <1>2, <1>4, <1>6, EndsReadNothing
  <2> HIDE DEF counters
  <2> QED
    BY <2>1, <1>3, RequestCountsNone
<1> QED
  BY <1>5, <1>6

\* The lock and the cache.
Locking == {"load", "insert"}

LEMMA CacheTyped ==
    ASSUME cache \in Entries
    PROVE  /\ Len(cache) \in Nat /\ DOMAIN cache = 1 .. Len(cache)
           /\ \A k \in 1 .. Len(cache) : cache[k].file \in Files
           /\ CachedFiles \in SUBSET Files
<1>1. Len(cache) \in Nat /\ DOMAIN cache = 1 .. Len(cache)
  BY DEF Entries
<1>2. \A k \in 1 .. Len(cache) : cache[k] \in [file : Files, got : SUBSET Contents]
  BY ElementsTyped DEF Entries
<1> QED
  BY <1>1, <1>2 DEF CachedFiles

LEMMA LockMoves ==
    ASSUME StoreInv, LockOK, NEW r \in Readers, NEW q, Step(r, q),
           holder' = r <=> q.at \in Locking,
           q.at \in Locking => q.file \notin CachedFiles',
           q.at = "insert" => Size[q.file] <= CacheBytes,
           holder' = holder \/ (holder \in {r, NoReader} /\ holder' \in {r, NoReader}),
           \A s \in Readers \ {r} : holder = s => CachedFiles' \subseteq CachedFiles
    PROVE  LockOK'
<1>1. /\ reader'[r] = q /\ \A s \in Readers \ {r} : reader'[s] = reader[s]
  BY DEF StoreInv, ReadersOK, Step
<1>2. holder' \in Readers \cup {NoReader}
  BY DEF LockOK
<1>3. ASSUME NEW s \in Readers \ {r}
      PROVE  /\ holder' = s <=> reader'[s].at \in Locking
             /\ reader'[s].at \in Locking => reader'[s].file \notin CachedFiles'
             /\ reader'[s].at = "insert" => Size[reader'[s].file] <= CacheBytes
  <2>1. /\ holder = s <=> reader[s].at \in Locking
        /\ reader[s].at \in Locking => reader[s].file \notin CachedFiles
        /\ reader[s].at = "insert" => Size[reader[s].file] <= CacheBytes
    BY DEF LockOK, Locking
  <2>2. holder' = s <=> holder = s
    BY ReadersFinite
  <2> QED
    BY <1>1, <2>1, <2>2
<1>4. ASSUME NEW s \in Readers
      PROVE  /\ holder' = s <=> reader'[s].at \in Locking
             /\ reader'[s].at \in Locking => reader'[s].file \notin CachedFiles'
             /\ reader'[s].at = "insert" => Size[reader'[s].file] <= CacheBytes
  BY <1>1, <1>3
<1> QED
  BY <1>2, <1>4 DEF LockOK, Locking

\* A request that never had the lock, or lets go of it, and leaves the cache.
LEMMA LockLeaves ==
    ASSUME StoreInv, LockOK, NEW r \in Readers, NEW q, Step(r, q), q.at \notin Locking,
           UNCHANGED cache,
           Release(r) \/ (holder' = holder /\ reader[r].at \notin Locking)
    PROVE  LockOK'
<1>1. CachedFiles' = CachedFiles
  BY DEF CachedFiles
<1>2. holder = r <=> reader[r].at \in Locking
  BY DEF LockOK, Locking
<1>3. /\ holder' # r
      /\ holder' = holder \/ (holder \in {r, NoReader} /\ holder' \in {r, NoReader})
  BY <1>2, ReadersFinite DEF Release
<1> QED
  BY <1>1, <1>3, LockMoves DEF Locking

LEMMA CacheLeft == ASSUME CacheOK, UNCHANGED <<cache, cached>> PROVE CacheOK'
BY DEF CacheOK, CacheKept, CachedFiles

LEMMA FailCache ==
    ASSUME StoreInv, CacheOK, LockOK, NEW r \in Readers, Fail(r)
    PROVE  CacheOK' /\ LockOK'
BY CacheLeft, LockLeaves, RequestShapes DEF Fail, Locking

LEMMA AskCache ==
    ASSUME StoreInv, CacheOK, LockOK, NEW r \in Readers, NEW f \in Files, NEW n \in Nat,
           Request(r, f, n)
    PROVE  CacheOK' /\ LockOK'
<1>1. CASE Fail(r)
  BY <1>1, FailCache
<1>2. CASE ~Fail(r)
  <2>1. PICK q : /\ Step(r, q) /\ UNCHANGED verified
                 /\ q.at \in {"ranges", "stream", "locking"}
    BY <1>2 DEF Request, GetRanges, GetStream, GetPart
  <2>2. reader[r] = Idle
    BY DEF Request, GetRanges, GetStream, GetPart
  <2> QED
    BY <2>1, <2>2, RequestShapes, CacheLeft, LockLeaves DEF Locking
<1> QED
  BY <1>1, <1>2

\* The part that was used last becomes the last one.
LEMMA TakeCachedCache ==
    ASSUME StoreInv, CacheOK, LockOK, NEW r \in Readers, TakeCached(r)
    PROVE  CacheOK' /\ LockOK'
<1>1. PICK i \in Cached(reader[r].file) :
         cache' = [k \in 1 .. Len(cache) |->
                     IF k < i THEN cache[k]
                     ELSE IF k < Len(cache) THEN cache[k + 1] ELSE cache[i]]
  BY DEF TakeCached
<1>2. reader[r].at = "locking" /\ Step(r, Idle) /\ UNCHANGED <<holder, cached>>
  BY DEF TakeCached
<1>3. Len(cache) \in Nat /\ i \in 1 .. Len(cache)
  BY <1>1, CacheTyped DEF Cached, StoreInv, ReadersOK
<1>4. Len(cache') = Len(cache)
  BY <1>1, <1>3
<1> DEFINE from(k) == IF k < i THEN k ELSE IF k < Len(cache) THEN k + 1 ELSE i
           N == 1 .. Len(cache)
<1>5. /\ \A k \in N : from(k) \in N /\ cache'[k] = cache[from(k)]
      /\ \A k \in N, l \in N : k # l => from(k) # from(l)
  BY <1>1, <1>3
<1>6. \A j \in N : \E k \in N : from(k) = j
  <2> SUFFICES ASSUME NEW j \in N PROVE \E k \in N : from(k) = j
    OBVIOUS
  <2>1. CASE j < i
    BY <2>1
  <2>2. CASE j = i
    <3>1. Len(cache) \in N /\ from(Len(cache)) = i
      BY <1>3
    <3> QED
      BY <3>1, <2>2
  <2>3. CASE j > i
    <3>1. j - 1 \in N /\ from(j - 1) = j
      BY <2>3, <1>3
    <3> QED
      BY <3>1
  <2> QED
    BY <2>1, <2>2, <2>3, <1>3
<1> HIDE DEF from
<1>7. CachedFiles' = CachedFiles
  <2>1. CachedFiles' = {cache'[k].file : k \in N}
    BY <1>4 DEF CachedFiles
  <2>2. \A k \in N : \E j \in N : cache'[k].file = cache[j].file
    BY <1>5
  <2>3. \A j \in N : \E k \in N : cache'[k].file = cache[j].file
    BY <1>5, <1>6
  <2>4. CachedFiles = {cache[j].file : j \in N}
    BY DEF CachedFiles
  <2> HIDE DEF N
  <2>5. CachedFiles' \subseteq CachedFiles
    BY <2>1, <2>2, <2>4
  <2>6. CachedFiles \subseteq CachedFiles'
    BY <2>1, <2>3, <2>4
  <2> QED
    BY <2>5, <2>6
<1>8. \A k \in N, l \in N : k # l => cache'[k].file # cache'[l].file
  BY <1>5 DEF CacheOK, CacheKept
<1>9. CacheOK'
  BY <1>2, <1>4, <1>7, <1>8 DEF CacheOK, CacheKept
<1>10. LockOK'
  <2>1. holder # r
    BY <1>2 DEF LockOK
  <2> QED
    BY <1>2, <1>7, <2>1, LockMoves, RequestShapes DEF Locking
<1> QED
  BY <1>9, <1>10

LEMMA EvictCache ==
    ASSUME StoreInv, CacheOK, LockOK, NEW r \in Readers, Evict(r)
    PROVE  CacheOK' /\ LockOK'
<1>1. /\ reader[r].at = "insert" /\ cache # <<>> /\ cache' = Tail(cache)
      /\ cached' = cached - Size[cache[1].file] /\ UNCHANGED <<holder, reader>>
  BY DEF Evict
<1>2. cache \in Entries
  BY DEF StoreInv, ReadersOK
<1>3. /\ Len(cache) \in Nat \ {0} /\ Len(cache') = Len(cache) - 1
      /\ \A k \in 1 .. Len(cache') : k + 1 \in 1 .. Len(cache) /\ cache'[k] = cache[k + 1]
  BY <1>1, <1>2 DEF Entries
<1>4. \A k, l \in 1 .. Len(cache) : k # l => cache[k].file # cache[l].file
  BY DEF CacheOK, CacheKept
<1> DEFINE f == cache[1].file
<1>5. /\ CachedFiles \in SUBSET Files /\ f \in Files /\ f \notin CachedFiles'
      /\ CachedFiles = CachedFiles' \cup {f}
  <2>1. \A k \in 1 .. Len(cache) : k = 1 \/ (k - 1 \in 1 .. Len(cache') /\ cache'[k - 1] = cache[k])
    BY <1>3
  <2>2. 1 \in 1 .. Len(cache)
    BY <1>3
  <2>3. CachedFiles \in SUBSET Files /\ f \in Files
    BY <1>2, <2>2, CacheTyped
  <2>4. f \notin CachedFiles'
    <3>1. \A k \in 1 .. Len(cache') : cache'[k].file # f
      <4>1. \A k \in 1 .. Len(cache') : k + 1 # 1
        OBVIOUS
      <4> QED
        BY <1>3, <1>4, <2>2, <4>1
    <3> QED
      BY <3>1 DEF CachedFiles
  <2>5. CachedFiles \subseteq CachedFiles' \cup {f}
    BY <2>1 DEF CachedFiles
  <2>6. CachedFiles' \cup {f} \subseteq CachedFiles
    BY <1>3, <2>2 DEF CachedFiles
  <2> QED
    BY <2>3, <2>4, <2>5, <2>6
<1>6. cached' = SumFunctionOnSet(Size, CachedFiles') /\ cached' \in Nat
  <2>1. \A g \in Files : Size[g] \in Int /\ Size[g] \in Nat
    BY ScanConstants
  <2>2. CachedFiles' \in SUBSET Files /\ f \in Files \ CachedFiles'
    BY <1>5
  <2>3. SumFunctionOnSet(Size, CachedFiles' \cup {f})
           = SumFunctionOnSet(Size, CachedFiles') + Size[f]
    BY <2>1, <2>2, ReadersFinite, SumWithOneMore
  <2>4. SumFunctionOnSet(Size, CachedFiles') \in Nat
    <3>1. IsFiniteSet(CachedFiles') /\ \A g \in CachedFiles' : Size[g] \in Nat
      BY <2>1, <2>2, ReadersFinite, FS_Subset
    <3> QED
      BY <3>1, SumIsNat
  <2>5. cached = SumFunctionOnSet(Size, CachedFiles)
    BY DEF CacheOK, CacheKept
  <2>6. Size[f] \in Nat
    BY <2>1, <1>5
  <2> HIDE DEF f
  <2>7. cached = SumFunctionOnSet(Size, CachedFiles') + Size[f]
    BY <1>5, <2>3, <2>5
  <2>8. cached' = cached - Size[f]
    BY <1>1 DEF f
  <2> QED
    BY <2>4, <2>6, <2>7, <2>8
<1>7. cached' <= cached
  <2>1. Size[f] \in Nat /\ cached \in Nat
    BY <1>5, ScanConstants DEF CacheOK
  <2> QED
    BY <2>1, <1>1
<1>8. CacheOK'
  <2>1. Len(cache') <= CacheEntries /\ cached' <= CacheBytes
    BY <1>3, <1>6, <1>7, CacheNumbers DEF CacheOK, CacheKept
  <2>2. \A k, l \in 1 .. Len(cache') : k # l => cache'[k].file # cache'[l].file
    BY <1>3, <1>4
  <2> QED
    BY <1>6, <2>1, <2>2 DEF CacheOK, CacheKept
<1>9. LockOK'
  BY <1>1, <1>5 DEF LockOK
<1> QED
  BY <1>8, <1>9

LEMMA InsertCache ==
    ASSUME StoreInv, CacheOK, LockOK, NEW r \in Readers, Insert(r)
    PROVE  CacheOK' /\ LockOK'
<1>1. PICK p : p = reader[r]
  OBVIOUS
<1>2. PICK f : f = p.file
  OBVIOUS
<1>3. p.at = "insert" /\ Step(r, Idle) /\ Release(r)
  BY <1>1 DEF Insert
<1>4. /\ f \in Files /\ Size[f] \in Nat /\ f \notin CachedFiles /\ holder = r
  <2>1. p \in Requests
    BY <1>1, AtWork
  <2> QED
    BY <2>1, <1>1, <1>2, <1>3, RequestFields, ScanConstants DEF LockOK
<1>5. cache \in Entries /\ CachedFiles \in SUBSET Files /\ Len(cache) \in Nat
  BY CacheTyped DEF StoreInv, ReadersOK
<1>6. \A k, l \in 1 .. Len(cache) : k # l => cache[k].file # cache[l].file
  BY DEF CacheOK, CacheKept
<1>7. CacheOK'
  <2>1. CASE ~Room(f)
    BY <2>1, <1>1, <1>2, CacheLeft DEF Insert
  <2>2. CASE Room(f)
    <3>1. PICK entry : entry = [file |-> f, got |-> p.got]
      OBVIOUS
    <3>2. cache' = Append(cache, entry) /\ cached' = cached + Size[f]
      BY <2>2, <3>1, <1>1, <1>2 DEF Insert
    <3>3. /\ Len(cache') = Len(cache) + 1
          /\ \A k \in 1 .. Len(cache) : cache'[k] = cache[k]
          /\ cache'[Len(cache) + 1].file = f
      BY <3>1, <3>2, <1>5 DEF Entries
    <3>4. CachedFiles' = CachedFiles \cup {f}
      <4>1. (1 .. Len(cache')) = (1 .. Len(cache)) \cup {Len(cache) + 1}
        BY <3>3, <1>5
      <4> QED
        BY <4>1, <3>3 DEF CachedFiles
    <3>5. SumFunctionOnSet(Size, CachedFiles \cup {f}) = SumFunctionOnSet(Size, CachedFiles) + Size[f]
      <4>1. \A g \in Files : Size[g] \in Int
        BY ScanConstants
      <4>2. f \in Files \ CachedFiles
        BY <1>4
      <4> QED
        BY <4>1, <4>2, <1>5, ReadersFinite, SumWithOneMore
    <3>6. cached' \in Nat /\ cached' = SumFunctionOnSet(Size, CachedFiles')
      BY <3>2, <3>4, <3>5, <1>4 DEF CacheOK, CacheKept
    <3>7. cached' <= CacheBytes /\ Len(cache') <= CacheEntries
      BY <2>2, <3>2, <3>3, <1>5, CacheNumbers DEF Room
    <3>8. ASSUME NEW k \in 1 .. Len(cache'), NEW l \in 1 .. Len(cache'), k # l
          PROVE  cache'[k].file # cache'[l].file
      <4>1. \A j \in 1 .. Len(cache') : j \in 1 .. Len(cache) \/ j = Len(cache) + 1
        BY <3>3, <1>5
      <4>2. \A j \in 1 .. Len(cache) : cache'[j].file \in CachedFiles
        BY <3>3 DEF CachedFiles
      <4> QED
        BY <4>1, <4>2, <3>3, <3>8, <1>4, <1>6
    <3> QED
      BY <3>6, <3>7, <3>8 DEF CacheOK, CacheKept
  <2> QED
    BY <2>1, <2>2
<1>8. LockOK'
  <2>1. holder' = NoReader
    BY <1>3, <1>4 DEF Release
  <2>2. \A s \in Readers \ {r} : holder # s
    BY <1>4
  <2> QED
    BY <2>1, <2>2, <1>3, <1>4, LockMoves, RequestShapes, ReadersFinite DEF Locking
<1> QED
  BY <1>7, <1>8

LEMMA ServeCache ==
    ASSUME StoreInv, CacheOK, LockOK, NEW r \in Readers, Serve(r)
    PROVE  CacheOK' /\ LockOK'
<1>0. reader[r] \in Requests
  BY AtWork
<1>1. CASE Fail(r)
  BY <1>1, FailCache
<1>2. CASE ReadByte(r)
  <2>1. PICK p : p = reader[r]
    OBVIOUS
  <2>2. PICK q : q = [p EXCEPT !.left = @ - 1, !.got = @ \cup {content[p.file]}]
    OBVIOUS
  <2>3. p.at \in Reads /\ Step(r, q) /\ UNCHANGED verified
    BY <1>2, <2>1, <2>2 DEF ReadByte
  <2>4. q.at = p.at /\ q.file = p.file /\ p.at # "insert"
    BY <1>0, <2>1, <2>2, <2>3 DEF Requests, Idle, Failed, Gone, Reads
  <2>5. CachedFiles' = CachedFiles
    BY <2>3 DEF CachedFiles
  <2>6. LockOK'
    <3>1. /\ holder = r <=> p.at \in Locking
          /\ p.at \in Locking => p.file \notin CachedFiles
      BY <2>1 DEF LockOK, Locking
    <3>2. /\ holder' = r <=> q.at \in Locking
          /\ q.at \in Locking => q.file \notin CachedFiles'
          /\ q.at # "insert" /\ holder' = holder
      BY <2>3, <2>4, <2>5, <3>1
    <3> QED
      BY <3>2, <2>3, <2>5, LockMoves
  <2> QED
    BY <2>3, <2>6, CacheLeft
<1>3. CASE ~Fail(r) /\ (ReadFails(r) \/ EndRanges(r) \/ NextChunk(r) \/ EndChunk(r) \/ EndStream(r))
  <2>1. PICK q : Step(r, q) /\ q.at \in {"idle", "chunk", "stream"} /\ UNCHANGED verified
    BY <1>3, RequestShapes DEF ReadFails, EndRanges, NextChunk, EndChunk, EndStream
  <2>2. reader[r].at \in {"ranges", "stream", "chunk"}
    BY <1>3 DEF ReadFails, EndRanges, NextChunk, EndChunk, EndStream
  <2> QED
    BY <2>1, <2>2, CacheLeft, LockLeaves DEF Locking
<1>4. CASE ~Fail(r) /\ Load(r)
  <2>1. PICK f : f = reader[r].file
    OBVIOUS
  <2>2. PICK q : q = [at |-> "load", file |-> f, left |-> Size[f], got |-> {}]
    OBVIOUS
  <2>3. /\ holder = NoReader /\ holder' = r /\ Cached(f) = {} /\ Step(r, q)
        /\ UNCHANGED <<cache, cached>>
    BY <2>1, <2>2, <1>4 DEF Load
  <2>4. f \notin CachedFiles /\ CachedFiles' = CachedFiles
    BY <2>3 DEF Cached, CachedFiles
  <2>5. q.at = "load" /\ q.file = f
    BY <2>2
  <2>6. LockOK'
    BY <2>3, <2>4, <2>5, LockMoves DEF Locking
  <2> QED
    BY <2>3, <2>6, CacheLeft
<1>5. CASE ~Fail(r) /\ Verify(r)
  <2>1. PICK p : p = reader[r]
    OBVIOUS
  <2>2. PICK q : q = [at |-> "insert", file |-> p.file, got |-> p.got]
    OBVIOUS
  <2>3. /\ p.at = "load" /\ Step(r, q) /\ UNCHANGED verified /\ Size[p.file] <= CacheBytes
    BY <2>1, <2>2, <1>5 DEF Verify, Intact
  <2>4. holder = r /\ p.file \notin CachedFiles /\ CachedFiles' = CachedFiles
    BY <2>1, <2>3 DEF LockOK, CachedFiles
  <2>5. q.at = "insert" /\ q.file = p.file
    BY <2>2
  <2>6. LockOK'
    BY <2>3, <2>4, <2>5, LockMoves DEF Locking
  <2> QED
    BY <2>3, <2>6, CacheLeft
<1> QED
  BY <1>1, <1>2, <1>3, <1>4, <1>5, TakeCachedCache, EvictCache, InsertCache DEF Serve

LEMMA DropCache ==
    ASSUME StoreInv, CacheOK, LockOK, NEW r \in Readers, Drop(r)
    PROVE  CacheOK' /\ LockOK'
<1>1. PICK p : p = reader[r]
  OBVIOUS
<1>2. PICK q : q = IF p.at = "ranges" THEN [p EXCEPT !.at = "detached"] ELSE Gone
  OBVIOUS
<1>3. Step(r, q) /\ Release(r) /\ UNCHANGED <<cache, cached>>
  BY <1>1, <1>2 DEF Drop
<1>4. p \in Requests
  BY <1>1, AtWork
<1>5. q.at \in {"detached", "gone"}
  BY <1>2, <1>4, RequestShapes DEF Requests, Idle, Failed, Gone
<1> QED
  BY <1>3, <1>5, CacheLeft, LockLeaves DEF Locking

LEMMA BudgetInit == JobInit => BudgetInv
<1> SUFFICES ASSUME JobInit PROVE BudgetInv
  OBVIOUS
<1>1. /\ sourceBytes = 0 /\ resultBytes = 0 /\ reserved = 0 /\ cache = <<>> /\ cached = 0
      /\ holder = NoReader /\ reader = [r \in Readers |-> Idle]
  BY DEF JobInit, Init
<1>2. CountsOK
  <2>1. \A r \in Readers : Pending[r] = 0
    BY <1>1, EndsReadNothing DEF Pending
  <2>2. SumFunctionOnSet(Pending, Readers) = 0
    BY <2>1, ReadersFinite, SumOfZeros
  <2> QED
    BY <1>1, <2>2 DEF CountsOK
<1>3. CacheOK
  <2>1. CachedFiles = {}
    BY <1>1 DEF CachedFiles
  <2>2. cached = SumFunctionOnSet(Size, CachedFiles)
    BY <1>1, <2>1, SumOfNothing
  <2>3. cached \in Nat /\ cached <= CacheBytes /\ Len(cache) = 0 /\ 0 <= CacheEntries
    BY <1>1, CacheNumbers
  <2> QED
    BY <2>2, <2>3 DEF CacheOK, CacheKept
<1>4. LockOK
  BY <1>1, ReadersFinite, RequestShapes DEF LockOK
<1> QED
  BY <1>2, <1>3, <1>4 DEF BudgetInv

LEMMA BudgetKeptByNext ==
    ASSUME ScanInv, ScanInv', BudgetInv, [Next]_allVars
    PROVE  BudgetInv'
<1> USE DEF ScanInv, BudgetInv
<1>1. ASSUME UNCHANGED <<verified, counters, reader>> PROVE BudgetInv'
  <2>1. CountsOK'
    BY <1>1 DEF CountsOK, Pending
  <2>2. CachedFiles' = CachedFiles
    BY <1>1 DEF CachedFiles
  <2>3. LockOK'
    BY <1>1, <2>2 DEF LockOK
  <2> QED
    BY <1>1, <2>1, <2>3, CacheLeft
<1>2. CASE Start \/ Stop \/ Complete
  BY <1>1, <1>2 DEF Start, Stop, Complete, vars
<1>3. CASE Prepare
  BY <1>1, <1>3 DEF Prepare, Register
<1>4. ASSUME NEW r \in Readers, Abandon(r) PROVE BudgetInv'
  BY <1>4, DropCounts, DropCache DEF Abandon
<1>5. ASSUME NEW r \in Readers, Ask(r) PROVE BudgetInv'
  <2>1. PICK f \in Files : \E n \in 1 .. Size[f] : Request(r, f, n)
    BY <1>5 DEF Ask
  <2>2. \A n \in 1 .. Size[f] : n \in Nat
    BY ScanConstants
  <2> QED
    BY <2>1, <2>2, AskCounts, AskCache
<1>6. ASSUME NEW r \in Readers, Serve(r) PROVE BudgetInv'
  BY <1>6, ServeCounts, ServeCache
<1>7. CASE NextFile \/ Metadata \/ Accumulate \/ Finish \/ (\E publish \in BOOLEAN : Advance(publish))
  BY <1>1, <1>7 DEF NextFile, Metadata, Accumulate, Finish, Advance, vars
<1>8. CASE Read
  <2>1. File \in Files
    BY <1>8, FileKnown DEF Read, Analyzing
  <2>2. PICK n \in 1 .. Size[File] :
           GetRanges(Single, File, n) \/ GetPart(Single, File) \/ GetStream(Single, File, n)
    BY <1>8 DEF Read
  <2>3. n \in Nat
    BY <2>1, ScanConstants
  <2> QED
    BY <2>1, <2>2, <2>3, AskCounts, AskCache, ScanConstants DEF Request
<1>9. CASE Receive \/ Await
  <2>1. Serve(Single)
    BY <1>9 DEF Receive, Await, Serve
  <2> QED
    BY <2>1, <1>6, ScanConstants
<1>10. CASE Surroundings
  BY <1>1, <1>10 DEF Surroundings, Disturb, Change, Rot
<1>11. CASE UNCHANGED allVars
  BY <1>1, <1>11 DEF allVars, vars
<1>12. ASSUME NEW r \in Readers, Work(r) PROVE BudgetInv'
  BY <1>6, <1>12 DEF Work
<1> QED
  BY <1>2, <1>3, <1>4, <1>5, <1>7, <1>8, <1>9, <1>10, <1>11, <1>12 DEF Next, Query, Analysis

\* However requests overlap, are refused, fail or are dropped, no byte is read
\* that was not reserved, and the verified parts stay within their cache, each
\* once (Counters, VerifiedCache::insert).
THEOREM BudgetsHold == Spec => []WithinBudgets
<1>1. JobInit => BudgetInv
  BY BudgetInit
<1>2. ScanInv /\ ScanInv' /\ BudgetInv /\ [Next]_allVars => BudgetInv'
  BY BudgetKeptByNext
<1>3. ScanInv /\ BudgetInv => WithinBudgets
  BY DEF ScanInv, StoreInv, CountersOK, BudgetInv, CountsOK, CacheOK, Pending, WithinBudgets,
     ReadsReserved
<1> QED
  BY <1>1, <1>2, <1>3, ScanInductive, PTL DEF Spec

-----------------------------------------------------------------------------
(* Division: what averages are made of.                                    *)

LEMMA Larger ==
    ASSUME NEW c \in Nat \ {0}, NEW p \in Int, NEW q \in Int, p < q
    PROVE  c * p + c <= c * q
<1>1. PICK d \in Nat : q = p + 1 + d
  <2>1. q - p - 1 \in Nat /\ q = p + 1 + (q - p - 1)
    OBVIOUS
  <2> QED
    BY <2>1
<1>2. c * q = c * p + c + c * d
  BY <1>1
<1>3. c * d >= 0
  OBVIOUS
<1>4. c * p \in Int /\ c * q \in Int /\ c * d \in Int
  BY <1>1
<1> QED
  BY <1>2, <1>3, <1>4

LEMMA Divided ==
    ASSUME NEW a \in Nat, NEW c \in Nat \ {0}
    PROVE  a \div c \in Nat /\ \E t \in 0 .. c - 1 : a = c * (a \div c) + t
<1>1. a \div c \in Int /\ a \div c >= 0
  OBVIOUS
<1>2. a - c * (a \div c) \in 0 .. c - 1 /\ c * (a \div c) \in Int
  OBVIOUS
<1>3. a = c * (a \div c) + (a - c * (a \div c))
  BY <1>2
<1> QED
  BY <1>1, <1>2, <1>3

LEMMA Divides ==
    ASSUME NEW c \in Nat \ {0}, NEW p \in Nat, NEW t \in 0 .. c - 1
    PROVE  (c * p + t) \div c = p
<1>1. PICK a \in Nat : a = c * p + t
  <2>1. c * p \in Nat
    OBVIOUS
  <2> QED
    BY <2>1
<1>2. PICK q \in Nat : q = a \div c
  BY Divided
<1>3. PICK u \in 0 .. c - 1 : a = c * q + u
  BY <1>2, Divided
<1>4. c * p \in Nat /\ c * q \in Nat
  OBVIOUS
<1>5. ~(p < q) /\ ~(q < p)
  <2>1. p < q => c * p + c <= c * q
    BY Larger
  <2>2. q < p => c * q + c <= c * p
    BY Larger
  <2> QED
    BY <1>1, <1>3, <1>4, <2>1, <2>2
<1> QED
  BY <1>1, <1>2, <1>5

LEMMA Apart ==
    ASSUME NEW c \in Nat \ {0}, NEW k \in Nat, NEW m \in Nat
    PROVE  (c * k + m) \div c = k + (m \div c)
<1>1. PICK q \in Nat : q = m \div c
  BY Divided
<1>2. PICK t \in 0 .. c - 1 : m = c * q + t
  BY <1>1, Divided
<1>3. c * k + m = c * (k + q) + t
  BY <1>2
<1>4. k + q \in Nat
  OBVIOUS
<1> QED
  BY <1>1, <1>3, <1>4, Divides

LEMMA AverageApart ==
    ASSUME NEW s \in Int, NEW c \in Nat \ {0}, NEW f \in Nat \ {0}
    PROVE  /\ Quot(s, c) * f + Quot(Rem(s, c) * f, c) = Quot(s * f, c)
           /\ Quot(s, c) \in Int /\ Rem(s, c) \in Int /\ Quot(s * f, c) \in Int
           /\ Quot(Rem(s, c) * f, c) \in Int
<1>1. PICK a \in Nat : a = IF s >= 0 THEN s ELSE -s
  OBVIOUS
<1>2. PICK q \in Nat : q = a \div c
  BY Divided
<1>3. PICK t \in 0 .. c - 1 : a = c * q + t
  BY <1>2, Divided
<1>4. PICK m \in Nat : m = t * f
  <2>1. t \in Nat /\ f \in Nat
    OBVIOUS
  <2>2. t * f \in Nat
    BY <2>1
  <2> QED
    BY <2>2
<1>5. PICK k \in Nat : k = q * f
  <2>1. q * f \in Nat
    OBVIOUS
  <2> QED
    BY <2>1
<1>6. a * f = c * k + m
  <2>1. (c * q + t) * f = c * (q * f) + t * f
    OBVIOUS
  <2> QED
    BY <1>3, <1>4, <1>5, <2>1
<1>7. PICK w \in Nat : w = m \div c
  BY Divided
<1>8. (a * f) \div c = k + w /\ a * f \in Nat
  <2>1. a * f \in Nat
    OBVIOUS
  <2>2. (c * k + m) \div c = k + (m \div c)
    BY Apart
  <2> QED
    BY <1>6, <1>7, <2>1, <2>2
<1>9. CASE s >= 0
  <2>1. Quot(s, c) = q
    BY <1>1, <1>2, <1>9 DEF Quot
  <2>2. Rem(s, c) = t
    <3>1. c * q \in Int
      OBVIOUS
    <3> QED
      BY <2>1, <1>1, <1>3, <1>9, <3>1 DEF Rem
  <2>3. Quot(m, c) = w
    BY <1>7 DEF Quot
  <2>4. Quot(s * f, c) = k + w
    BY <1>1, <1>8, <1>9 DEF Quot
  <2> QED
    BY <1>4, <1>5, <2>1, <2>2, <2>3, <2>4
<1>10. CASE s < 0
  <2>1. Quot(s, c) = -q
    BY <1>1, <1>2, <1>10 DEF Quot
  <2>2. Rem(s, c) = -t
    <3>1. c * q \in Int /\ c * (-q) = -(c * q)
      OBVIOUS
    <3> QED
      BY <2>1, <1>1, <1>3, <1>10, <3>1 DEF Rem
  <2>3. Quot(-m, c) = -w
    <3>1. CASE m = 0
      <4>1. 0 \div c = 0
        <5>1. c * 0 + 0 = 0 /\ 0 \in 0 .. c - 1 /\ 0 \in Nat
          OBVIOUS
        <5>2. (c * 0 + 0) \div c = 0
          BY <5>1, Divides
        <5> QED
          BY <5>1, <5>2
      <4>2. -m = 0 /\ w = 0
        <5>1. w = 0 \div c
          BY <3>1, <1>7
        <5>2. -m = 0
          <6>1. m <= 0
            BY <3>1
          <6> HIDE <3>1
          <6>2. -m <= 0 /\ -m >= 0 /\ -m \in Int
            BY <6>1
          <6> QED
            BY <6>2
        <5>3. w = 0
          BY <4>1, <5>1
        <5> QED
          BY <5>2, <5>3
      <4> QED
        BY <4>1, <4>2 DEF Quot
    <3>2. CASE m # 0
      <4>1. ~(-m >= 0) /\ -(-m) = m
        BY <3>2
      <4> QED
        BY <4>1, <1>7 DEF Quot
    <3> QED
      BY <3>1, <3>2
  <2>4. Quot(s * f, c) = -(k + w)
    <3>1. s * f = -(a * f) /\ a * f > 0
      <4>1. a * f > 0
        BY <1>1, <1>10
      <4>2. s = -a
        BY <1>1, <1>10
      <4>3. (-a) * f = -(a * f)
        OBVIOUS
      <4> QED
        BY <4>1, <4>2, <4>3
    <3> QED
      BY <3>1, <1>8 DEF Quot
  <2>5. Quot(s, c) * f = -k
    <3>1. (-q) * f = -(q * f)
      OBVIOUS
    <3> QED
      BY <3>1, <2>1, <1>5
  <2>6. Rem(s, c) * f = -m
    <3>1. (-t) * f = -(t * f)
      OBVIOUS
    <3> QED
      BY <3>1, <2>2, <1>4
  <2> QED
    BY <2>1, <2>2, <2>3, <2>4, <2>5, <2>6
<1> QED
  BY <1>9, <1>10

-----------------------------------------------------------------------------
(***************************************************************************)
(* The fragments of an analysis in their order, and their rows.            *)
(***************************************************************************)
Cell == Int \cup {Null}
Before(i) == SumFunctionOnSet(Pieces, 1 .. i - 1)
Rows(i, g) == {<<i, g, k>> : k \in 1 .. Len(Frozen(unit, manifest[i].file, g))}

LEMMA JobConstants ==
    /\ SumTop \in Nat /\ Factor \in Nat \ {0} /\ MaxRequests \in Nat
    /\ Groups \in [Files -> Seq(Seq(Cell))]
    /\ Units \subseteq {"parquet_row_group", "manifest_file"}
    /\ Previews \subseteq {"none", "available"}
<1>1. JobAssumption
  BY JobAssumption
<1> QED
  BY <1>1 DEF JobAssumption, Cell

LEMMA Flattened ==
    ASSUME NEW S, NEW ss \in Seq(Seq(S))
    PROVE  FlattenSeq(ss) \in Seq(S)
<1>1. Len(ss) \in Nat /\ \A i \in 1 .. Len(ss) : ss[i] \in Seq(S)
  OBVIOUS
<1>2. CASE Len(ss) = 0
  <2>1. ss = <<>>
    BY <1>2
  <2> QED
    BY <1>2, <2>1 DEF FlattenSeq
<1>3. CASE Len(ss) # 0
  <2> DEFINE step == [x \in (1 .. Len(ss)) \X Seq(S) |-> IF x[1] = 1 THEN ss[x[1]] ELSE x[2] \o ss[x[1]]]
             flat(f) == [i \in 1 .. Len(ss) |-> IF i = 1 THEN ss[i] ELSE f[i - 1] \o ss[i]]
             whole == CHOOSE f : f = flat(f)
  <2>1. step \in [(1 .. Len(ss)) \X Seq(S) -> Seq(S)]
    BY <1>1
  <2>2. << >> \in Seq(S)
    OBVIOUS
  <2>3. PICK fl \in [0 .. Len(ss) -> Seq(S)] : Follows(fl, Len(ss), << >>, step)
    <3> HIDE DEF step
    <3> QED
      BY <1>1, <2>1, <2>2, StepsExist
  <2>4. ASSUME NEW i \in 1 .. Len(ss)
        PROVE  fl[i] = IF i = 1 THEN ss[i] ELSE fl[i - 1] \o ss[i]
    <3>1. fl[i] = step[<<i, fl[i - 1]>>]
      BY <2>3 DEF Follows
    <3>2. i - 1 \in 0 .. Len(ss)
      BY <1>1
    <3>3. fl[i - 1] \in Seq(S)
      BY <3>2
    <3> QED
      BY <3>1, <3>3
  <2>5. PICK f : f = [i \in 1 .. Len(ss) |-> fl[i]]
    OBVIOUS
  <2>6. f = flat(f)
    <3>1. \A i \in 1 .. Len(ss) : i # 1 => i - 1 \in 1 .. Len(ss)
      BY <1>1
    <3> QED
      BY <2>4, <2>5, <3>1
  <2>7. whole = flat(whole)
    <3> HIDE DEF flat
    <3> QED
      BY <2>6
  <2>8. FlattenSeq(ss) = whole[Len(ss)]
    BY <1>3 DEF FlattenSeq
  <2> DEFINE Q == {n \in Nat : n \in 1 .. Len(ss) => whole[n] \in Seq(S)}
  <2>9. 0 \in Q
    OBVIOUS
  <2>10. ASSUME NEW n \in Nat, n \in Q PROVE n + 1 \in Q
    <3> SUFFICES ASSUME n + 1 \in 1 .. Len(ss) PROVE whole[n + 1] \in Seq(S)
      OBVIOUS
    <3>1. whole[n + 1] = IF n + 1 = 1 THEN ss[n + 1] ELSE whole[n] \o ss[n + 1]
      <4>1. (n + 1) - 1 = n
        OBVIOUS
      <4> HIDE DEF whole
      <4> QED
        BY <2>7, <4>1
    <3>2. n # 0 => whole[n] \in Seq(S)
      BY <2>10, <1>1
    <3> HIDE DEF whole
    <3> QED
      BY <3>1, <3>2, <1>1
  <2>11. \A n \in Nat : n \in Q
    <3> HIDE DEF Q
    <3> QED
      BY <2>9, <2>10, NumbersBySteps
  <2>12. Len(ss) \in Q
    <3> HIDE DEF Q
    <3> QED
      BY <2>11, <1>1
  <2>13. Len(ss) \in 1 .. Len(ss)
    BY <1>1, <1>3
  <2> HIDE DEF whole
  <2> QED
    BY <2>8, <2>12, <2>13
<1> QED
  BY <1>2, <1>3

LEMMA FrozenTyped ==
    ASSUME NEW u, NEW f \in Files, NEW g
    PROVE  Frozen(u, f, g) \in Seq(Cell)
<1>1. Groups[f] \in Seq(Seq(Cell))
  BY JobConstants
<1>2. FlattenSeq(Groups[f]) \in Seq(Cell)
  BY <1>1, Flattened
<1>3. g \in 1 .. Len(Groups[f]) => Groups[f][g] \in Seq(Cell)
  BY <1>1, ElementsTyped
<1> QED
  BY <1>2, <1>3 DEF Frozen, RowGroups

LEMMA PiecesTyped ==
    ASSUME manifest \in Seq(Registration)
    PROVE  /\ Len(manifest) \in Nat
           /\ \A i \in 1 .. Len(manifest) : /\ Pieces[i] \in Nat /\ manifest[i].file \in Files
                                           /\ Pieces[i] = IF unit = "manifest_file" THEN 1
                                                          ELSE RowGroups(manifest[i].file)
<1>1. Len(manifest) \in Nat
  OBVIOUS
<1>2. ASSUME NEW i \in 1 .. Len(manifest)
      PROVE  RowGroups(manifest[i].file) \in Nat /\ manifest[i].file \in Files
  <2>1. manifest[i] \in Registration
    BY ElementsTyped
  <2>2. manifest[i].file \in Files
    BY <2>1 DEF Registration
  <2>3. Groups[manifest[i].file] \in Seq(Seq(Cell))
    BY <2>2, JobConstants
  <2> QED
    BY <2>2, <2>3 DEF RowGroups
<1> QED
  BY <1>1, <1>2 DEF Pieces

LEMMA BeforeSteps ==
    ASSUME manifest \in Seq(Registration)
    PROVE  /\ Before(1) = 0
           /\ \A i \in 1 .. Len(manifest) + 1 : Before(i) \in Nat
           /\ \A i \in 1 .. Len(manifest) : Before(i + 1) = Before(i) + Pieces[i]
           /\ Expected = Before(Len(manifest) + 1)
<1> DEFINE N == 1 .. Len(manifest)
           P == Pieces
<1>1. Len(manifest) \in Nat /\ \A i \in N : P[i] \in Nat
  BY PiecesTyped
<1>2. IsFiniteSet(N) /\ \A i \in N : P[i] \in Int
  <2>1. IsFiniteSet(1 .. Len(manifest))
    BY <1>1, FS_Interval
  <2> QED
    BY <1>1, <2>1
<1>3. Before(1) = 0
  <2>1. 1 .. 1 - 1 = {}
    OBVIOUS
  <2> QED
    BY <2>1, SumOfNothing DEF Before
<1>4. ASSUME NEW i \in 1 .. Len(manifest) + 1 PROVE Before(i) \in Nat
  <2>1. (1 .. i - 1) \subseteq N
    BY <1>1
  <2>2. IsFiniteSet(1 .. i - 1) /\ \A k \in 1 .. i - 1 : P[k] \in Nat
    BY <1>1, <1>2, <2>1, FS_Subset
  <2> HIDE DEF P
  <2>3. SumFunctionOnSet(P, 1 .. i - 1) \in Nat
    BY <2>2, SumIsNat
  <2> QED
    BY <2>3 DEF Before, P
<1>5. ASSUME NEW i \in N PROVE Before(i + 1) = Before(i) + Pieces[i]
  <2>1. (1 .. i - 1) \in SUBSET N /\ i \in N \ (1 .. i - 1)
    BY <1>1
  <2>2. 1 .. (i + 1) - 1 = (1 .. i - 1) \cup {i}
    BY <1>1
  <2>3. PICK T \in SUBSET N : T = 1 .. i - 1 /\ i \in N \ T
    BY <2>1
  <2>4. PICK p : p = P
    OBVIOUS
  <2>5. \A x \in N : p[x] \in Int
    BY <1>2, <2>4
  <2> HIDE DEF P, N
  <2>6. SumFunctionOnSet(p, T \cup {i}) = SumFunctionOnSet(p, T) + p[i]
    <3>1. IsFiniteSet(N) /\ T \in SUBSET N /\ i \in N \ T
      BY <2>3, <1>2
    <3> QED
      BY <3>1, <2>5, SumWithOneMore
  <2> QED
    BY <2>2, <2>3, <2>4, <2>6 DEF Before, P
<1>6. Expected = Before(Len(manifest) + 1)
  <2>1. (Len(manifest) + 1) - 1 = Len(manifest)
    BY <1>1
  <2> QED
    BY <2>1 DEF Expected, Before
<1> QED
  BY <1>3, <1>4, <1>5, <1>6

LEMMA BeforeGrows ==
    ASSUME manifest \in Seq(Registration),
           NEW i \in 1 .. Len(manifest), NEW j \in 1 .. Len(manifest) + 1, i < j
    PROVE  Before(i) + Pieces[i] <= Before(j)
<1> DEFINE L == Len(manifest)
           Q == {d \in Nat : i + d + 1 <= L + 1 => Before(i) + Pieces[i] <= Before(i + d + 1)}
<1>1. /\ L \in Nat
      /\ \A k \in 1 .. L + 1 : Before(k) \in Nat
      /\ \A k \in 1 .. L : Before(k + 1) = Before(k) + Pieces[k] /\ Pieces[k] \in Nat
  BY PiecesTyped, BeforeSteps
<1> HIDE DEF L
<1>2. 0 \in Q
  <2>1. i + 0 + 1 = i + 1
    OBVIOUS
  <2> QED
    BY <1>1, <2>1 DEF L
<1>3. ASSUME NEW d \in Nat, d \in Q PROVE d + 1 \in Q
  <2> SUFFICES ASSUME i + (d + 1) + 1 <= L + 1
               PROVE  Before(i) + Pieces[i] <= Before(i + (d + 1) + 1)
    OBVIOUS
  <2>1. PICK k \in 1 .. L : k = i + d + 1
    BY <1>1
  <2>2. i + (d + 1) + 1 = k + 1
    BY <2>1
  <2>3. Before(i) + Pieces[i] <= Before(k)
    BY <1>1, <1>3, <2>1
  <2>4. Before(k + 1) = Before(k) + Pieces[k] /\ Pieces[k] \in Nat /\ Before(k) \in Nat
    BY <1>1
  <2>5. Before(i) \in Nat /\ Pieces[i] \in Nat
    BY <1>1 DEF L
  <2> QED
    BY <2>2, <2>3, <2>4, <2>5
<1>4. j - i - 1 \in Nat /\ i + (j - i - 1) + 1 = j /\ j <= L + 1
  BY <1>1 DEF L
<1>5. \A d \in Nat : d \in Q
  <2> HIDE DEF Q
  <2> QED
    BY <1>2, <1>3, NumbersBySteps
<1>6. j - i - 1 \in Q
  BY <1>4, <1>5
<1> QED
  BY <1>4, <1>6

\* No two fragments have the same number.
LEMMA NumbersDiffer ==
    ASSUME manifest \in Seq(Registration),
           NEW i \in 1 .. Len(manifest), NEW g \in 1 .. Pieces[i],
           NEW j \in 1 .. Len(manifest), NEW h \in 1 .. Pieces[j],
           Number(i, g) = Number(j, h)
    PROVE  i = j /\ g = h
<1>1. /\ Before(i) \in Nat /\ Before(j) \in Nat /\ Pieces[i] \in Nat /\ Pieces[j] \in Nat
      /\ Len(manifest) \in Nat
  <2>1. i \in 1 .. Len(manifest) + 1 /\ j \in 1 .. Len(manifest) + 1
    BY PiecesTyped
  <2> QED
    BY <2>1, BeforeSteps, PiecesTyped
<1>2. Before(i) + g = Before(j) + h
  BY DEF Number, Before
<1>3. i < j => Before(i) + Pieces[i] <= Before(j)
  BY <1>1, BeforeGrows
<1>4. j < i => Before(j) + Pieces[j] <= Before(i)
  BY <1>1, BeforeGrows
<1>5. ~(i < j) /\ ~(j < i)
  BY <1>1, <1>2, <1>3, <1>4
<1>6. i = j
  BY <1>1, <1>5
<1> QED
  BY <1>1, <1>2, <1>6

LEMMA CellIn ==
    ASSUME NEW n, NEW x
    PROVE  x \in Cells(n) <=>
              \E i \in 1 .. Len(manifest) : \E g \in 1 .. Pieces[i] :
                 Number(i, g) <= n /\ x \in Rows(i, g)
BY DEF Cells, Rows

LEMMA NoCells ==
    ASSUME manifest \in Seq(Registration)
    PROVE  Cells(0) = {}
<1>1. SUFFICES ASSUME NEW x \in Cells(0) PROVE FALSE
  OBVIOUS
<1>2. PICK i \in 1 .. Len(manifest) : \E g \in 1 .. Pieces[i] : Number(i, g) <= 0
  BY <1>1, CellIn
<1>3. Before(i) \in Nat /\ Pieces[i] \in Nat
  BY PiecesTyped, BeforeSteps
<1> QED
  BY <1>2, <1>3 DEF Number, Before

\* With one more fragment come its rows, which were not there before.
LEMMA CellsGrow ==
    ASSUME manifest \in Seq(Registration),
           NEW i \in 1 .. Len(manifest), NEW g \in 1 .. Pieces[i],
           NEW n \in Nat, n + 1 = Before(i) + g
    PROVE  Cells(n + 1) = Cells(n) \cup Rows(i, g) /\ Cells(n) \cap Rows(i, g) = {}
<1>1. Number(i, g) = n + 1
  BY DEF Number, Before
<1>2. \A j \in 1 .. Len(manifest) : \A h \in 1 .. Pieces[j] : Number(j, h) \in Nat
  <2>1. ASSUME NEW j \in 1 .. Len(manifest), NEW h \in 1 .. Pieces[j] PROVE Number(j, h) \in Nat
    <3>1. Before(j) \in Nat /\ Pieces[j] \in Nat
      BY PiecesTyped, BeforeSteps
    <3>2. Number(j, h) = Before(j) + h
      BY DEF Number, Before
    <3> QED
      BY <3>1, <3>2
  <2> QED
    BY <2>1
<1>3. \A j \in 1 .. Len(manifest) : \A h \in 1 .. Pieces[j] :
         Number(j, h) <= n + 1 <=> Number(j, h) <= n \/ Number(j, h) = n + 1
  BY <1>2
<1>4. \A j \in 1 .. Len(manifest) : \A h \in 1 .. Pieces[j] :
         Number(j, h) = n + 1 => j = i /\ h = g
  BY <1>1, NumbersDiffer
<1>5. Cells(n + 1) \subseteq Cells(n) \cup Rows(i, g)
  <2>1. ASSUME NEW x \in Cells(n + 1) PROVE x \in Cells(n) \cup Rows(i, g)
    <3>1. PICK j \in 1 .. Len(manifest) : \E h \in 1 .. Pieces[j] :
                 Number(j, h) <= n + 1 /\ x \in Rows(j, h)
      BY CellIn
    <3>2. PICK h \in 1 .. Pieces[j] : Number(j, h) <= n + 1 /\ x \in Rows(j, h)
      BY <3>1
    <3>3. CASE Number(j, h) <= n
      BY <3>2, <3>3, CellIn
    <3>4. CASE Number(j, h) = n + 1
      BY <3>2, <3>4, <1>4
    <3> QED
      BY <3>2, <3>3, <3>4, <1>3
  <2> QED
    BY <2>1
<1>6. Cells(n) \subseteq Cells(n + 1)
  <2>1. ASSUME NEW x \in Cells(n) PROVE x \in Cells(n + 1)
    <3>1. PICK j \in 1 .. Len(manifest) : \E h \in 1 .. Pieces[j] :
                 Number(j, h) <= n /\ x \in Rows(j, h)
      BY CellIn
    <3>2. PICK h \in 1 .. Pieces[j] : Number(j, h) <= n /\ x \in Rows(j, h)
      BY <3>1
    <3> QED
      BY <3>2, <1>3, CellIn
  <2> QED
    BY <2>1
<1>7. Rows(i, g) \subseteq Cells(n + 1)
  <2>1. Number(i, g) <= n + 1
    BY <1>1
  <2> QED
    BY <2>1, CellIn
<1>8. Cells(n) \cap Rows(i, g) = {}
  <2>1. SUFFICES ASSUME NEW x \in Cells(n), x \in Rows(i, g) PROVE FALSE
    OBVIOUS
  <2>2. PICK j \in 1 .. Len(manifest) : \E h \in 1 .. Pieces[j] :
               Number(j, h) <= n /\ x \in Rows(j, h)
    BY <2>1, CellIn
  <2>3. PICK h \in 1 .. Pieces[j] : Number(j, h) <= n /\ x \in Rows(j, h)
    BY <2>2
  <2>4. j = i /\ h = g
    BY <2>1, <2>3 DEF Rows
  <2> QED
    BY <1>1, <2>3, <2>4
<1> QED
  BY <1>5, <1>6, <1>7, <1>8

LEMMA CellTyped ==
    ASSUME manifest \in Seq(Registration), NEW n, NEW x \in Cells(n)
    PROVE  Value(x) \in Cell
<1>1. PICK i \in 1 .. Len(manifest) : \E g \in 1 .. Pieces[i] :
               Number(i, g) <= n /\ x \in Rows(i, g)
  BY CellIn
<1>2. PICK g \in 1 .. Pieces[i] : x \in Rows(i, g)
  BY <1>1
<1>3. PICK s : s = Frozen(unit, manifest[i].file, g)
  OBVIOUS
<1>4. PICK k \in 1 .. Len(s) : x = <<i, g, k>>
  BY <1>2, <1>3 DEF Rows
<1>5. Value(x) = s[k]
  BY <1>3, <1>4 DEF Value
<1>6. s \in Seq(Cell)
  BY <1>3, PiecesTyped, FrozenTyped
<1> QED
  BY <1>4, <1>5, <1>6, ElementsTyped

-----------------------------------------------------------------------------
(* The aggregates of a set of cells.                                       *)

Sums == -SumTop .. SumTop - 1
Counted == [sum : Int, count : Nat]
Aggregates(s, cells) ==
    /\ s.count = Cardinality(Valued(cells)) /\ s.sum = Total(cells)
    /\ s.sum \in Sums

LEMMA AddedTyped ==
    ASSUME NEW s \in Counted, NEW v \in Cell
    PROVE  /\ Added(s, v) \in Counted
           /\ s.sum = Overflow => Added(s, v).sum = Overflow
           /\ v = Null => Added(s, v) = s
           /\ v # Null => /\ Added(s, v).count = s.count + 1
                          /\ Added(s, v).sum = Plus(s.sum, v)
<1>1. SumTop \in Nat
  BY JobConstants
<1>2. CASE v = Null
  BY <1>2 DEF Added
<1>3. CASE v # Null
  <2>1. s.sum \in Int /\ s.count \in Nat /\ v \in Int
    BY <1>3 DEF Counted, Cell
  <2>2. Plus(s.sum, v) \in Int /\ (s.sum = Overflow => Plus(s.sum, v) = Overflow)
    BY <1>1, <2>1 DEF Plus, Overflow
  <2>3. Added(s, v) = [sum |-> Plus(s.sum, v), count |-> s.count + 1]
    BY <1>3 DEF Added
  <2> QED
    BY <1>3, <2>1, <2>2, <2>3 DEF Counted
<1> QED
  BY <1>2, <1>3

LEMMA NothingValued ==
    Aggregates([sum |-> 0, count |-> 0], {})
<1>1. Valued({}) = {}
  BY DEF Valued
<1>2. Total({}) = 0
  BY <1>1, SumOfNothing DEF Total
<1>3. Cardinality({}) = 0
  BY FS_EmptySet
<1>4. SumTop - 1 >= 0 /\ SumTop \in Nat
  BY JobAssumption DEF JobAssumption
<1> QED
  BY <1>1, <1>2, <1>3, <1>4 DEF Aggregates, Sums

\* One more cell: the sum has overflowed, or is that of all of them.
LEMMA OneMoreCell ==
    ASSUME NEW C, IsFiniteSet(C), NEW c, c \notin C,
           \A x \in C \cup {c} : Value(x) \in Cell,
           NEW s \in Counted, Aggregates(s, C)
    PROVE  LET new == Added(s, Value(c))
           IN  new.sum = Overflow \/ Aggregates(new, C \cup {c})
<1>1. PICK v \in Cell : v = Value(c)
  OBVIOUS
<1>2. CASE v = Null
  <2>1. Valued(C \cup {c}) = Valued(C)
    BY <1>1, <1>2 DEF Valued
  <2>2. Total(C \cup {c}) = Total(C)
    BY <2>1 DEF Total
  <2>3. Added(s, v) = s
    BY <1>2, AddedTyped
  <2> QED
    BY <1>1, <2>1, <2>2, <2>3 DEF Aggregates
<1>3. CASE v # Null
  <2>1. PICK V : V = Valued(C)
    OBVIOUS
  <2>2. Valued(C \cup {c}) = V \cup {c} /\ c \notin V /\ V \subseteq C
    BY <1>1, <1>3, <2>1 DEF Valued
  <2>3. IsFiniteSet(V) /\ IsFiniteSet(V \cup {c}) /\ Cardinality(V) \in Nat
        /\ Cardinality(V \cup {c}) = Cardinality(V) + 1
    BY <2>2, FS_Subset, FS_AddElement, FS_CardinalityType
  <2>4. PICK f : f = [x \in V |-> Value(x)]
    OBVIOUS
  <2>5. PICK g : g = [x \in V \cup {c} |-> Value(x)]
    OBVIOUS
  <2>6. \A x \in V \cup {c} : g[x] \in Int
    <3>1. \A x \in V : Value(x) # Null
      BY <2>1 DEF Valued
    <3>2. \A x \in V \cup {c} : Value(x) \in Cell /\ Value(x) # Null
      BY <3>1, <2>2, <1>1, <1>3
    <3> QED
      BY <3>2, <2>5 DEF Cell
  <2>7. \A x \in V : f[x] \in Int /\ g[x] = f[x]
    BY <2>4, <2>5, <2>6
  <2>8. SumFunctionOnSet(f, V) = SumFunctionOnSet(g, V)
    BY <2>3, <2>7, SumSame
  <2>9. /\ SumFunctionOnSet(g, V \cup {c}) = SumFunctionOnSet(g, V) + g[c]
        /\ SumFunctionOnSet(g, V) \in Int
    <3>1. V \in SUBSET (V \cup {c}) /\ c \in (V \cup {c}) \ V
      BY <2>2
    <3> QED
      BY <3>1, <2>3, <2>6, SumWithOneMore
  <2>10. /\ Total(C) = SumFunctionOnSet(f, V)
         /\ Total(C \cup {c}) = SumFunctionOnSet(g, V \cup {c})
    BY <2>1, <2>2, <2>4, <2>5 DEF Total
  <2>11. g[c] = v
    BY <1>1, <2>5
  <2>12. Total(C \cup {c}) = s.sum + v /\ s.sum \in Int /\ v \in Int
    <3>1. s.sum = SumFunctionOnSet(g, V)
      BY <2>8, <2>10 DEF Aggregates
    <3>2. v \in Int
      BY <1>3 DEF Cell
    <3> QED
      BY <3>1, <3>2, <2>9, <2>10, <2>11
  <2>13. PICK new \in Counted : new = Added(s, v)
    BY AddedTyped
  <2>14. new.count = s.count + 1 /\ new.sum = Plus(s.sum, v)
    BY <1>3, <2>13, AddedTyped
  <2>15. new.count = Cardinality(Valued(C \cup {c}))
    BY <2>1, <2>2, <2>3, <2>14 DEF Aggregates
  <2>16. new.sum = Overflow \/ (new.sum = s.sum + v /\ new.sum \in Sums)
    BY <2>12, <2>14, JobConstants DEF Plus, Overflow, Sums
  <2>17. new.sum = Overflow \/ Aggregates(new, C \cup {c})
    BY <2>12, <2>15, <2>16 DEF Aggregates
  <2> QED
    BY <1>1, <2>13, <2>17
<1> QED
  BY <1>2, <1>3

\* The rows of a fragment, one after the other.
Upto(i, g, n) == {<<i, g, k>> : k \in 1 .. n}

LEMMA RowsAdded ==
    ASSUME NEW C, IsFiniteSet(C), NEW i, NEW g,
           NEW s \in Seq(Cell), s = Frozen(unit, manifest[i].file, g),
           \A x \in C : Value(x) \in Cell,
           C \cap Upto(i, g, Len(s)) = {},
           states \in Counted, Aggregates(states, C)
    PROVE  /\ LET new == Accumulated(s)
              IN  new \in Counted /\ (new.sum = Overflow \/ Aggregates(new, C \cup Upto(i, g, Len(s))))
           /\ IsFiniteSet(C \cup Upto(i, g, Len(s)))
           /\ Cardinality(C \cup Upto(i, g, Len(s))) = Cardinality(C) + Len(s)
<1> DEFINE N == Len(s)
           D(n) == C \cup Upto(i, g, n)
           step == [x \in (1 .. N) \X Counted |-> Added(x[2], s[x[1]])]
<1>1. N \in Nat /\ \A k \in 1 .. N : s[k] \in Cell /\ Value(<<i, g, k>>) = s[k]
  BY ElementsTyped DEF Value
<1>2. \A n \in 0 .. N : \A x \in D(n) : Value(x) \in Cell
  <2>1. ASSUME NEW n \in 0 .. N, NEW x \in D(n) PROVE Value(x) \in Cell
    <3>1. CASE x \in C
      BY <3>1
    <3>2. CASE x \in Upto(i, g, n)
      <4>1. PICK k \in 1 .. n : x = <<i, g, k>>
        BY <3>2 DEF Upto
      <4>2. k \in 1 .. N
        BY <1>1
      <4> QED
        BY <1>1, <4>1, <4>2
    <3> QED
      BY <3>1, <3>2
  <2> QED
    BY <2>1
<1>3. D(0) = C
  BY DEF Upto
<1>4. \A n \in Nat : D(n + 1) = D(n) \cup {<<i, g, n + 1>>}
  <2>1. ASSUME NEW n \in Nat PROVE Upto(i, g, n + 1) = Upto(i, g, n) \cup {<<i, g, n + 1>>}
    <3>1. 1 .. n + 1 = (1 .. n) \cup {n + 1}
      OBVIOUS
    <3> QED
      BY <3>1 DEF Upto
  <2> QED
    BY <2>1
<1>5. \A n \in Nat : n + 1 <= N => <<i, g, n + 1>> \notin D(n)
  <2>1. ASSUME NEW n \in Nat, n + 1 <= N, <<i, g, n + 1>> \in D(n) PROVE FALSE
    <3>1. <<i, g, n + 1>> \in Upto(i, g, N)
      BY <1>1, <2>1 DEF Upto
    <3>2. <<i, g, n + 1>> \in Upto(i, g, n)
      BY <2>1, <3>1
    <3>3. PICK k \in 1 .. n : <<i, g, n + 1>> = <<i, g, k>>
      BY <3>2 DEF Upto
    <3>4. k = n + 1
      BY <3>3
    <3> QED
      BY <3>4
  <2> QED
    BY <2>1
<1>6. step \in [(1 .. N) \X Counted -> Counted]
  <2>1. \A x \in (1 .. N) \X Counted : Added(x[2], s[x[1]]) \in Counted
    BY <1>1, AddedTyped
  <2> QED
    BY <2>1
<1>7. PICK fl \in [0 .. N -> Counted] : Follows(fl, N, states, step)
  <2> HIDE DEF step
  <2> QED
    BY <1>1, <1>6, StepsExist
<1>8. ASSUME NEW n \in 1 .. N PROVE fl[n] = Added(fl[n - 1], s[n]) /\ fl[n - 1] \in Counted
  <2>1. fl[n] = step[<<n, fl[n - 1]>>]
    BY <1>7 DEF Follows
  <2>2. n - 1 \in 0 .. N
    BY <1>1
  <2> QED
    BY <2>1, <2>2, <1>7
<1> DEFINE whole(f) == [n \in 0 .. N |-> IF n = 0 THEN states ELSE Added(f[n - 1], s[n])]
           after == CHOOSE f : f = whole(f)
<1>9. PICK f : f = [n \in 0 .. N |-> fl[n]]
  OBVIOUS
<1>10. f = whole(f)
  <2>1. \A n \in 0 .. N : n # 0 => n \in 1 .. N /\ n - 1 \in 0 .. N
    BY <1>1
  <2>2. fl[0] = states
    BY <1>7 DEF Follows
  <2> QED
    BY <1>8, <1>9, <2>1, <2>2
<1>11. after = whole(after)
  <2> HIDE DEF whole
  <2> QED
    BY <1>10
<1>12. Accumulated(s) = after[N]
  BY DEF Accumulated
<1> HIDE DEF after
<1>13. after[0] = states /\ \A n \in 1 .. N : after[n] = Added(after[n - 1], s[n])
  <2>1. 0 \in 0 .. N /\ \A n \in 1 .. N : n \in 0 .. N /\ n # 0
    BY <1>1
  <2> QED
    BY <1>11, <2>1
<1> HIDE DEF step, whole
<1> DEFINE Q == {n \in Nat : n <= N =>
                   /\ after[n] \in Counted /\ (after[n].sum = Overflow \/ Aggregates(after[n], D(n)))
                   /\ IsFiniteSet(D(n)) /\ Cardinality(D(n)) = Cardinality(C) + n}
<1>14. 0 \in Q
  <2>1. Cardinality(C) = Cardinality(C) + 0
    <3>1. Cardinality(C) \in Nat
      BY FS_CardinalityType
    <3> QED
      BY <3>1
  <2>2. PICK E : E = D(0)
    OBVIOUS
  <2>3. E = C
    BY <1>3, <2>2
  <2>4. /\ after[0] \in Counted /\ Aggregates(after[0], E)
        /\ IsFiniteSet(E) /\ Cardinality(E) = Cardinality(C) + 0
    BY <1>13, <2>1, <2>3
  <2> QED
    BY <2>2, <2>4
<1>15. ASSUME NEW n \in Nat, n \in Q PROVE n + 1 \in Q
  <2> SUFFICES ASSUME n + 1 <= N
               PROVE  /\ after[n + 1] \in Counted
                      /\ after[n + 1].sum = Overflow \/ Aggregates(after[n + 1], D(n + 1))
                      /\ IsFiniteSet(D(n + 1)) /\ Cardinality(D(n + 1)) = Cardinality(C) + (n + 1)
    OBVIOUS
  <2>1. PICK c : c = <<i, g, n + 1>>
    OBVIOUS
  <2>2. PICK B : B = D(n)
    OBVIOUS
  <2>3. D(n + 1) = B \cup {c} /\ c \notin B
    BY <1>4, <1>5, <2>1, <2>2
  <2>4. n + 1 \in 1 .. N /\ (n + 1) - 1 = n /\ n <= N /\ n + 1 \in 0 .. N
    BY <1>1
  <2>5. /\ after[n] \in Counted /\ (after[n].sum = Overflow \/ Aggregates(after[n], B))
        /\ IsFiniteSet(B) /\ Cardinality(B) = Cardinality(C) + n
    BY <1>15, <2>2, <2>4
  <2>6. /\ after[n + 1] = Added(after[n], s[n + 1]) /\ s[n + 1] \in Cell
        /\ Value(c) = s[n + 1]
    BY <1>1, <1>13, <2>1, <2>4
  <2>7. after[n + 1] \in Counted
    BY <2>5, <2>6, AddedTyped
  <2>8. IsFiniteSet(B \cup {c}) /\ Cardinality(B \cup {c}) = Cardinality(C) + (n + 1)
    <3>1. Cardinality(B \cup {c}) = Cardinality(B) + 1
      BY <2>3, <2>5, FS_AddElement
    <3>2. Cardinality(C) \in Nat
      BY FS_CardinalityType
    <3> QED
      BY <3>1, <3>2, <2>3, <2>5, FS_AddElement
  <2>9. after[n + 1].sum = Overflow \/ Aggregates(after[n + 1], B \cup {c})
    <3>1. CASE after[n].sum = Overflow
      BY <3>1, <2>5, <2>6, AddedTyped
    <3>2. CASE Aggregates(after[n], B)
      <4>1. \A x \in B \cup {c} : Value(x) \in Cell
        BY <1>2, <2>3, <2>4
      <4>2. LET new == Added(after[n], Value(c))
            IN  new.sum = Overflow \/ Aggregates(new, B \cup {c})
        BY <3>2, <4>1, <2>3, <2>5, OneMoreCell
      <4> QED
        BY <4>2, <2>6
    <3> QED
      BY <3>1, <3>2, <2>5
  <2> QED
    BY <2>3, <2>7, <2>8, <2>9
<1>16. \A n \in Nat : n \in Q
  <2> HIDE DEF Q
  <2> QED
    BY <1>14, <1>15, NumbersBySteps
<1>17. N \in Q
  BY <1>1, <1>16
<1> QED
  BY <1>1, <1>12, <1>17

-----------------------------------------------------------------------------
(***************************************************************************)
(* The inductive invariant of an analysis.  Where it stands tells which    *)
(* fragments are behind it; the aggregates are those of the rows of these  *)
(* fragments, and of the present one once it was added.                    *)
(***************************************************************************)
Progress == [fragments : Nat, files : Nat, total : Nat, rows : Nat]
Shown == [count : Nat, sum : Int \cup {Null}, avg : Int \cup {Null}]
AtFragment == {"metadata", "fragment"}

\* The present fragment, when its rows are in the aggregates already.
Present == IF at.step = "checkpoint" /\ Pieces[at.file] > 0 THEN 1 ELSE 0

PlaceOK ==
    /\ at.file \in 1 .. Len(manifest)
    /\ at.fragment \in 1 .. Fragments
    /\ at.step \in {"file", "metadata"} => at.fragment = 1
    /\ progress \in Progress /\ progress.total = Expected
    /\ IF at.step = "end"
       THEN progress.fragments = Expected /\ progress.files = Len(manifest)
       ELSE /\ progress.fragments = Before(at.file) + at.fragment - 1
            /\ progress.files = at.file - 1

\* A file that is as it was gave frozen bytes, and no others.
SeenOK ==
    /\ seen \subseteq Contents
    /\ "changed" \in seen => File \in moved /\ at.step \in AtFragment
    /\ reader[Single].at \notin {"idle", "failed", "gone"} => reader[Single].file = File
    /\ at.step \notin AtFragment => reader[Single] = Idle

StatesOK ==
    LET cells == Cells(progress.fragments + Present)
    IN  /\ states \in Counted /\ Aggregates(states, cells)
        /\ IsFiniteSet(cells) /\ progress.rows = Cardinality(cells)

CheckpointOK(c) ==
    /\ c \in [now : Progress, shown : Shown]
    /\ Exact(c.now, c.shown)
    /\ c.now.fragments <= Expected /\ c.now.total = Expected
    /\ c.now.files <= progress.files
CheckpointsOK ==
    /\ checkpoints \in Seq([now : Progress, shown : Shown])
    /\ \A i \in 1 .. Len(checkpoints) : CheckpointOK(checkpoints[i])
    /\ \A i \in 2 .. Len(checkpoints) :
          LET now == checkpoints[i].now
              before == checkpoints[i - 1].now
          IN  /\ now.files >= before.files
              /\ <<now.files, now.fragments>> # <<before.files, before.fragments>>
    /\ at.step = "end" /\ job # "failed" =>
          /\ checkpoints # <<>>
          /\ checkpoints[Len(checkpoints)].now.files = Len(manifest)
          /\ checkpoints[Len(checkpoints)].now.fragments = Expected

AnalysisInv ==
    kind = "analysis" =>
       /\ PlaceOK /\ SeenOK /\ StatesOK /\ CheckpointsOK
       /\ job = "completed" => at.step = "end"
QueryInv ==
    kind = "query" =>
       /\ checkpoints = <<>> /\ seen = {} /\ states = [sum |-> 0, count |-> 0]
       /\ progress = [fragments |-> 0, files |-> 0, total |-> Expected, rows |-> 0]
\* What a job was asked for.
AskedInv ==
    /\ unit \in {"parquet_row_group", "manifest_file"} /\ preview \in {"none", "available"}
    /\ limit \in Limits /\ refused \in BOOLEAN /\ asked \in 0 .. MaxRequests

LEMMA ManifestTyped ==
    ASSUME StoreInv
    PROVE  manifest \in Seq(Registration) /\ Len(manifest) \in Nat
BY ScanConstants DEF StoreInv, SetupOK

\* Nothing that tells what there is to read changes; files change for good.
LEMMA GivenStays ==
    ASSUME [Next]_allVars
    PROVE  /\ UNCHANGED <<manifest, limit, kind, unit, preview>>
           /\ moved \subseteq moved'
<1>1. CASE Start \/ Stop \/ Complete \/ NextFile \/ Metadata \/ Accumulate \/ Finish
           \/ (\E publish \in BOOLEAN : Advance(publish)) \/ UNCHANGED allVars
  BY <1>1 DEF Start, Stop, Complete, NextFile, Metadata, Accumulate, Finish, Advance, allVars,
     vars, jobVars, request
<1>2. CASE Prepare
  BY <1>2 DEF Prepare, Register, jobVars, request
<1>3. CASE \E r \in Readers : Abandon(r)
  BY <1>3 DEF Abandon, Drop, jobVars, request
<1>4. CASE Read \/ \E r \in Readers : Ask(r)
  BY <1>4 DEF Read, Ask, Request, GetRanges, GetStream, GetPart, request
<1>5. CASE Receive \/ Await \/ \E r \in Readers : Work(r)
  <2>1. UNCHANGED <<kind, unit, preview>>
    BY <1>5 DEF Receive, Await, Work, jobVars, request
  <2>2. \E r \in Readers : Serve(r)
    BY <1>5, ScanConstants DEF Receive, Await, Work, Serve
  <2> QED
    BY <2>1, <2>2, ServedHaveWork
<1>6. CASE Surroundings
  BY <1>6 DEF Surroundings, Disturb, Change, Rot, jobVars, request
<1> QED
  BY <1>1, <1>2, <1>3, <1>4, <1>5, <1>6 DEF Next, Query, Analysis

LEMMA CellsStay ==
    ASSUME UNCHANGED <<manifest, unit>>
    PROVE  /\ Pieces' = Pieces /\ Expected' = Expected
           /\ \A i : Before(i)' = Before(i)
           /\ \A n : Cells(n)' = Cells(n)
           /\ \A c : Valued(c)' = Valued(c) /\ Total(c)' = Total(c)
           /\ \A s, c : Aggregates(s, c)' <=> Aggregates(s, c)
           /\ \A now, shown : Exact(now, shown)' <=> Exact(now, shown)
<1>1. Pieces' = Pieces
  BY DEF Pieces
<1>2. Expected' = Expected
  BY <1>1 DEF Expected
<1>3. ASSUME NEW i PROVE Before(i)' = Before(i)
  BY <1>1 DEF Before
<1>4. ASSUME NEW n PROVE Cells(n)' = Cells(n)
  BY <1>1 DEF Cells, Number, Frozen
<1>5. ASSUME NEW c PROVE Valued(c)' = Valued(c)
  BY DEF Valued, Value, Frozen
<1>6. ASSUME NEW c PROVE Total(c)' = Total(c)
  BY <1>5 DEF Total, Valued, Value, Frozen
<1>7. ASSUME NEW s, NEW c PROVE Aggregates(s, c)' <=> Aggregates(s, c)
  BY <1>5, <1>6 DEF Aggregates
<1>8. ASSUME NEW now, NEW shown PROVE Exact(now, shown)' <=> Exact(now, shown)
  BY <1>4, <1>5, <1>6 DEF Exact
<1> QED
  BY <1>1, <1>2, <1>3, <1>4, <1>5, <1>6, <1>7, <1>8

LEMMA FragmentsCounted ==
    ASSUME manifest \in Seq(Registration), at.file \in 1 .. Len(manifest)
    PROVE  /\ Pieces[at.file] \in Nat
           /\ Fragments = IF Pieces[at.file] = 0 THEN 1 ELSE Pieces[at.file]
           /\ (unit = "manifest_file" \/ RowGroups(File) > 0) <=> Pieces[at.file] > 0
<1>1. PICK p \in Nat : p = Pieces[at.file]
  BY PiecesTyped
<1>2. p = IF unit = "manifest_file" THEN 1 ELSE RowGroups(File)
  BY <1>1, PiecesTyped DEF File
<1> QED
  BY <1>1, <1>2 DEF Fragments

-----------------------------------------------------------------------------
(* One part of the invariant after the other, when little changes.         *)

\* Where the analysis stands, and what it has added up, stay.
LEMMA AnalysisStays ==
    ASSUME StoreInv, PlaceOK, StatesOK, CheckpointsOK,
           UNCHANGED <<manifest, unit, at, progress, states, checkpoints>>,
           job = "failed" => job' = "failed"
    PROVE  PlaceOK' /\ StatesOK' /\ CheckpointsOK'
<1>1. UNCHANGED <<manifest, unit>>
  OBVIOUS
<1>2. /\ Pieces' = Pieces /\ Expected' = Expected /\ Before(at.file)' = Before(at.file)
      /\ Cells(progress.fragments + Present)' = Cells(progress.fragments + Present)
  <2>1. Pieces' = Pieces /\ Expected' = Expected /\ Before(at.file)' = Before(at'.file)
    BY <1>1, CellsStay DEF Before
  <2>2. Present' = Present
    BY <2>1 DEF Present
  <2>3. Cells(progress.fragments + Present)' = Cells(progress.fragments + Present)
    BY <1>1, <2>1, <2>2 DEF Cells, Number, Frozen
  <2> QED
    BY <1>1, <2>1, <2>3 DEF Before
<1>3. PlaceOK'
  BY <1>2 DEF PlaceOK, Fragments, File
<1>4. StatesOK'
  <2>1. PICK c : c = Cells(progress.fragments + Present)
    OBVIOUS
  <2>2. Aggregates(states, c)' <=> Aggregates(states, c)
    BY <1>1, CellsStay DEF Aggregates
  <2> QED
    BY <1>2, <2>1, <2>2, CellsStay DEF StatesOK, Aggregates
<1>5. CheckpointsOK'
  <2>1. \A c : CheckpointOK(c)' <=> CheckpointOK(c)
    BY <1>1, <1>2, CellsStay DEF CheckpointOK
  <2>2. ASSUME NEW i \in 1 .. Len(checkpoints) PROVE CheckpointOK(checkpoints[i])'
    <3>1. PICK c : c = checkpoints[i]
      OBVIOUS
    <3>2. CheckpointOK(c)'
      BY <2>1, <3>1 DEF CheckpointsOK
    <3> QED
      BY <3>1, <3>2 DEF CheckpointOK
  <2> QED
    BY <2>2, <1>2 DEF CheckpointsOK
<1> QED
  BY <1>3, <1>4, <1>5

LEMMA Stopped ==
    ASSUME [Next]_allVars
    PROVE  /\ job = "failed" => job' = "failed"
           /\ job' = "completed" => \/ job = "completed"
                                    \/ Complete \/ Finish
<1>1. CASE Start \/ Stop \/ Complete \/ NextFile \/ Metadata \/ Accumulate \/ Finish
           \/ (\E publish \in BOOLEAN : Advance(publish)) \/ UNCHANGED allVars
  <2>1. CASE Start \/ Stop \/ Complete \/ Finish \/ UNCHANGED allVars
    BY <2>1 DEF Start, Stop, Complete, Finish, Analyzing, allVars, jobVars, request
  <2>2. CASE NextFile \/ Metadata \/ Accumulate
    BY <2>2 DEF NextFile, Metadata, Accumulate, Analyzing, request
  <2>3. CASE \E publish \in BOOLEAN : Advance(publish)
    BY <2>3 DEF Advance, Analyzing
  <2> QED
    BY <1>1, <2>1, <2>2, <2>3
<1>2. CASE Prepare \/ Surroundings \/ Read \/ Receive \/ Await
           \/ (\E r \in Readers : Abandon(r) \/ Ask(r) \/ Work(r))
  BY <1>2 DEF Prepare, Surroundings, Read, Receive, Await, Abandon, Ask, Work, jobVars, request
<1> QED
  BY <1>1, <1>2 DEF Next, Query, Analysis

\* A request stays with its file.
LEMMA FileStays ==
    ASSUME StoreInv, NEW r \in Readers, Serve(r) \/ Drop(r)
    PROVE  /\ reader[r] # Idle
           /\ reader'[r].at \in {"idle", "failed", "gone"}
              \/ (/\ reader[r].at \notin {"idle", "failed", "gone"}
                  /\ reader'[r].file = reader[r].file)
<1>1. reader \in [Readers -> Requests] /\ reader[r] \in Requests
  BY DEF StoreInv, ReadersOK
<1>2. ASSUME NEW q, Step(r, q) PROVE reader'[r] = q
  BY <1>1, <1>2 DEF Step
<1>3. CASE Fail(r) /\ Serve(r)
  BY <1>2, <1>3, ServedHaveWork, RequestShapes DEF Fail
<1>4. CASE ReadByte(r)
  <2>1. PICK p : p = reader[r]
    OBVIOUS
  <2>2. reader'[r] = [p EXCEPT !.left = @ - 1, !.got = @ \cup {content[p.file]}]
    BY <1>2, <1>4, <2>1 DEF ReadByte
  <2>3. p.at \in Reads /\ reader'[r].file = p.file
    BY <1>1, <1>4, <2>1, <2>2 DEF ReadByte, Requests, Idle, Failed, Gone, Reads
  <2> QED
    BY <2>1, <2>3, RequestShapes DEF Reads
<1>5. CASE ~Fail(r) /\ (ReadFails(r) \/ EndRanges(r) \/ EndStream(r) \/ TakeCached(r) \/ Insert(r))
  BY <1>2, <1>5, RequestShapes DEF ReadFails, EndRanges, EndStream, TakeCached, Insert
<1>6. CASE ~Fail(r) /\ (NextChunk(r) \/ EndChunk(r) \/ Load(r) \/ Verify(r))
  <2>1. reader[r].at \in {"stream", "chunk", "locking", "load"}
    BY <1>6 DEF NextChunk, EndChunk, Load, Verify
  <2>2. \E q : Step(r, q) /\ q.file = reader[r].file
    BY <1>6 DEF NextChunk, EndChunk, Load, Verify
  <2> QED
    BY <1>2, <2>1, <2>2, RequestShapes
<1>7. CASE Evict(r)
  BY <1>7, RequestShapes DEF Evict
<1>8. CASE Drop(r)
  <2>1. PICK p : p = reader[r]
    OBVIOUS
  <2>2. p.at \notin {"idle", "gone", "detached", "insert"}
    BY <1>8, <2>1 DEF Drop
  <2>3. reader'[r] = IF p.at = "ranges" THEN [p EXCEPT !.at = "detached"] ELSE Gone
    BY <1>2, <1>8, <2>1 DEF Drop
  <2>4. CASE p.at = "ranges"
    <3>1. reader'[r].file = p.file
      BY <1>1, <2>1, <2>3, <2>4 DEF Requests, Idle, Failed, Gone
    <3> QED
      BY <2>1, <2>4, <3>1, RequestShapes
  <2>5. CASE p.at # "ranges"
    BY <2>1, <2>2, <2>3, <2>5, RequestShapes
  <2> QED
    BY <2>4, <2>5
<1> QED
  BY <1>3, <1>4, <1>5, <1>6, <1>7, <1>8 DEF Serve

\* What a request gives was frozen, or its file is no longer as it was.
LEMMA ReceivedOK ==
    ASSUME ScanInv, NEW new \in SUBSET Contents,
           \/ /\ EndRanges(Single) \/ EndChunk(Single) \/ Insert(Single)
              /\ new = reader[Single].got
           \/ /\ TakeCached(Single)
              /\ new = UNION {cache[i].got : i \in Cached(reader[Single].file)}
    PROVE  "changed" \in new => reader[Single].file \in moved
<1> DEFINE p == reader[Single]
<1>1. p \in Requests /\ RequestOK(p) /\ StoreInv /\ (p.at # "idle" => Open)
  BY AtWork, ScanConstants DEF ScanInv
<1>2. CASE EndRanges(Single) \/ EndChunk(Single)
  <2>1. p.at \in {"ranges", "chunk"} /\ new = p.got
    BY <1>2 DEF EndRanges, EndChunk, TakeCached
  <2> QED
    BY <1>1, <2>1 DEF RequestOK
<1>3. CASE Insert(Single)
  <2>1. p.at = "insert" /\ new = p.got
    BY <1>3 DEF Insert, TakeCached
  <2>2. p.file \in Files /\ allowed[p.file].digest \in Contents /\ Open
    BY <1>1, <2>1, RequestFields DEF RequestOK
  <2>3. allowed[p.file].digest = "frozen"
    BY <1>1, <2>2, DigestsFrozen
  <2> QED
    BY <1>1, <2>1, <2>3 DEF RequestOK
<1>4. CASE TakeCached(Single)
  <2>1. /\ p.at = "locking"
        /\ new = UNION {cache[i].got : i \in Cached(p.file)}
    BY <1>4 DEF EndRanges, EndChunk, Insert, TakeCached
  <2>2. p.file \in Files /\ allowed[p.file].digest \in Contents /\ Open
    BY <1>1, <2>1, RequestFields DEF RequestOK
  <2>3. allowed[p.file].digest = "frozen"
    BY <1>1, <2>2, DigestsFrozen
  <2>4. \A i \in Cached(p.file) : cache[i].got \subseteq {"frozen"}
    BY <1>1, <2>3 DEF Cached, StoreInv, ReadersOK, EntryOK
  <2> QED
    BY <2>1, <2>4
<1> QED
  BY <1>2, <1>3, <1>4

-----------------------------------------------------------------------------
(* Every step keeps the invariant.                                         *)

\* Where a request is served or dropped, what was read stays known.
LEMMA SeenStays ==
    ASSUME ScanInv, SeenOK, moved \subseteq moved', UNCHANGED <<manifest, at>>,
           NEW new \in SUBSET Contents, seen' = seen \cup new,
           Serve(Single) \/ (Drop(Single) /\ new = {}),
           "changed" \in new => reader[Single].file \in moved
    PROVE  SeenOK'
<1>1. /\ reader[Single] # Idle
      /\ reader'[Single].at \in {"idle", "failed", "gone"}
         \/ (/\ reader[Single].at \notin {"idle", "failed", "gone"}
             /\ reader'[Single].file = reader[Single].file)
  BY FileStays, ScanConstants DEF ScanInv
<1>2. File' = File
  BY DEF File
<1>3. at.step \in AtFragment
  BY <1>1 DEF SeenOK
<1>4. "changed" \in new => File \in moved
  <2> SUFFICES ASSUME "changed" \in new PROVE File \in moved
    OBVIOUS
  <2>1. reader[Single].at \notin {"idle", "failed", "gone"}
    BY ServedHaveWork, ScanConstants
  <2> QED
    BY <2>1 DEF SeenOK
<1> QED
  BY <1>1, <1>2, <1>3, <1>4 DEF SeenOK

LEMMA AccumulateKept ==
    ASSUME ScanInv, PlaceOK, SeenOK, StatesOK, CheckpointsOK, kind = "analysis",
           UNCHANGED <<manifest, unit>>, Accumulate
    PROVE  PlaceOK' /\ SeenOK' /\ StatesOK' /\ CheckpointsOK'
<1>1. /\ at.step = "fragment" /\ job = "running" /\ reader[Single] = Idle
      /\ UNCHANGED <<vars, kind, unit, preview, asked, seen, checkpoints>>
  BY DEF Accumulate, Analyzing
<1>2. manifest \in Seq(Registration) /\ Len(manifest) \in Nat /\ StoreInv /\ at \in Places
  BY ManifestTyped DEF ScanInv, JobInv
<1>3. CASE UNCHANGED <<states, progress, at>>
  <2>1. PlaceOK' /\ StatesOK' /\ CheckpointsOK'
    BY <1>1, <1>2, <1>3, AnalysisStays
  <2>2. SeenOK'
    BY <1>1, <1>3 DEF SeenOK, File, vars
  <2> QED
    BY <2>1, <2>2
<1>4. CASE ~UNCHANGED <<states, progress, at>>
  <2>1. PICK s : s = Frozen(unit, File, at.fragment)
    OBVIOUS
  <2>2. File \in Files /\ File = manifest[at.file].file /\ s \in Seq(Cell)
    BY <1>2, <2>1, PiecesTyped, FrozenTyped DEF File, PlaceOK
  <2>3. Unmoved(File) /\ job' = job
    BY <1>4 DEF Accumulate
  <2>4. Batches = s
    BY <2>1, <2>3 DEF Batches, SeenOK, Unmoved
  <2>5. PICK new : new = Accumulated(s)
    OBVIOUS
  <2>6. /\ new.sum # Overflow /\ states' = new
        /\ progress' = [progress EXCEPT !.rows = @ + Len(s)]
        /\ at' = [at EXCEPT !.step = "checkpoint", !.reading = FALSE]
    BY <1>4, <2>4, <2>5 DEF Accumulate
  <2>7. PICK n \in Nat : n = progress.fragments
    BY DEF PlaceOK, Progress
  <2>8. PICK C : C = Cells(n)
    OBVIOUS
  <2>9. /\ states \in Counted /\ Aggregates(states, C) /\ IsFiniteSet(C)
        /\ progress.rows = Cardinality(C)
    <3>1. Present = 0 /\ n + 0 = n
      BY <1>1 DEF Present
    <3> QED
      BY <3>1, <2>7, <2>8 DEF StatesOK
  <2>10. PICK i \in 1 .. Len(manifest) : i = at.file
    BY DEF PlaceOK
  <2>11. PICK g \in 1 .. Fragments : g = at.fragment
    BY DEF PlaceOK
  <2>12. PICK p \in Nat : p = Pieces[i] /\ Fragments = IF p = 0 THEN 1 ELSE p
    BY <1>2, <2>10, FragmentsCounted
  <2>13. Before(i) \in Nat /\ n = Before(i) + g - 1
    BY <1>1, <1>2, <2>7, <2>10, <2>11, BeforeSteps DEF PlaceOK
  <2>14. PICK M : M = C \cup Upto(i, g, Len(s))
    OBVIOUS
  <2>15. /\ p = 0 => M = Cells(n) /\ C \cap Upto(i, g, Len(s)) = {}
         /\ p > 0 => M = Cells(n + 1) /\ C \cap Upto(i, g, Len(s)) = {}
    <3>1. CASE p = 0
      <4>1. unit # "manifest_file" /\ g \notin 1 .. RowGroups(File)
        <5>1. p = IF unit = "manifest_file" THEN 1 ELSE RowGroups(File)
          BY <1>2, <2>2, <2>10, <2>12, PiecesTyped
        <5> QED
          BY <3>1, <5>1
      <4>2. s = <<>>
        BY <2>1, <2>11, <4>1 DEF Frozen
      <4>3. Upto(i, g, Len(s)) = {}
        BY <4>2 DEF Upto
      <4> QED
        BY <3>1, <4>3, <2>8, <2>14
    <3>2. CASE p > 0
      <4>1. g \in 1 .. Pieces[i] /\ n + 1 = Before(i) + g
        BY <3>2, <2>11, <2>12, <2>13
      <4>2. Cells(n + 1) = Cells(n) \cup Rows(i, g) /\ Cells(n) \cap Rows(i, g) = {}
        BY <1>2, <4>1, CellsGrow
      <4>3. Rows(i, g) = Upto(i, g, Len(s))
        BY <2>1, <2>2, <2>10, <2>11 DEF Rows, Upto
      <4> QED
        BY <3>2, <4>2, <4>3, <2>8, <2>14
    <3> QED
      BY <3>1, <3>2
  <2>16. /\ new \in Counted /\ Aggregates(new, M) /\ IsFiniteSet(M)
         /\ Cardinality(M) = Cardinality(C) + Len(s)
    <3>1. s = Frozen(unit, manifest[i].file, g)
      BY <2>1, <2>2, <2>10, <2>11
    <3>2. \A x \in C : Value(x) \in Cell
      BY <1>2, <2>8, CellTyped
    <3>3. C \cap Upto(i, g, Len(s)) = {}
      BY <2>12, <2>15
    <3> QED
      BY <2>2, <2>5, <2>6, <2>9, <2>14, <3>1, <3>2, <3>3, RowsAdded
  <2>17. /\ at'.step = "checkpoint" /\ at'.file = i /\ at'.fragment = g
    BY <1>2, <2>6, <2>10, <2>11 DEF Places
  <2>18. /\ progress' \in Progress /\ progress'.rows = Cardinality(M)
         /\ progress'.fragments = n /\ progress'.files = progress.files
         /\ progress'.total = progress.total
    <3>1. PICK q \in Progress : q = progress
      BY DEF PlaceOK
    <3>2. q.rows + Len(s) \in Nat /\ q.rows + Len(s) = Cardinality(M)
      <4>1. Len(s) \in Nat /\ q.rows \in Nat
        BY <2>2, <3>1 DEF Progress
      <4> QED
        BY <4>1, <3>1, <2>9, <2>16
    <3>3. progress' = [q EXCEPT !.rows = @ + Len(s)]
      BY <2>6, <3>1
    <3> QED
      BY <3>1, <3>2, <3>3, <2>7 DEF Progress
  <2>19. Pieces' = Pieces /\ Expected' = Expected /\ Fragments' = Fragments
         /\ Before(at.file)' = Before(at.file)
    <3>1. Pieces' = Pieces /\ Expected' = Expected /\ File' = File
      BY <1>1, <2>10, <2>17, CellsStay DEF File
    <3> QED
      BY <1>1, <3>1, <2>10, <2>17 DEF Fragments, Before
  <2>20. PlaceOK'
    <3>1. Before(at.file)' = Before(at.file)
      BY <2>19
    <3> QED
      BY <1>1, <2>7, <2>10, <2>11, <2>17, <2>18, <2>19 DEF PlaceOK
  <2>21. SeenOK'
    BY <1>1, <2>3, <2>10, <2>17 DEF SeenOK, File, Unmoved, vars
  <2>22. StatesOK'
    <3>1. Present' = IF p > 0 THEN 1 ELSE 0
      BY <2>10, <2>12, <2>17, <2>19 DEF Present
    <3>2. Cells(progress.fragments + Present)' = M
      <4>1. n + Present' = IF p > 0 THEN n + 1 ELSE n
        BY <3>1
      <4>2. Cells(n + Present') = M
        BY <4>1, <2>12, <2>15
      <4> QED
        BY <4>2, <2>18, <2>19, <1>1 DEF Cells, Number, Frozen
    <3>3. Aggregates(states, M)'
      BY <2>6, <2>16, CellsStay DEF Aggregates
    <3> QED
      BY <2>6, <2>16, <2>18, <3>2, <3>3 DEF StatesOK, Aggregates
  <2>23. CheckpointsOK'
    <3>1. ASSUME NEW j \in 1 .. Len(checkpoints) PROVE CheckpointOK(checkpoints[j])'
      <4>1. PICK c : c = checkpoints[j]
        OBVIOUS
      <4>2. CheckpointOK(c)
        BY <4>1 DEF CheckpointsOK
      <4> QED
        BY <1>1, <4>1, <4>2, <2>18, <2>19, CellsStay DEF CheckpointOK
    <3> QED
      BY <1>1, <2>17, <3>1 DEF CheckpointsOK
  <2> QED
    BY <2>20, <2>21, <2>22, <2>23
<1> QED
  BY <1>3, <1>4

\* The average that is shown is the whole one.
LEMMA AverageExact ==
    ASSUME NEW sum \in Sums, NEW count \in Nat \ {0}, Average(sum, count) # Overflow
    PROVE  Average(sum, count) = Quot(sum * Factor, count)
<1>1. PICK a \in Int : a = Quot(sum, count) * Factor
  <2>1. Quot(sum, count) \in Int /\ Factor \in Int
    BY AverageApart, JobConstants DEF Sums
  <2> QED
    BY <2>1
<1>2. PICK r \in Int : r = Rem(sum, count) * Factor
  <2>1. Rem(sum, count) \in Int /\ Factor \in Int
    BY AverageApart, JobConstants DEF Sums
  <2> QED
    BY <2>1
<1>3. /\ a + Quot(r, count) = Quot(sum * Factor, count)
      /\ Quot(r, count) \in Int
  <2>1. sum \in Int /\ Factor \in Nat \ {0}
    BY JobConstants DEF Sums
  <2> QED
    BY <1>1, <1>2, <2>1, AverageApart
<1>4. /\ Average(sum, count) = Plus(a, Quot(r, count))
  BY <1>1, <1>2 DEF Average
<1>5. Plus(a, Quot(r, count)) # Overflow => Plus(a, Quot(r, count)) = a + Quot(r, count)
  BY <1>1, <1>3 DEF Plus
<1> QED
  BY <1>3, <1>4, <1>5

LEMMA AverageTyped ==
    ASSUME NEW sum \in Sums, NEW count \in Nat \ {0}, Average(sum, count) # Overflow
    PROVE  Average(sum, count) \in Int
BY AverageExact, AverageApart, JobConstants DEF Sums

\* What Output tells when it can be shown is exact.
LEMMA OutputExact ==
    ASSUME NEW C, states \in Counted, Aggregates(states, C), Fitting
    PROVE  /\ Output \in Shown
           /\ \A now : now.rows = Cardinality(C) /\ C = Cells(now.fragments) => Exact(now, Output)
<1>1. /\ states.count \in Nat /\ states.sum \in Sums /\ states.sum \in Int
      /\ states.count = Cardinality(Valued(C)) /\ states.sum = Total(C)
  BY DEF Counted, Aggregates
<1>2. CASE states.count = 0
  <2>1. Output = [count |-> 0, sum |-> Null, avg |-> Null]
    BY <1>2 DEF Output
  <2> QED
    BY <1>1, <1>2, <2>1 DEF Exact, Shown
<1>3. CASE states.count # 0
  <2>1. PICK a : a = Average(states.sum, states.count)
    OBVIOUS
  <2>2. Output = [count |-> states.count, sum |-> states.sum, avg |-> a]
    BY <1>3, <2>1 DEF Output
  <2>3. a # Overflow
    <3>1. states.count > 0
      BY <1>1, <1>3
    <3> QED
      BY <2>2, <3>1 DEF Fitting, Shows
  <2>4. a \in Int /\ a = Quot(states.sum * Factor, states.count)
    <3>1. states.count \in Nat \ {0}
      BY <1>1, <1>3
    <3> QED
      BY <1>1, <2>1, <2>3, <3>1, AverageExact, AverageTyped
  <2>5. Output \in Shown
    BY <1>1, <2>2, <2>4 DEF Shown
  <2> QED
    BY <1>1, <1>3, <2>2, <2>4, <2>5 DEF Exact
<1> QED
  BY <1>2, <1>3

\* How far the job has come once the present fragment counts.
LEMMA AdvancedOK ==
    ASSUME manifest \in Seq(Registration), at.step = "checkpoint", PlaceOK
    PROVE  LET i == at.file
               p == Pieces[i]
               last == at.fragment = Fragments
           IN  /\ Advanced \in Progress
               /\ Advanced.rows = progress.rows /\ Advanced.total = Expected
               /\ Advanced.fragments = progress.fragments + Present
               /\ Advanced.fragments <= Expected
               /\ Advanced.files = IF last THEN i ELSE i - 1
               /\ IF last THEN Advanced.fragments = Before(i + 1)
                  ELSE Advanced.fragments = Before(i) + (at.fragment + 1) - 1
<1>1. PICK L \in Nat : L = Len(manifest)
  BY PiecesTyped
<1>2. PICK i \in 1 .. L : i = at.file
  BY <1>1 DEF PlaceOK
<1>3. PICK p \in Nat : p = Pieces[i]
  BY <1>1, PiecesTyped
<1>4. PICK F \in Nat : F = Fragments /\ F = IF p = 0 THEN 1 ELSE p
  BY <1>1, <1>2, <1>3, FragmentsCounted
<1>5. PICK g \in 1 .. F : g = at.fragment
  BY <1>4 DEF PlaceOK
<1>6. PICK b \in Nat : b = Before(i)
  BY <1>1, BeforeSteps
<1>7. Before(i + 1) = b + p
  BY <1>1, <1>3, <1>6, BeforeSteps
<1>8. b + p <= Expected
  <2>1. L + 1 \in 1 .. L + 1 /\ i < L + 1
    BY <1>1
  <2> QED
    BY <1>1, <1>3, <1>6, <2>1, BeforeGrows, BeforeSteps
<1>9. PICK q \in Progress : q = progress
  BY DEF PlaceOK
<1>10. /\ q.fragments = b + g - 1 /\ q.files = i - 1 /\ q.total = Expected
       /\ q.rows \in Nat
  BY <1>2, <1>5, <1>6, <1>9 DEF PlaceOK, Progress
<1>11. PICK m \in Nat : m = q.fragments + IF p > 0 THEN 1 ELSE 0
  BY <1>10
<1>12. PICK k \in Nat : k = IF g = F THEN i ELSE i - 1
  OBVIOUS
<1>13. PICK t : t = IF k = L THEN m ELSE q.total
  OBVIOUS
<1>14. Advanced = [q EXCEPT !.files = k, !.fragments = m, !.total = t]
  <2>1. (unit = "manifest_file" \/ RowGroups(File) > 0) <=> p > 0
    BY <1>1, <1>2, <1>3, FragmentsCounted
  <2> QED
    BY <1>1, <1>2, <1>4, <1>5, <1>9, <1>10, <1>11, <1>12, <1>13, <2>1 DEF Advanced
<1>15. IF g = F THEN m = b + p ELSE m = b + g
  BY <1>4, <1>10, <1>11
<1>16. m <= Expected
  BY <1>4, <1>8, <1>15, BeforeSteps
<1>17. t = Expected
  <2>1. CASE k = L
    <3>1. g = F /\ i = L
      BY <2>1, <1>12
    <3>2. Expected = Before(L + 1)
      BY <1>1, BeforeSteps
    <3> QED
      BY <2>1, <3>1, <3>2, <1>7, <1>13, <1>15
  <2> QED
    BY <2>1, <1>10, <1>13
<1>18. Expected \in Nat
  <2>1. L + 1 \in 1 .. L + 1
    OBVIOUS
  <2> QED
    BY <1>1, <2>1, BeforeSteps
<1>19. /\ Advanced \in Progress /\ Advanced.rows = q.rows /\ Advanced.total = t
       /\ Advanced.fragments = m /\ Advanced.files = k
  BY <1>14, <1>17, <1>18 DEF Progress
<1>20. Present = IF p > 0 THEN 1 ELSE 0
  BY <1>2, <1>3 DEF Present
<1>21. m = b + (g + 1) - 1 \/ g = F
  BY <1>15
<1> QED
  BY <1>2, <1>3, <1>4, <1>5, <1>6, <1>7, <1>9, <1>11, <1>12, <1>15, <1>16, <1>17, <1>19, <1>20, <1>21

LEMMA AdvanceKept ==
    ASSUME ScanInv, PlaceOK, SeenOK, StatesOK, CheckpointsOK, kind = "analysis",
           UNCHANGED <<manifest, unit>>, NEW publish \in BOOLEAN, Advance(publish)
    PROVE  PlaceOK' /\ SeenOK' /\ StatesOK' /\ CheckpointsOK'
<1>1. /\ at.step = "checkpoint" /\ job = "running" /\ progress' = Advanced
      /\ UNCHANGED <<vars, kind, unit, preview, asked, seen, states>>
  BY DEF Advance, Analyzing
<1>2. /\ manifest \in Seq(Registration) /\ at \in Places /\ reader[Single] = Idle
      /\ "changed" \notin seen
  BY <1>1, ManifestTyped DEF ScanInv, JobInv, SeenOK, AtFragment
<1>3. PICK L \in Nat : L = Len(manifest)
  BY <1>2, PiecesTyped
<1>4. PICK i \in 1 .. L : i = at.file
  BY <1>3 DEF PlaceOK
<1>5. PICK g \in Nat \ {0} : g = at.fragment
  BY <1>2 DEF Places
<1>6. PICK F \in Nat : F = Fragments /\ g <= F
  <2>1. Fragments \in Nat
    BY <1>2, <1>3, <1>4, FragmentsCounted
  <2> QED
    BY <2>1, <1>5 DEF PlaceOK
<1>7. PICK now \in Progress : now = Advanced
  BY <1>1, <1>2, AdvancedOK
<1>8. /\ now.rows = progress.rows /\ now.total = Expected /\ now.fragments <= Expected
      /\ now.fragments = progress.fragments + Present
      /\ now.files = IF g = F THEN i ELSE i - 1
      /\ IF g = F THEN now.fragments = Before(i + 1)
         ELSE now.fragments = Before(i) + (g + 1) - 1
  BY <1>1, <1>2, <1>4, <1>5, <1>6, <1>7, AdvancedOK
<1>9. Pieces' = Pieces /\ Expected' = Expected
  BY CellsStay
<1>10. at'.step \in {"file", "fragment", "end"}
  BY <1>2, <1>5 DEF Advance, Unread, Places
<1>11. PlaceOK'
  <2>1. ASSUME NEW f, f = File', f \in Files PROVE Fragments' \in Nat \ {0}
    <3>1. Groups[f] \in Seq(Seq(Cell))
      BY <2>1, JobConstants
    <3>2. PICK n \in Nat : n = Len(Groups[f])
      BY <3>1
    <3>3. Fragments' = IF unit = "manifest_file" \/ n = 0 THEN 1 ELSE n
      BY <2>1, <3>2, <1>1 DEF Fragments, RowGroups
    <3> QED
      BY <3>2, <3>3
  <2>2. CASE g < F
    <3>1. at' = [at EXCEPT !.step = "fragment", !.fragment = @ + 1]
      BY <2>2, <1>5, <1>6 DEF Advance
    <3>2. at'.step = "fragment" /\ at'.file = i /\ at'.fragment = g + 1
      BY <3>1, <1>2, <1>4, <1>5 DEF Places
    <3>3. Fragments' = F
      BY <3>2, <1>1, <1>4, <1>6 DEF Fragments, File
    <3>4. Before(at.file)' = Before(i)
      BY <3>2, <1>9 DEF Before
    <3> QED
      BY <2>2, <3>2, <3>3, <3>4, <1>1, <1>3, <1>7, <1>8, <1>9 DEF PlaceOK
  <2>3. CASE g = F /\ i < L
    <3>1. at' = [Unread EXCEPT !.file = i + 1]
      <4>0. ~(g < F)
        BY <2>3
      <4>1. ~(at.fragment < Fragments) /\ at.file < Len(manifest)
        BY <4>0, <2>3, <1>3, <1>4, <1>5, <1>6, Zenon
      <4> QED
        BY <4>1, <1>4 DEF Advance
    <3>2. at'.step = "file" /\ at'.file = i + 1 /\ at'.fragment = 1
      BY <3>1 DEF Unread
    <3>3. Fragments' \in Nat \ {0}
      <4>1. File' = manifest[i + 1].file /\ i + 1 \in 1 .. L
        BY <3>2, <2>3 DEF File
      <4>2. File' \in Files
        BY <4>1, <1>2, <1>3, PiecesTyped
      <4> QED
        BY <4>2, <2>1
    <3>4. Before(at.file)' = Before(i + 1)
      BY <3>2, <1>9 DEF Before
    <3>5. now.fragments \in Nat
      BY <1>7 DEF Progress
    <3>6. Before(i + 1) = Before(i + 1) + 1 - 1 /\ (i + 1) - 1 = i
      BY <3>5, <1>8, <2>3
    <3> QED
      BY <2>3, <3>2, <3>3, <3>4, <3>6, <1>1, <1>3, <1>7, <1>8, <1>9 DEF PlaceOK
  <2>4. CASE g = F /\ i = L
    <3>1. at' = [at EXCEPT !.step = "end"]
      <4>0. ~(g < F) /\ ~(i < L)
        BY <2>4
      <4>1. ~(at.fragment < Fragments) /\ ~(at.file < Len(manifest))
        BY <4>0, <2>4, <1>3, <1>4, <1>5, <1>6, Zenon
      <4> QED
        BY <4>1 DEF Advance
    <3>2. at'.step = "end" /\ at'.file = i /\ at'.fragment = g
      BY <3>1, <1>2, <1>4, <1>5 DEF Places
    <3>3. Fragments' = F
      BY <3>2, <1>1, <1>4, <1>6 DEF Fragments, File
    <3>4. now.fragments = Expected
      BY <1>2, <1>3, <1>8, <2>4, BeforeSteps
    <3> QED
      BY <2>4, <3>2, <3>3, <3>4, <1>1, <1>3, <1>7, <1>8, <1>9 DEF PlaceOK
  <2> QED
    BY <2>2, <2>3, <2>4, <1>6
<1>12. SeenOK'
  BY <1>1, <1>2, RequestShapes DEF SeenOK, vars
<1>13. PICK C : C = Cells(now.fragments)
  OBVIOUS
<1>14. /\ states \in Counted /\ Aggregates(states, C) /\ IsFiniteSet(C)
       /\ now.rows = Cardinality(C)
  BY <1>8, <1>13 DEF StatesOK
<1>15. StatesOK'
  <2>1. Present' = 0 /\ progress'.fragments = now.fragments /\ now.fragments \in Nat
    BY <1>1, <1>7, <1>10 DEF Present, Progress
  <2>2. progress'.fragments + Present' = now.fragments
    BY <2>1
  <2>3. Cells(progress.fragments + Present)' = C
    BY <2>2, <1>9, <1>13, <1>1 DEF Cells, Number, Frozen
  <2>4. Aggregates(states, C)'
    BY <1>1, <1>14, CellsStay DEF Aggregates
  <2> QED
    BY <2>3, <2>4, <1>1, <1>7, <1>14 DEF StatesOK, Aggregates
<1>16. CheckpointsOK'
  <2>1. progress.files = i - 1 /\ progress.files <= now.files /\ now.files \in Nat
    BY <1>1, <1>4, <1>8 DEF PlaceOK
  <2>2. ASSUME NEW c, CheckpointOK(c) PROVE CheckpointOK(c)'
    <3>1. c.now.files \in Nat /\ c.now.files <= progress.files
      BY <2>2 DEF CheckpointOK, Progress
    <3>2. c.now.files <= progress'.files
      BY <3>1, <2>1, <1>1, <1>7
    <3> QED
      BY <2>2, <3>2, <1>9, CellsStay DEF CheckpointOK
  <2>3. PICK n \in Nat : n = Len(checkpoints)
    BY DEF CheckpointsOK
  <2>4. at'.step = "end" => now.files = L /\ now.fragments = Expected /\ publish
    <3> SUFFICES ASSUME at'.step = "end" PROVE now.files = L /\ now.fragments = Expected /\ publish
      OBVIOUS
    <3>1. progress'.files = L /\ progress'.fragments = Expected
      BY <1>1, <1>3, <1>9, <1>11 DEF PlaceOK, vars
    <3>2. Due(Advanced)
      BY <3>1, <1>1, <1>3 DEF Due
    <3> QED
      BY <3>1, <3>2, <1>1, <1>7 DEF Advance
  <2>5. CASE publish /\ ~Repeats(now) /\ Fitting
    <3>1. PICK c : c = [now |-> now, shown |-> Output]
      OBVIOUS
    <3>2. Output \in Shown /\ Exact(now, Output)
      BY <2>5, <1>13, <1>14, OutputExact
    <3>3. CheckpointOK(c)'
      <4>1. c \in [now : Progress, shown : Shown] /\ c.now = now /\ c.shown = Output
        BY <3>1, <3>2
      <4>2. Exact(c.now, c.shown)'
        BY <3>2, <4>1, CellsStay
      <4>3. now.files <= progress'.files
        BY <2>1, <1>1, <1>7
      <4> QED
        BY <4>1, <4>2, <4>3, <1>8, <1>9 DEF CheckpointOK
    <3>4. checkpoints' = Append(checkpoints, c)
      BY <2>5, <3>1, <1>7 DEF Advance
    <3>5. /\ checkpoints' \in Seq([now : Progress, shown : Shown]) /\ Len(checkpoints') = n + 1
          /\ \A k \in 1 .. n : checkpoints'[k] = checkpoints[k]
          /\ checkpoints'[n + 1] = c
      <4>1. c \in [now : Progress, shown : Shown]
        BY <3>1, <3>2
      <4> QED
        BY <4>1, <3>4, <2>3 DEF CheckpointsOK
    <3>6. ASSUME NEW k \in 1 .. n + 1 PROVE CheckpointOK(checkpoints[k])'
      <4>1. CASE k = n + 1
        BY <4>1, <3>3, <3>5 DEF CheckpointOK
      <4>2. CASE k # n + 1
        <5>1. k \in 1 .. n
          BY <4>2
        <5>2. PICK d : d = checkpoints[k]
          OBVIOUS
        <5>3. CheckpointOK(d)'
          BY <2>2, <2>3, <5>1, <5>2 DEF CheckpointsOK
        <5> QED
          BY <3>5, <5>1, <5>2, <5>3 DEF CheckpointOK
      <4> QED
        BY <4>1, <4>2
    <3>7. ASSUME NEW k \in 2 .. n + 1
          PROVE  /\ checkpoints'[k].now.files >= checkpoints'[k - 1].now.files
                 /\ <<checkpoints'[k].now.files, checkpoints'[k].now.fragments>>
                       # <<checkpoints'[k - 1].now.files, checkpoints'[k - 1].now.fragments>>
      <4>1. CASE k = n + 1
        <5>1. k - 1 = n /\ n \in 1 .. n
          BY <4>1
        <5>2. PICK d : d = checkpoints[n]
          OBVIOUS
        <5>3. CheckpointOK(d) /\ checkpoints # <<>> /\ checkpoints'[k - 1] = d
          BY <5>1, <5>2, <2>3, <3>5 DEF CheckpointsOK
        <5>4. d.now.files \in Nat /\ d.now.files <= now.files
          BY <5>3, <2>1 DEF CheckpointOK, Progress
        <5>5. ~(d.now.fragments = now.fragments /\ d.now.files = now.files)
          BY <2>5, <2>3, <5>2, <5>3 DEF Repeats, Last
        <5>6. checkpoints'[k] = c /\ c.now = now
          BY <4>1, <3>1, <3>5
        <5> QED
          BY <5>3, <5>4, <5>5, <5>6, <2>1
      <4>2. CASE k # n + 1
        <5>1. k \in 2 .. n /\ k \in 1 .. n /\ k - 1 \in 1 .. n
          BY <4>2
        <5> QED
          BY <5>1, <2>3, <3>5 DEF CheckpointsOK
      <4> QED
        BY <4>1, <4>2
    <3>8. at'.step = "end" =>
             checkpoints'[n + 1].now.files = L /\ checkpoints'[n + 1].now.fragments = Expected
      BY <2>4, <3>1, <3>5
    <3>9. Len(manifest)' = L
      BY <1>3
    <3>10. Len(checkpoints') = n + 1 /\ checkpoints' # <<>>
      BY <3>5
    <3> QED
      BY <3>5, <3>6, <3>7, <3>8, <3>9, <3>10, <1>9 DEF CheckpointsOK
  <2>6. CASE ~(publish /\ ~Repeats(now) /\ Fitting)
    <3>1. /\ checkpoints' = checkpoints
          /\ publish /\ job' # "failed" => Repeats(now)
      BY <2>6, <1>7 DEF Advance
    <3>2. ASSUME NEW k \in 1 .. n PROVE CheckpointOK(checkpoints[k])'
      <4>1. PICK d : d = checkpoints[k]
        OBVIOUS
      <4>2. CheckpointOK(d)'
        BY <2>2, <2>3, <4>1 DEF CheckpointsOK
      <4> QED
        BY <4>1, <4>2, <3>1 DEF CheckpointOK
    <3>3. at'.step = "end" /\ job' # "failed" =>
             /\ checkpoints # <<>>
             /\ checkpoints[n].now.files = L /\ checkpoints[n].now.fragments = Expected
      BY <2>3, <2>4, <3>1 DEF Repeats, Last
    <3> QED
      BY <2>3, <3>1, <3>2, <3>3, <1>3, <1>9, <1>1 DEF CheckpointsOK, vars
  <2> QED
    BY <2>5, <2>6
<1> QED
  BY <1>11, <1>12, <1>15, <1>16

\* What comes before a fragment is added counts nothing.
LEMMA PlaceMoves ==
    ASSUME StoreInv, PlaceOK, StatesOK, CheckpointsOK,
           UNCHANGED <<manifest, unit, progress, states, checkpoints>>,
           at'.file = at.file, at'.fragment = at.fragment,
           at.step \in {"file", "metadata", "fragment"},
           at'.step \in {"metadata", "fragment"},
           at'.step = "metadata" => at.step # "fragment"
    PROVE  PlaceOK' /\ StatesOK' /\ CheckpointsOK'
<1>1. UNCHANGED <<manifest, unit>>
  OBVIOUS
<1>2. /\ Pieces' = Pieces /\ Expected' = Expected /\ Before(at.file)' = Before(at.file)
      /\ File' = File /\ Fragments' = Fragments
  <2>1. Pieces' = Pieces /\ Expected' = Expected
    BY <1>1, CellsStay
  <2>2. Before(at.file)' = Before(at.file)
    BY <2>1 DEF Before
  <2> QED
    BY <2>1, <2>2, <1>1 DEF File, Fragments
<1>3. PlaceOK'
  BY <1>2 DEF PlaceOK
<1>4. StatesOK'
  <2>1. Present = 0 /\ Present' = 0
    BY DEF Present
  <2>2. PICK n : n = progress.fragments + 0
    OBVIOUS
  <2>3. PICK c : c = Cells(n)
    OBVIOUS
  <2>4. Cells(progress.fragments + Present) = c
    BY <2>1, <2>2, <2>3
  <2>5. Cells(progress.fragments + Present)' = c
    BY <1>2, <2>1, <2>2, <2>3 DEF Cells, Number, Frozen
  <2>6. Aggregates(states, c)' <=> Aggregates(states, c)
    BY <1>1, CellsStay DEF Aggregates
  <2> QED
    BY <2>4, <2>5, <2>6 DEF StatesOK, Aggregates
<1>5. CheckpointsOK'
  <2>1. \A c : CheckpointOK(c)' <=> CheckpointOK(c)
    BY <1>1, <1>2, CellsStay DEF CheckpointOK
  <2>2. ASSUME NEW i \in 1 .. Len(checkpoints) PROVE CheckpointOK(checkpoints[i])'
    <3>1. PICK c : c = checkpoints[i]
      OBVIOUS
    <3>2. CheckpointOK(c)'
      BY <2>1, <3>1 DEF CheckpointsOK
    <3> QED
      BY <3>1, <3>2 DEF CheckpointOK
  <2> QED
    BY <2>2, <1>2 DEF CheckpointsOK
<1> QED
  BY <1>3, <1>4, <1>5

LEMMA AnalysisKept ==
    ASSUME ScanInv, AnalysisInv, [Next]_allVars
    PROVE  AnalysisInv'
<1>1. UNCHANGED <<manifest, limit, kind, unit, preview>> /\ moved \subseteq moved'
  BY GivenStays
<1>2. job = "failed" => job' = "failed"
  BY Stopped
<1>3. SUFFICES ASSUME kind = "analysis"
               PROVE  /\ PlaceOK' /\ SeenOK' /\ StatesOK' /\ CheckpointsOK'
                      /\ job' = "completed" => at'.step = "end"
  BY <1>1 DEF AnalysisInv
<1>4. PlaceOK /\ SeenOK /\ StatesOK /\ CheckpointsOK /\ (job = "completed" => at.step = "end")
  BY <1>3 DEF AnalysisInv
<1>5. /\ StoreInv /\ at \in Places /\ \A r \in Readers : reader[r] # Idle => r = Single
      /\ Single \in Readers /\ reader \in [Readers -> Requests]
  BY <1>3, ScanConstants DEF ScanInv, JobInv, StoreInv, ReadersOK
<1>6. ASSUME UNCHANGED <<at, progress, states, checkpoints>>
      PROVE  PlaceOK' /\ StatesOK' /\ CheckpointsOK'
  BY <1>1, <1>2, <1>4, <1>5, <1>6, AnalysisStays
<1>7. ASSUME UNCHANGED <<reader, seen, at>> PROVE SeenOK'
  BY <1>1, <1>4, <1>7 DEF SeenOK, File
<1>8. CASE Start \/ Stop \/ Finish \/ UNCHANGED allVars
  <2>1. UNCHANGED <<at, progress, states, checkpoints, reader, seen>>
    BY <1>8 DEF Start, Stop, Finish, allVars, jobVars, vars, analysis
  <2>2. job' = "completed" => at'.step = "end"
    BY <1>4, <1>8 DEF Start, Stop, Finish, Analyzing, allVars, jobVars, request, analysis
  <2> QED
    BY <2>1, <2>2, <1>6, <1>7
<1>9. CASE Prepare \/ Surroundings
  <2>1. UNCHANGED <<at, progress, states, checkpoints, reader, seen, job>>
    BY <1>9 DEF Prepare, Register, Surroundings, Disturb, Change, Rot, jobVars, request, analysis
  <2> QED
    BY <2>1, <1>4, <1>6, <1>7
<1>10. ASSUME NEW r \in Readers, Abandon(r)
       PROVE  /\ PlaceOK' /\ SeenOK' /\ StatesOK' /\ CheckpointsOK'
              /\ job' = "completed" => at'.step = "end"
  <2>1. UNCHANGED <<at, progress, states, checkpoints, seen, job>> /\ Drop(r)
    BY <1>10 DEF Abandon, jobVars, request, analysis
  <2>2. r = Single
    BY <2>1, <1>5, FileStays
  <2>3. PICK new \in SUBSET Contents : new = {}
    OBVIOUS
  <2>4. SeenOK'
    BY <2>1, <2>2, <2>3, <1>1, <1>4, SeenStays
  <2> QED
    BY <2>1, <2>4, <1>4, <1>6
<1>11. CASE Query
  <2>1. kind = "query"
    BY <1>11 DEF Query, Complete, Ask, Work
  <2> QED
    BY <2>1, <1>3
<1>12. CASE Receive
  <2>1. /\ UNCHANGED <<at, progress, states, checkpoints, job>> /\ Serve(Single)
    BY <1>12 DEF Receive, Serve, request
  <2>2. PICK new : /\ seen' = seen \cup new
                   /\ \/ /\ EndRanges(Single) \/ EndChunk(Single) \/ Insert(Single)
                         /\ new = reader[Single].got
                      \/ /\ TakeCached(Single)
                         /\ new = UNION {cache[i].got : i \in Cached(reader[Single].file)}
    BY <1>12 DEF Receive
  <2>3. new \in SUBSET Contents
    <3>1. reader[Single] \in Requests
      BY <1>5
    <3>2. CASE EndRanges(Single) \/ EndChunk(Single) \/ Insert(Single)
      <4>1. reader[Single].at \in {"ranges", "chunk", "insert"} /\ new = reader[Single].got
        BY <2>2, <3>2 DEF EndRanges, EndChunk, Insert, TakeCached
      <4> QED
        BY <3>1, <4>1, RequestFields
    <3>3. CASE TakeCached(Single)
      <4>1. new = UNION {cache[i].got : i \in Cached(reader[Single].file)}
        BY <2>2, <3>3 DEF EndRanges, EndChunk, Insert, TakeCached
      <4>2. \A i \in 1 .. Len(cache) : cache[i].got \in SUBSET Contents
        <5>1. cache \in Entries
          BY <1>5 DEF StoreInv, ReadersOK
        <5>2. \A i \in 1 .. Len(cache) : cache[i] \in [file : Files, got : SUBSET Contents]
          BY <5>1, ElementsTyped DEF Entries
        <5> QED
          BY <5>2
      <4> QED
        BY <4>1, <4>2 DEF Cached
    <3> QED
      BY <2>2, <3>2, <3>3
  <2>4. "changed" \in new => reader[Single].file \in moved
    BY <2>2, <2>3, ReceivedOK
  <2>5. SeenOK'
    BY <2>1, <2>2, <2>3, <2>4, <1>1, <1>4, SeenStays
  <2> QED
    BY <2>1, <2>5, <1>4, <1>6
<1>13. CASE Await
  <2>1. /\ UNCHANGED <<at, progress, states, checkpoints, seen, job>> /\ Serve(Single)
    BY <1>13 DEF Await, Serve, jobVars, request, analysis
  <2>2. PICK new \in SUBSET Contents : new = {}
    OBVIOUS
  <2>3. SeenOK'
    BY <2>1, <2>2, <1>1, <1>4, SeenStays
  <2> QED
    BY <2>1, <2>3, <1>4, <1>6
<1>14. CASE NextFile
  <2>1. /\ at.step = "file" /\ job = "running" /\ UNCHANGED <<progress, states, checkpoints, seen, reader>>
        /\ job' # "completed"
        /\ at' = at \/ at' = [at EXCEPT !.step = "metadata"]
    BY <1>14 DEF NextFile, Analyzing, vars
  <2>2. CASE at' = at
    BY <2>1, <2>2, <1>6, <1>7
  <2>3. CASE at' = [at EXCEPT !.step = "metadata"]
    <3>1. at'.step = "metadata" /\ at'.file = at.file /\ at'.fragment = at.fragment
      BY <2>3, <1>5 DEF Places
    <3>2. PlaceOK' /\ StatesOK' /\ CheckpointsOK'
      BY <2>1, <3>1, <1>1, <1>4, <1>5, PlaceMoves
    <3>3. SeenOK'
      BY <2>1, <3>1, <1>1, <1>4 DEF SeenOK, File, AtFragment
    <3> QED
      BY <2>1, <3>2, <3>3
  <2> QED
    BY <2>1, <2>2, <2>3
<1>15. CASE Read
  <2>1. /\ at.step \in AtFragment /\ job = "running" /\ job' = "running"
        /\ UNCHANGED <<progress, states, checkpoints>> /\ seen' = {}
        /\ at' = [at EXCEPT !.reading = TRUE]
    BY <1>15 DEF Read, Analyzing, request, AtFragment
  <2>2. at'.step = at.step /\ at'.file = at.file /\ at'.fragment = at.fragment
    BY <2>1, <1>5 DEF Places
  <2>3. PlaceOK' /\ StatesOK' /\ CheckpointsOK'
    BY <2>1, <2>2, <1>1, <1>4, <1>5, PlaceMoves DEF AtFragment
  <2>4. reader'[Single].at \notin {"idle", "failed", "gone"} => reader'[Single].file = File
    <3>1. PICK n \in 1 .. Size[File] :
             GetRanges(Single, File, n) \/ GetPart(Single, File) \/ GetStream(Single, File, n)
      BY <1>15 DEF Read
    <3>2. PICK q : /\ Step(Single, q)
                   /\ q = Failed \/ q.file = File
      BY <3>1 DEF GetRanges, GetPart, GetStream, Fail
    <3>3. reader'[Single] = q
      BY <3>2, <1>5 DEF Step
    <3> QED
      BY <3>2, <3>3, RequestShapes
  <2>5. SeenOK'
    BY <2>1, <2>2, <2>4, <1>1 DEF SeenOK, File
  <2> QED
    BY <2>1, <2>3, <2>5
<1>16. CASE Metadata
  <2>1. /\ at.step = "metadata" /\ job = "running" /\ job' = "running"
        /\ UNCHANGED <<progress, states, checkpoints, seen, reader>>
        /\ at' = [at EXCEPT !.step = "fragment", !.fragment = 1, !.reading = FALSE]
    BY <1>16 DEF Metadata, Analyzing, vars, request
  <2>2. at'.step = "fragment" /\ at'.file = at.file /\ at'.fragment = at.fragment
    <3>1. at.fragment = 1
      BY <2>1, <1>4 DEF PlaceOK
    <3> QED
      BY <2>1, <3>1, <1>5 DEF Places
  <2>3. PlaceOK' /\ StatesOK' /\ CheckpointsOK'
    BY <2>1, <2>2, <1>1, <1>4, <1>5, PlaceMoves
  <2>4. SeenOK'
    BY <2>1, <2>2, <1>1, <1>4 DEF SeenOK, File, AtFragment
  <2> QED
    BY <2>1, <2>3, <2>4
<1>17. CASE Accumulate
  <2>1. job' # "completed"
    BY <1>17 DEF Accumulate, Analyzing
  <2> QED
    BY <2>1, <1>1, <1>3, <1>4, <1>17, AccumulateKept
<1>18. ASSUME NEW publish \in BOOLEAN, Advance(publish)
       PROVE  /\ PlaceOK' /\ SeenOK' /\ StatesOK' /\ CheckpointsOK'
              /\ job' = "completed" => at'.step = "end"
  <2>1. job' # "completed"
    BY <1>18 DEF Advance, Analyzing
  <2> QED
    BY <2>1, <1>1, <1>3, <1>4, <1>18, AdvanceKept
<1> QED
  BY <1>8, <1>9, <1>10, <1>11, <1>12, <1>13, <1>14, <1>15, <1>16, <1>17, <1>18
  DEF Next, Analysis

LEMMA AskedKept ==
    ASSUME ScanInv, AskedInv, [Next]_allVars
    PROVE  AskedInv'
<1>1. UNCHANGED <<manifest, limit, kind, unit, preview>>
  BY GivenStays
<1>2. CASE Prepare
  BY <1>1, <1>2 DEF AskedInv, Prepare, Register, jobVars
<1>3. ASSUME NEW r \in Readers, Ask(r) PROVE AskedInv'
  <2>1. UNCHANGED refused /\ asked < MaxRequests /\ asked' = asked + 1
    BY <1>3 DEF Ask, Request, GetRanges, GetStream, GetPart
  <2>2. asked' \in 0 .. MaxRequests
    BY <2>1, JobConstants DEF AskedInv
  <2> QED
    BY <1>1, <2>1, <2>2 DEF AskedInv
<1>4. ASSUME UNCHANGED <<refused, asked>> PROVE AskedInv'
  BY <1>1, <1>4 DEF AskedInv
<1>5. CASE Start \/ Stop \/ Complete \/ NextFile \/ Metadata \/ Accumulate \/ Finish
           \/ (\E publish \in BOOLEAN : Advance(publish)) \/ UNCHANGED allVars
  <2>1. UNCHANGED <<refused, asked>>
    BY <1>5 DEF Start, Stop, Complete, NextFile, Metadata, Accumulate, Finish, Advance, allVars,
       vars, jobVars
  <2> QED
    BY <2>1, <1>4
<1>6. CASE Surroundings \/ Read \/ \E r \in Readers : Abandon(r)
  <2>1. UNCHANGED <<refused, asked>>
    BY <1>6 DEF Surroundings, Disturb, Change, Rot, Read, GetRanges, GetStream, GetPart, Abandon, Drop,
       jobVars
  <2> QED
    BY <2>1, <1>4
<1>7. CASE Receive \/ Await \/ \E r \in Readers : Work(r)
  <2>1. UNCHANGED asked
    BY <1>7 DEF Receive, Await, Work, jobVars
  <2>2. \E r \in Readers : Serve(r)
    BY <1>7, ScanConstants DEF Receive, Await, Work, Serve
  <2> QED
    BY <2>1, <2>2, <1>4, ServedHaveWork
<1> QED
  BY <1>2, <1>3, <1>5, <1>6, <1>7 DEF Next, Query, Analysis

LEMMA QueryKept ==
    ASSUME ScanInv, QueryInv, [Next]_allVars
    PROVE  QueryInv'
<1>1. UNCHANGED <<manifest, limit, kind, unit, preview>>
  BY GivenStays
<1>2. SUFFICES ASSUME kind = "query" PROVE UNCHANGED analysis
  <2>1. Expected' = Expected
    BY <1>1, CellsStay
  <2> QED
    BY <1>1, <2>1 DEF QueryInv, analysis
<1>3. ~Analysis
  BY <1>2 DEF Analysis, NextFile, Read, Receive, Await, Metadata, Accumulate, Finish, Advance, Analyzing
<1> QED
  BY <1>3 DEF Next, Query, Start, Prepare, Stop, Abandon, Complete, Ask, Work, Surroundings, allVars,
     jobVars

LEMMA InitAnalysis == JobInit => AnalysisInv /\ QueryInv /\ AskedInv
<1> SUFFICES ASSUME JobInit PROVE AnalysisInv /\ QueryInv /\ AskedInv
  OBVIOUS
<1>1. ScanInv
  BY InitScan
<1>2. manifest \in Seq(Registration) /\ Len(manifest) \in Nat
  BY <1>1, ManifestTyped DEF ScanInv
<1>3. AskedInv
  <2>1. unit \in Units /\ preview \in Previews /\ limit \in Limits /\ refused = FALSE /\ asked = 0
    BY DEF JobInit, Init
  <2>2. MaxRequests \in Nat /\ 0 \in 0 .. MaxRequests
    BY JobConstants
  <2> QED
    BY <2>1, <2>2, JobConstants DEF AskedInv
<1>4. QueryInv
  BY DEF JobInit, QueryInv
<1>5. ASSUME kind = "analysis"
      PROVE  PlaceOK /\ SeenOK /\ StatesOK /\ CheckpointsOK
  <2>1. /\ at = Unread /\ manifest # <<>> /\ seen = {} /\ checkpoints = <<>>
        /\ states = [sum |-> 0, count |-> 0] /\ reader[Single] = Idle
        /\ progress = [fragments |-> 0, files |-> 0, total |-> Expected, rows |-> 0]
    BY <1>5, ScanConstants DEF JobInit, Init
  <2>2. at.step = "file" /\ at.file = 1 /\ at.fragment = 1
    BY <2>1 DEF Unread
  <2>3. 1 \in 1 .. Len(manifest)
    BY <2>1, <1>2
  <2>4. Expected \in Nat /\ Before(1) = 0
    <3>1. Len(manifest) + 1 \in 1 .. Len(manifest) + 1
      BY <1>2
    <3> QED
      BY <1>2, <3>1, BeforeSteps
  <2>5. 1 \in 1 .. Fragments
    <3>1. PICK p \in Nat : p = Pieces[at.file] /\ Fragments = IF p = 0 THEN 1 ELSE p
      BY <1>2, <2>2, <2>3, FragmentsCounted
    <3> QED
      BY <3>1
  <2>6. PlaceOK
    <3>1. progress \in Progress
      BY <2>1, <2>4 DEF Progress
    <3>2. 0 = Before(1) + 1 - 1
      BY <2>4
    <3> QED
      BY <2>1, <2>2, <2>3, <2>5, <3>1, <3>2 DEF PlaceOK
  <2>7. SeenOK
    BY <2>1, <2>2, RequestShapes DEF SeenOK
  <2>8. StatesOK
    <3>1. Present = 0 /\ progress.fragments + 0 = 0
      BY <2>1, <2>2 DEF Present
    <3>2. Cells(progress.fragments + Present) = {}
      BY <3>1, <1>2, NoCells
    <3>3. states \in Counted
      BY <2>1 DEF Counted
    <3> QED
      BY <2>1, <3>2, <3>3, NothingValued, FS_EmptySet DEF StatesOK
  <2>9. CheckpointsOK
    BY <2>1, <2>2 DEF CheckpointsOK
  <2> QED
    BY <2>6, <2>7, <2>8, <2>9
<1>6. job # "completed"
  BY DEF JobInit
<1> QED
  BY <1>3, <1>4, <1>5, <1>6 DEF AnalysisInv

\* What an analysis publishes is the exact count, sum and average of the rows
\* of the fragments it counts, whatever changes while it reads, each checkpoint
\* tells more than the one before it, and the last one of a job that completes
\* counts them all (aggregate.rs, execute).
THEOREM CheckpointsAreExact == Spec => []CheckpointsExact
<1>1. JobInit => AnalysisInv /\ QueryInv
  BY InitAnalysis
<1>2. ScanInv /\ AnalysisInv /\ QueryInv /\ [Next]_allVars => AnalysisInv' /\ QueryInv'
  BY AnalysisKept, QueryKept
<1>3. ScanInv /\ AnalysisInv /\ QueryInv => CheckpointsExact
  <2> SUFFICES ASSUME ScanInv, AnalysisInv, QueryInv PROVE CheckpointsExact
    OBVIOUS
  <2>1. CASE kind = "query"
    <3>1. checkpoints = <<>> /\ Len(checkpoints) = 0
      BY <2>1 DEF QueryInv
    <3> QED
      BY <2>1, <3>1 DEF CheckpointsExact
  <2>2. CASE kind = "analysis"
    <3>1. CheckpointsOK /\ (job = "completed" => at.step = "end")
      BY <2>2 DEF AnalysisInv
    <3>2. PICK n \in Nat : n = Len(checkpoints)
      BY <3>1 DEF CheckpointsOK
    <3>3. ASSUME NEW i \in 1 .. n
          PROVE  /\ Exact(checkpoints[i].now, checkpoints[i].shown)
                 /\ checkpoints[i].now.fragments <= checkpoints[i].now.total
      BY <3>1, <3>2 DEF CheckpointsOK, CheckpointOK
    <3>4. ASSUME NEW i \in 1 .. n, i > 1
          PROVE  /\ checkpoints[i].now.files >= checkpoints[i - 1].now.files
                 /\ <<checkpoints[i].now.files, checkpoints[i].now.fragments>>
                       # <<checkpoints[i - 1].now.files, checkpoints[i - 1].now.fragments>>
      <4>1. i \in 2 .. n
        BY <3>4
      <4> QED
        BY <4>1, <3>1, <3>2 DEF CheckpointsOK
    <3>5. ASSUME job = "completed"
          PROVE  /\ checkpoints # <<>> /\ Last(checkpoints).now.files = Len(manifest)
                 /\ Last(checkpoints).now.fragments = Expected
                 /\ Last(checkpoints).now.total = Expected
      <4>1. /\ checkpoints # <<>> /\ checkpoints[n].now.files = Len(manifest)
            /\ checkpoints[n].now.fragments = Expected
        BY <3>1, <3>2, <3>5 DEF CheckpointsOK
      <4>2. n \in 1 .. n
        BY <4>1, <3>1, <3>2 DEF CheckpointsOK
      <4>3. checkpoints[n].now.total = Expected
        BY <4>2, <3>1, <3>2 DEF CheckpointsOK, CheckpointOK
      <4> QED
        BY <4>1, <4>3, <3>2 DEF Last
    <3> QED
      BY <3>2, <3>3, <3>4, <3>5 DEF CheckpointsExact
  <2> QED
    BY <2>1, <2>2 DEF ScanInv, JobInv
<1> QED
  BY <1>1, <1>2, <1>3, ScanInductive, PTL DEF Spec

\* Every variable keeps its type (the sum is an i128 that never wraps).
THEOREM JobTypesHold == Spec => []JobTypeOK
<1>1. JobInit => AnalysisInv /\ QueryInv /\ AskedInv /\ BudgetInv
  BY InitAnalysis, BudgetInit
<1>2. /\ ScanInv /\ AnalysisInv /\ QueryInv /\ AskedInv /\ [Next]_allVars
            => AnalysisInv' /\ QueryInv' /\ AskedInv'
      /\ ScanInv /\ ScanInv' /\ BudgetInv /\ [Next]_allVars => BudgetInv'
  BY AnalysisKept, QueryKept, AskedKept, BudgetKeptByNext
<1>3. ScanInv /\ AnalysisInv /\ QueryInv /\ AskedInv /\ BudgetInv => JobTypeOK
  <2> SUFFICES ASSUME ScanInv, AnalysisInv, QueryInv, AskedInv, BudgetInv PROVE JobTypeOK
    OBVIOUS
  <2>1. StoreTypeOK
    <3>1. delivered \subseteq Deliveries
      BY DEF ScanInv, StoreInv, ReadersOK, DeliveryOK
    <3>2. holder \in Readers \cup {NoReader} /\ cached \in Nat
      BY DEF BudgetInv, LockOK, CacheOK
    <3>3. sourceBytes \in Nat /\ resultBytes \in Nat
      BY DEF BudgetInv, CountsOK
    <3> QED
      BY <3>1, <3>2, <3>3 DEF ScanInv, StoreInv, DiskOK, SetupOK, CountersOK, ReadersOK, AskedInv,
         StoreTypeOK, Rules, Entries
  <2>2. /\ job \in {"starting", "running", "completed", "failed"} /\ kind \in {"query", "analysis"}
        /\ at \in Places /\ (kind = "analysis" => at.file <= Len(manifest))
    BY DEF ScanInv, JobInv
  <2>3. manifest \in Seq(Registration) /\ Len(manifest) \in Nat
    BY ManifestTyped DEF ScanInv
  <2>4. /\ seen \subseteq Contents /\ states \in [sum : -SumTop .. SumTop - 1, count : Nat]
        /\ progress \in [fragments : Nat, files : 0 .. Len(manifest), total : Nat, rows : Nat]
    <3>1. CASE kind = "query"
      <4>1. SumTop \in Nat /\ 0 \in -SumTop .. SumTop - 1
        BY JobAssumption DEF JobAssumption
      <4>2. Expected \in Nat
        <5>1. Len(manifest) + 1 \in 1 .. Len(manifest) + 1
          BY <2>3
        <5> QED
          BY <2>3, <5>1, BeforeSteps
      <4>3. 0 \in 0 .. Len(manifest)
        BY <2>3
      <4> QED
        BY <3>1, <4>1, <4>2, <4>3 DEF QueryInv
    <3>2. CASE kind = "analysis"
      <4>1. PlaceOK /\ SeenOK /\ StatesOK
        BY <3>2 DEF AnalysisInv
      <4>2. states \in Counted /\ states.sum \in Sums
        BY <4>1 DEF StatesOK, Aggregates
      <4>3. progress \in Progress /\ progress.files \in 0 .. Len(manifest)
        BY <4>1, <2>3 DEF PlaceOK
      <4> QED
        BY <4>1, <4>2, <4>3 DEF SeenOK, Counted, Sums, Progress
    <3> QED
      BY <3>1, <3>2, <2>2
  <2> QED
    BY <2>1, <2>2, <2>4 DEF JobTypeOK, AskedInv, Places
<1> QED
  BY <1>1, <1>2, <1>3, ScanInductive, PTL DEF Spec
=============================================================================
