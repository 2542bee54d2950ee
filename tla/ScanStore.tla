------------------------------ MODULE ScanStore ------------------------------
(***************************************************************************)
(* The object store through which a worker reads its input: only the files *)
(* of the manifest, within one byte budget, and managed files only after   *)
(* their digest was checked, from a small cache of verified parts.         *)
(*                                                                         *)
(* Sources: crates/runtime/src/{store,sources,results}.rs.                 *)
(*                                                                         *)
(* The partitions of a query read at the same time.  A reader is one       *)
(* request of one partition, and a step is what happens between two points *)
(* where it awaits or where another thread can see what it did; bytes are  *)
(* read one by one, by a blocking task that nothing can interrupt.  Inline *)
(* parts differ from part files only in where their bytes lie.             *)
(***************************************************************************)
EXTENDS Naturals, Sequences, FiniteSets, Functions

CONSTANTS
    Files,         \* paths
    Managed,       \* those inside the workspace
    Size,          \* bytes of a file
    Readers,       \* partitions
    NoReader,
    Manifests,     \* what a job may be given to read: sequences of registrations
    Limits,        \* scan_bytes that jobs ask for
    Batch,         \* bytes one ranges request reads at once
    Chunk,         \* bytes one step of a stream reads
    CacheBytes,    \* bytes of verified parts kept, and the most one may have
    CacheEntries,  \* number of verified parts kept
    MaxChanges     \* bound: changes of files

Contents == {"frozen", "changed"}  \* the bytes the manifest froze, and others
Registration == [file : Files, digest : Contents \cup {"none"}, source : BOOLEAN]

ASSUME FilesAssumption ==
    /\ IsFiniteSet(Files) /\ IsFiniteSet(Readers)
    /\ Managed \subseteq Files /\ Size \in [Files -> Nat] /\ NoReader \notin Readers
    /\ Manifests \subseteq Seq(Registration)
\* Files outside the workspace have no digest, and a managed one is opened as
\* if it were outside only beside a name with its digest.  That is of the bytes
\* that were frozen; another one for the same file contradicts it.
ASSUME ManifestAssumption ==
    \A given \in Manifests : \A i \in 1 .. Len(given) :
       LET also(digests) == \E j \in 1 .. Len(given) : /\ given[j].file = given[i].file
                                                       /\ given[j].digest \in digests
       IN  /\ given[i].digest = "none" =>
                 given[i].source /\ (given[i].file \in Managed => also(Contents))
           /\ given[i].digest = "changed" => also({"frozen"})
ASSUME LimitsAssumption ==
    /\ Limits \subseteq Nat /\ Batch \in Nat /\ Chunk \in Nat \ {0}
    /\ CacheBytes \in Nat /\ CacheEntries \in Nat \ {0} /\ MaxChanges \in Nat

VARIABLES
    \* files
    content,      \* what a file holds
    moved,        \* files whose size, inode or time is no longer what was frozen
    \* CountStore
    manifest,     \* the files it is made from
    registered,   \* how many of them it has taken in
    refused,      \* whether they contradict each other
    allowed,      \* digest and owner of a path; none before it is registered
    limit,
    holder,       \* who has locked the verified parts
    cache,        \* verified parts, the least recently used first
    cached,       \* VerifiedCache.bytes
    \* Counters
    reserved, sourceBytes, resultBytes,
    \* requests
    reader,       \* where each stands
    delivered     \* what readers were given: [file, how, content]

disk == <<content, moved>>
setup == <<manifest, registered, refused, allowed, limit>>
verified == <<holder, cache, cached>>
counters == <<reserved, sourceBytes, resultBytes>>
vars == <<disk, setup, verified, counters, reader, delivered>>

Unknown == [digest |-> "unknown", source |-> TRUE]
Idle == [at |-> "idle"]
Failed == [at |-> "failed"]
Gone == [at |-> "gone"]

Init ==
    /\ content = [f \in Files |-> "frozen"]
    /\ moved = {}
    /\ manifest \in Manifests /\ registered = 0 /\ refused = FALSE
    /\ allowed = [f \in Files |-> Unknown]
    /\ limit \in Limits
    /\ holder = NoReader /\ cache = <<>> /\ cached = 0
    /\ reserved = 0 /\ sourceBytes = 0 /\ resultBytes = 0
    /\ reader = [r \in Readers |-> Idle]
    /\ delivered = {}

(***************************************************************************)
(* CountStore::new takes in one file after the other.  Two names of one    *)
(* path are one file, managed when one of them says so.                    *)
(***************************************************************************)
Contradicts(f, digest) ==
    /\ allowed[f].digest \notin {"unknown", "none"} /\ digest # "none"
    /\ allowed[f].digest # digest

\* A mistake new does not make: the last name of a path counts.
MergedLast(f, digest, source) == [digest |-> digest, source |-> source]

Merged(f, digest, source) ==
    LET known == allowed[f]
    IN  [digest |-> IF known.digest \in {"unknown", "none"} THEN digest ELSE known.digest,
         source |-> known.source /\ source]

Register ==
    /\ registered < Len(manifest) /\ ~refused
    /\ LET next == manifest[registered + 1]
       IN  IF Contradicts(next.file, next.digest)
           THEN refused' = TRUE /\ UNCHANGED <<registered, allowed>>
           ELSE /\ allowed' = [allowed EXCEPT ![next.file] =
                                  Merged(next.file, next.digest, next.source)]
                /\ registered' = registered + 1
                /\ UNCHANGED refused
    /\ UNCHANGED <<disk, manifest, limit, verified, counters, reader, delivered>>

Open == registered = Len(manifest) /\ ~refused

(***************************************************************************)
(* What readers have in common.                                            *)
(***************************************************************************)
\* SourceFile::validate
Unmoved(f) == f \notin moved

\* A mistake fetch_update does not make: the new bytes are not counted.
FitsBefore(n) == reserved <= limit

\* The condition of every fetch_update on the reserved bytes.
Fits(n) == reserved + n <= limit

Reserve(n) == reserved' = reserved + n

Step(r, to) == reader' = [reader EXCEPT ![r] = to]
Give(r, how, got) ==
    delivered' = delivered \cup {[file |-> reader[r].file, how |-> how, content |-> c] : c \in got}

\* source_bytes or result_bytes, as registered.
Count(f, n) ==
    IF allowed[f].source THEN sourceBytes' = sourceBytes + n /\ UNCHANGED resultBytes
                         ELSE resultBytes' = resultBytes + n /\ UNCHANGED sourceBytes

Release(r) == holder' = IF holder = r THEN NoReader ELSE holder

\* An error ends the request; whoever holds the lock lets go of it, and what
\* was reserved stays reserved.
Fail(r) ==
    /\ Step(r, Failed)
    /\ Release(r)
    /\ UNCHANGED <<cache, cached, counters, delivered>>

\* One more byte of those a blocking task reads.
Reads == {"ranges", "chunk", "load", "detached"}
ReadByte(r) ==
    LET request == reader[r]
    IN  /\ request.at \in Reads /\ request.left > 0
        /\ Step(r, [request EXCEPT !.left = @ - 1, !.got = @ \cup {content[request.file]}])
        /\ IF request.at \in {"ranges", "detached"}
           THEN Count(request.file, 1) ELSE UNCHANGED <<sourceBytes, resultBytes>>
        /\ UNCHANGED <<disk, setup, verified, reserved, delivered>>

\* The file became shorter, or is no more.
ReadFails(r) ==
    /\ reader[r].at \in Reads \ {"detached"} /\ ~Unmoved(reader[r].file)
    /\ Fail(r)
    /\ UNCHANGED <<disk, setup>>

(***************************************************************************)
(* get_ranges on a file without a digest, at most Batch bytes: one         *)
(* blocking task between two looks at the file.                            *)
(***************************************************************************)
GetRanges(r, f, n) ==
    /\ Open /\ reader[r] = Idle
    /\ allowed[f].digest = "none" /\ n <= Size[f] /\ n <= Batch
    /\ IF Unmoved(f) /\ Fits(n)
       THEN /\ Reserve(n)
            /\ Step(r, [at |-> "ranges", file |-> f, left |-> n, got |-> {}])
            /\ UNCHANGED <<verified, sourceBytes, resultBytes, delivered>>
       ELSE Fail(r)
    /\ UNCHANGED <<disk, setup>>

\* A mistake get_ranges does not make: it looks at the file only before.
EndRangesUnchecked(r) ==
    /\ reader[r].at = "ranges" /\ reader[r].left = 0
    /\ Step(r, Idle) /\ Give(r, "ranges", reader[r].got)
    /\ UNCHANGED <<verified, counters>>
    /\ UNCHANGED <<disk, setup>>

EndRanges(r) ==
    /\ reader[r].at = "ranges" /\ reader[r].left = 0
    /\ IF Unmoved(reader[r].file)
       THEN /\ Step(r, Idle) /\ Give(r, "ranges", reader[r].got)
            /\ UNCHANGED <<verified, counters>>
       ELSE Fail(r)
    /\ UNCHANGED <<disk, setup>>

(***************************************************************************)
(* get_opts on a file without a digest: a stream of chunks, each of which  *)
(* is reserved when it is asked for.  Only the start looks at the file.    *)
(***************************************************************************)
GetStream(r, f, n) ==
    /\ Open /\ reader[r] = Idle
    /\ allowed[f].digest = "none" /\ n <= Size[f]
    /\ IF Unmoved(f)
       THEN /\ Step(r, [at |-> "stream", file |-> f, rest |-> n])
            /\ UNCHANGED <<verified, counters, delivered>>
       ELSE Fail(r)
    /\ UNCHANGED <<disk, setup>>

NextChunk(r) ==
    LET rest == reader[r].rest
        n == IF rest <= Chunk THEN rest ELSE Chunk
    IN  /\ reader[r].at = "stream" /\ rest > 0
        /\ IF Fits(n)
           THEN /\ Reserve(n)
                /\ Step(r, [at |-> "chunk", file |-> reader[r].file, rest |-> rest - n,
                            size |-> n, left |-> n, got |-> {}])
                /\ UNCHANGED <<verified, sourceBytes, resultBytes, delivered>>
           ELSE Fail(r)
        /\ UNCHANGED <<disk, setup>>

EndChunk(r) ==
    LET request == reader[r]
    IN  /\ request.at = "chunk" /\ request.left = 0
        /\ Step(r, [at |-> "stream", file |-> request.file, rest |-> request.rest])
        /\ Give(r, "stream", request.got)
        /\ Count(request.file, request.size)
        /\ UNCHANGED <<disk, setup, verified, reserved>>

EndStream(r) ==
    /\ reader[r].at = "stream" /\ reader[r].rest = 0
    /\ Step(r, Idle)
    /\ UNCHANGED <<disk, setup, verified, counters, delivered>>

(***************************************************************************)
(* get_opts on a file with a digest: under one lock, the part is in the    *)
(* cache, or it is read to its end, compared with the digest and put into  *)
(* the cache (results::verified_part).                                     *)
(***************************************************************************)
GetPart(r, f) ==
    /\ Open /\ reader[r] = Idle
    /\ allowed[f].digest \notin {"unknown", "none"}
    /\ IF Unmoved(f)
       THEN /\ Step(r, [at |-> "locking", file |-> f])
            /\ UNCHANGED <<verified, counters, delivered>>
       ELSE Fail(r)
    /\ UNCHANGED <<disk, setup>>

Cached(f) == {i \in 1 .. Len(cache) : cache[i].file = f}

TakeCached(r) ==
    LET f == reader[r].file
    IN  /\ reader[r].at = "locking" /\ holder = NoReader
        /\ \E i \in Cached(f) :
              /\ cache' = [k \in 1 .. Len(cache) |->
                              IF k < i THEN cache[k]
                              ELSE IF k < Len(cache) THEN cache[k + 1] ELSE cache[i]]
              /\ Give(r, "part", cache[i].got)
        /\ Step(r, Idle)
        /\ UNCHANGED <<disk, setup, holder, cached, counters>>

Load(r) ==
    LET f == reader[r].file
    IN  /\ reader[r].at = "locking" /\ holder = NoReader /\ Cached(f) = {}
        /\ IF Fits(Size[f])
           THEN /\ Reserve(Size[f])
                /\ holder' = r
                /\ Step(r, [at |-> "load", file |-> f, left |-> Size[f], got |-> {}])
                /\ UNCHANGED <<cache, cached, sourceBytes, resultBytes, delivered>>
           ELSE Fail(r)
        /\ UNCHANGED <<disk, setup>>

Intact(f, got) == Size[f] <= CacheBytes /\ got \subseteq {allowed[f].digest}

Verify(r) ==
    LET request == reader[r]
    IN  /\ request.at = "load" /\ request.left = 0
        /\ IF Intact(request.file, request.got)
           THEN /\ Step(r, [at |-> "insert", file |-> request.file, got |-> request.got])
                /\ resultBytes' = resultBytes + Size[request.file]
                /\ UNCHANGED <<verified, reserved, sourceBytes, delivered>>
           ELSE Fail(r)
        /\ UNCHANGED <<disk, setup>>

Room(f) == cached + Size[f] <= CacheBytes /\ Len(cache) < CacheEntries

Evict(r) ==
    /\ reader[r].at = "insert" /\ ~Room(reader[r].file) /\ cache # <<>>
    /\ cache' = Tail(cache)
    /\ cached' = cached - Size[cache[1].file]
    /\ UNCHANGED <<disk, setup, holder, counters, reader, delivered>>

\* When nothing is left to remove and it still does not fit, it is not kept.
Insert(r) ==
    LET request == reader[r]
        f == request.file
    IN  /\ request.at = "insert"
        /\ IF Room(f)
           THEN cache' = Append(cache, [file |-> f, got |-> request.got]) /\ cached' = cached + Size[f]
           ELSE cache = <<>> /\ UNCHANGED <<cache, cached>>
        /\ Step(r, Idle) /\ Give(r, "part", request.got)
        /\ Release(r)
        /\ UNCHANGED <<disk, setup, counters>>

(***************************************************************************)
(* A query that has what it needs, or that is over, drops its requests     *)
(* where they await.  A blocking task goes on for nobody; only that of a   *)
(* ranges request still counts what it reads.                              *)
(***************************************************************************)
\* A mistake Drop does not make: the lock is left behind.
DropLocked(r) ==
    /\ reader[r].at \notin {"idle", "gone", "detached", "insert"}
    /\ Step(r, IF reader[r].at = "ranges" THEN [reader[r] EXCEPT !.at = "detached"] ELSE Gone)
    /\ UNCHANGED <<disk, setup, verified, counters, delivered>>

Drop(r) ==
    /\ reader[r].at \notin {"idle", "gone", "detached", "insert"}
    /\ Step(r, IF reader[r].at = "ranges" THEN [reader[r] EXCEPT !.at = "detached"] ELSE Gone)
    /\ Release(r)
    /\ UNCHANGED <<disk, setup, cache, cached, counters, delivered>>

(***************************************************************************)
(* Files.  A change of a file shows in what metadata tells of it; only a   *)
(* managed file, whose digest is known, may also rot unseen.               *)
(***************************************************************************)
Change(f) ==
    /\ f \notin moved /\ Cardinality(moved) < MaxChanges
    /\ moved' = moved \cup {f}
    /\ content' = [content EXCEPT ![f] = "changed"]
    /\ UNCHANGED <<setup, verified, counters, reader, delivered>>

Rot(f) ==
    /\ f \in Managed /\ MaxChanges > 0
    /\ content' = [content EXCEPT ![f] = "changed"]
    /\ UNCHANGED <<moved, setup, verified, counters, reader, delivered>>

(***************************************************************************)
(* Requests, what serves them, and the store as a whole.                   *)
(***************************************************************************)
Request(r, f, n) == GetRanges(r, f, n) \/ GetStream(r, f, n) \/ GetPart(r, f)

Serve(r) ==
    \/ ReadByte(r) \/ ReadFails(r)
    \/ EndRanges(r)
    \/ NextChunk(r) \/ EndChunk(r) \/ EndStream(r)
    \/ TakeCached(r) \/ Load(r) \/ Verify(r) \/ Evict(r) \/ Insert(r)

Disturb(f) == Change(f) \/ Rot(f)

(***************************************************************************)
(* Properties.                                                             *)
(***************************************************************************)
Requests ==
    LET Got == SUBSET Contents
    IN  {Idle, Failed, Gone}
        \cup [at : {"ranges", "detached", "load"}, file : Files, left : Nat, got : Got]
        \cup [at : {"stream"}, file : Files, rest : Nat]
        \cup [at : {"chunk"}, file : Files, rest : Nat, size : Nat, left : Nat, got : Got]
        \cup [at : {"locking"}, file : Files]
        \cup [at : {"insert"}, file : Files, got : Got]
Deliveries == [file : Files, how : {"ranges", "stream", "part"}, content : Contents]

(* The type invariant of the store.                                        *)
StoreTypeOK ==
    /\ content \in [Files -> Contents] /\ moved \subseteq Files
    /\ manifest \in Manifests /\ registered \in 0 .. Len(manifest) /\ refused \in BOOLEAN
    /\ allowed \in [Files -> [digest : Contents \cup {"none", "unknown"}, source : BOOLEAN]]
    /\ limit \in Limits
    /\ holder \in Readers \cup {NoReader}
    /\ cache \in Seq([file : Files, got : SUBSET Contents]) /\ cached \in Nat
    /\ reserved \in Nat /\ sourceBytes \in Nat /\ resultBytes \in Nat
    /\ reader \in [Readers -> Requests]
    /\ delivered \subseteq Deliveries

\* A budget is never overdrawn by requests that reserve at the same time.
BudgetKept == reserved <= limit

\* What a request at work may still read.
MayRead(q) ==
    CASE q.at \in {"ranges", "detached"} -> q.left
      [] q.at = "chunk" -> q.size
      [] q.at = "load" -> Size[q.file]
      [] OTHER -> 0

\* Nothing is read that was not reserved before.
ReadsReserved ==
    LET pending == [r \in Readers |-> MayRead(reader[r])]
    IN  sourceBytes + resultBytes + SumFunctionOnSet(pending, Readers) <= reserved

\* The cache holds every part once, as many bytes as it says, and is bounded.
CachedFiles == {cache[i].file : i \in 1 .. Len(cache)}
CacheKept ==
    /\ cached = SumFunctionOnSet(Size, CachedFiles)
    /\ cached <= CacheBytes /\ Len(cache) <= CacheEntries
    /\ \A i, j \in 1 .. Len(cache) : i # j => cache[i].file # cache[j].file

(* However requests overlap, are refused or dropped, the reserved bytes    *)
(* stay within scan_bytes, no byte is read unreserved, and the verified    *)
(* parts stay within their cache (Counters, VerifiedCache::insert).        *)
WithinBudgets == BudgetKept /\ ReadsReserved /\ CacheKept

(* A file that any binding declares with a digest is only ever given out   *)
(* with the bytes of that digest, from disk or from the cache, also when a *)
(* later binding names the same path as an external file (new, get_opts).  *)
VerifiedOnly ==
    \A k \in 1 .. registered : \A d \in delivered :
       /\ manifest[k].digest # "none" /\ d.file = manifest[k].file
       => d.content = manifest[k].digest
=============================================================================
