-------------------------------- MODULE Paging --------------------------------
(***************************************************************************)
(* Clients that page: through the rows of a result while more parts and    *)
(* revisions of it are committed, and through the catalog while datasets,  *)
(* jobs and results are added.  Between two pages the coordinator keeps    *)
(* nothing; all it knows is in the cursor that comes back.                 *)
(*                                                                         *)
(* Sources: crates/runtime/src/{results,catalog,db,api}.rs.                *)
(*                                                                         *)
(* A row is the number of bytes its values take.  Numbers are written in   *)
(* the base Base, so that small numbers have different lengths.  How long  *)
(* the entries of the catalog are when a page is built is not modelled: a  *)
(* page ends at any of them.                                               *)
(***************************************************************************)
EXTENDS Naturals, Sequences, FiniteSets, SequencesExt

CONSTANTS
    None,        \* no label, no cursor, no revision asked for
    Columns,     \* selections of columns
    Labels,
    Parts,       \* what parts hold, each a sequence of rows
    Limits,      \* rows or entries asked for in one page
    Budgets,     \* max_bytes, less the margin the code keeps
    Base, Fixed, Token,  \* bytes of a page and of a cursor, without their numbers
    MaxResults, MaxOpened, MaxParts  \* bounds

ASSUME PagingAssumption ==
    /\ None \notin Labels
    /\ None \notin [kind : {"dataset", "job", "result"}, n : Nat]  \* entries
    /\ None \notin [result : Nat, revision : Nat, offset : Nat, columns : Columns]  \* cursors
    /\ Parts \subseteq Seq(Nat) /\ Limits \subseteq Nat /\ Budgets \subseteq Nat
    /\ Base \in Nat \ {0, 1} /\ Fixed \in Nat /\ Token \in Nat
    /\ {MaxResults, MaxOpened, MaxParts} \subseteq Nat

VARIABLES
    \* rows of the database, in the order of their rowid
    objects,  \* what each is and its label
    results,  \* and the jobs they are results of: one each, in the same order
    \* a client
    walks,    \* in what it walks, "result" or "catalog"
    reading,  \* its walk through a result: the last request, the next cursor
    listing   \* or through the catalog

vars == <<objects, results, walks, reading, listing>>

Kinds == {"query", "analysis"}
Ranks == [dataset |-> 1, job |-> 2, result |-> 3]  \* in the order of their names
Start == [at |-> "start"]

Init ==
    /\ objects = <<>>
    /\ results = <<>>
    /\ walks \in {"result", "catalog"}
    /\ reading = Start
    /\ listing = Start

(***************************************************************************)
(* The database (open, submit, publish and finish).  What the client does  *)
(* not look at does not happen.  Pages of a result whose source changed,   *)
(* or that was collected, are refused; Retention has these.                *)
(***************************************************************************)
Inserted(kinds, label) == objects \o [i \in 1 .. Len(kinds) |-> [kind |-> kinds[i], label |-> label]]

OpenDataset(label) ==
    /\ walks = "catalog"
    /\ Len(SelectSeq(objects, LAMBDA o : o.kind = "dataset")) < MaxOpened
    /\ objects' = Inserted(<<"dataset", "manifest">>, label)
    /\ UNCHANGED <<results, walks, reading, listing>>

Submit(kind, preview, label) ==
    /\ Len(results) < MaxResults
    /\ IF walks = "catalog" THEN kind = "query" /\ ~preview ELSE label = None
    /\ results' = Append(results, [kind |-> kind, preview |-> preview, label |-> label,
                                   ended |-> FALSE,
                                   parts |-> <<>>, revisions |-> <<>>])
    /\ objects' = Inserted(<<"view", "scope">>, label)
    /\ UNCHANGED <<walks, reading, listing>>

Rows(parts) == SumFunction([i \in DOMAIN parts |-> Len(parts[i])])

\* The parts that a revision shows, and how many rows: all so far, or of an
\* analysis the last one.
Revision(kind, parts) ==
    IF kind = "query" THEN [start |-> 0, cutoff |-> Len(parts), rows |-> Rows(parts)]
                      ELSE [start |-> Len(parts) - 1, cutoff |-> Len(parts), rows |-> 1]

\* The revisions of a result, with one more that shows its parts.
Revised(result, parts) == Append(result.revisions, Revision(result.kind, parts))

Published == SumFunction([r \in DOMAIN results |-> Len(results[r].parts)])

Publish(r, part) ==
    LET result == results[r]
        parts == Append(result.parts, part)
    IN  /\ walks = "result" /\ ~result.ended /\ Published < MaxParts
        /\ result.kind = "analysis" => Len(part) = 1
        /\ results' = [results EXCEPT ![r] = [result EXCEPT
              !.parts = parts,
              !.revisions = IF result.preview THEN Revised(result, parts) ELSE result.revisions]]
        /\ UNCHANGED <<objects, walks, reading, listing>>

Finish(r, completed) ==
    LET result == results[r]
        shown == IF completed THEN result.kind = "query" \/ result.parts # <<>>
                 ELSE result.kind = "query" /\ result.revisions = <<>> /\ result.parts # <<>>
    IN  /\ walks = "result" /\ ~result.ended
        /\ completed => shown
        /\ results' = [results EXCEPT ![r] = [result EXCEPT
              !.ended = TRUE,
              !.revisions = IF shown THEN Revised(result, result.parts) ELSE result.revisions]]
        /\ UNCHANGED <<objects, walks, reading, listing>>

(***************************************************************************)
(* read: one page of a revision.                                           *)
(***************************************************************************)
Digits(n) == 1 + Cardinality({d \in 1 .. n : Base^d <= n})

\* A page as it is sent: its numbers, true or false, the cursor in hex or null.
Sent(next, returned, total, bytes) ==
    Fixed + Digits(returned) + (IF next < total THEN 4 + 2 * (Token + Digits(next)) + 2 ELSE 5 + 4) + bytes

\* A mistake page_metadata_bytes does not make: a cursor is written in hex.
PageBytesPlain(next, returned, total) ==
    LET cursor == IF next < total THEN (Token + 1 + Digits(next) - 1) + 2 ELSE 4
    IN  (Fixed + 9) + Digits(returned) - 1 + (IF next >= total THEN 1 ELSE 0) + cursor - 4

\* page_metadata_bytes, from a page that returns nothing, has more, and has
\* no cursor.
PageBytes(next, returned, total) ==
    LET cursor == IF next < total THEN 2 * (Token + 1 + Digits(next) - 1) + 2 ELSE 4
    IN  (Fixed + 9) + Digits(returned) - 1 + (IF next >= total THEN 1 ELSE 0) + cursor - 4

Pass(page, part) == [page EXCEPT !.position = @ + Len(part)]

\* The loop over the rows of a part, and over the parts.
TakeRow(page, request, total, i, part, j) ==
    LET bytes == part[j] + (IF page.rows = <<>> THEN 0 ELSE 1)
        returned == Len(page.rows) + 1
        next == [page EXCEPT !.position = @ + 1]
    IN  IF page.full THEN page
        ELSE IF page.position < request.offset THEN next
        ELSE IF returned > request.limit THEN [page EXCEPT !.full = TRUE]
        ELSE IF PageBytes(request.offset + returned, returned, total) + page.bytes + bytes > request.budget
        THEN [page EXCEPT !.full = TRUE, !.refused = page.rows = <<>>]
        ELSE [next EXCEPT !.rows = Append(@, <<i, j>>), !.bytes = @ + bytes]

TakePart(page, request, total, i, part) ==
    LET after[j \in 0 .. Len(part)] ==
            IF j = 0 THEN page ELSE TakeRow(after[j - 1], request, total, i, part, j)
    IN  IF page.full THEN page
        ELSE IF page.position + Len(part) <= request.offset THEN Pass(page, part)
        ELSE IF Len(page.rows) >= request.limit THEN [page EXCEPT !.full = TRUE]
        ELSE after[Len(part)]

\* The parts of a revision (snapshot).
Snapshot(revision) ==
    [k \in 1 .. revision.cutoff - revision.start |-> revision.start + k]

\* The rows of a page, by part and place.
Page(parts, revision, request) ==
    LET nothing == [position |-> 0, rows |-> <<>>, bytes |-> 0, full |-> FALSE,
                    refused |-> Sent(request.offset, 0, revision.rows, 0) > request.budget]
        shown == Snapshot(revision)
        after[k \in 0 .. Len(shown)] ==
            IF k = 0 THEN nothing
            ELSE TakePart(after[k - 1], request, revision.rows, shown[k], parts[shown[k]])
    IN  IF nothing.refused THEN nothing ELSE after[Len(shown)]

\* What a cursor is of must be what it is used for.
Belongs(cursor, r, revision, columns) ==
    /\ cursor.result = r /\ cursor.columns = columns
    /\ revision \in {None, cursor.revision}

Read(r, revision, columns, limit, budget) ==
    LET cursor == IF reading.at = "page" THEN reading.cursor ELSE None
        number == IF cursor # None THEN cursor.revision
                  ELSE IF revision # None THEN revision ELSE Len(results[r].revisions)
        shown == results[r].revisions[number]
        request == [offset |-> IF cursor # None THEN cursor.offset ELSE 0,
                    limit |-> limit, budget |-> budget]
        page == Page(results[r].parts, shown, request)
        next == request.offset + Len(page.rows)
        refused == page.refused \/ Sent(next, Len(page.rows), shown.rows, page.bytes) > budget
    IN  /\ reading.at \in {"start", "page"} /\ walks = "result"
        /\ cursor # None => Belongs(cursor, r, revision, columns)
        /\ number \in 1 .. Len(results[r].revisions)
        /\ reading' = IF refused
                      THEN [at |-> "refused", result |-> r, revision |-> number, budget |-> budget,
                            got |-> IF cursor # None THEN reading.got ELSE <<>>]
                      ELSE [at |-> IF next >= shown.rows THEN "end" ELSE "page",
                            result |-> r, revision |-> number, columns |-> columns,
                            cursor |-> [result |-> r, revision |-> number, offset |-> next,
                                        columns |-> columns],
                            got |-> (IF cursor # None THEN reading.got ELSE <<>>)
                                      \o [i \in 1 .. Len(page.rows) |-> <<columns, page.rows[i]>>]]
        /\ UNCHANGED <<objects, results, walks, listing>>

(***************************************************************************)
(* summary: one page of the catalog, in the order of kinds and rowids.     *)
(***************************************************************************)
Bounds == [dataset |-> Len(objects), job |-> Len(results), result |-> Len(results)]

Entries ==
    [kind : {"dataset"}, n : {n \in 1 .. Len(objects) : objects[n].kind = "dataset"}]
      \cup [kind : {"job", "result"}, n : 1 .. Len(results)]
LabelOf(e) == IF e.kind = "dataset" THEN objects[e.n].label ELSE results[e.n].label

Chosen(kind, label) ==
    {e \in Entries : (kind # None => e.kind = kind) /\ (label # None => LabelOf(e) = label)}

Before(a, b) ==
    \/ Ranks[a.kind] < Ranks[b.kind]
    \/ a.kind = b.kind /\ a.n < b.n
First(n, entries) == {e \in entries : Cardinality({d \in entries : Before(d, e)}) < n}

\* One more than asked for tells whether there are more.
Fetched(rest, limit) == First(limit + 1, rest)

\* Entries that existed at the first page, and come after the last one shown.
Rest(cursor) ==
    {e \in Chosen(cursor.kind, cursor.label) :
        /\ e.n <= cursor.bounds[e.kind]
        /\ cursor.after # None => Before(cursor.after, e)}

Latest(entries) == CHOOSE e \in entries : \A d \in entries : d = e \/ Before(d, e)

List(kind, label, limit) ==
    LET first == listing.at = "start"
        cursor == IF first THEN [kind |-> kind, label |-> label, bounds |-> Bounds, after |-> None]
                  ELSE listing.cursor
        fetched == Fetched(Rest(cursor), limit)
    IN  /\ listing.at \in {"start", "page"} /\ walks = "catalog" /\ limit > 0
        /\ cursor.kind = kind /\ cursor.label = label
        /\ \E length \in 0 .. limit :
              LET items == First(length, fetched)
                  more == items # fetched
                  after == IF items = {} THEN cursor.after ELSE Latest(items)
              IN  /\ items = {} => ~more
                  /\ listing' = [at |-> IF more THEN "page" ELSE "end",
                                 cursor |-> [cursor EXCEPT !.after = after],
                                 shown |-> (IF first THEN {} ELSE listing.shown) \cup items,
                                 then |-> IF first THEN Chosen(kind, label) ELSE listing.then]
        /\ UNCHANGED <<objects, results, walks, reading>>

\* The client begins another walk.
Again ==
    /\ reading # Start \/ listing # Start
    /\ reading' = Start /\ listing' = Start
    /\ UNCHANGED <<objects, results, walks>>

Work(r) ==
    \/ \E part \in Parts : Publish(r, part)
    \/ \E completed \in BOOLEAN : Finish(r, completed)

Next ==
    \/ \E label \in Labels \cup {None} :
          \/ OpenDataset(label)
          \/ \E kind \in Kinds, preview \in BOOLEAN : Submit(kind, preview, label)
          \/ \E kind \in DOMAIN Ranks \cup {None}, limit \in Limits : List(kind, label, limit)
    \/ \E r \in 1 .. Len(results) :
          \/ Work(r)
          \/ \E revision \in 1 .. Len(results[r].revisions) \cup {None}, columns \in Columns,
                limit \in Limits, budget \in Budgets : Read(r, revision, columns, limit, budget)
    \/ Again

Spec == Init /\ [][Next]_vars

(***************************************************************************)
(* Properties.                                                             *)
(***************************************************************************)
\* The rows of a revision, as they were committed.
Content(parts, revision) ==
    FlattenSeq([k \in 1 .. revision.cutoff - revision.start |->
        [j \in 1 .. Len(parts[revision.start + k]) |-> <<revision.start + k, j>>]])

(* The pages of a walk are the rows of one revision in their order, none   *)
(* of them twice, whatever was published between them, and all of them at  *)
(* the end; a page is only refused when a single row does not fit (read).  *)
ReadIsExact ==
    reading # Start =>
       LET parts == results[reading.result].parts
           all == Content(parts, results[reading.result].revisions[reading.revision])
           n == Len(reading.got)
       IN  /\ n <= Len(all)
           /\ reading.at # "refused" => \A i \in 1 .. n : reading.got[i] = <<reading.columns, all[i]>>
           /\ reading.at = "end" => n = Len(all)
           /\ reading.at = "refused" =>
                 \/ Sent(n, 0, Len(all), 0) > reading.budget
                 \/ /\ n < Len(all)
                    /\ LET row == all[n + 1]
                       IN  Sent(n + 1, 1, Len(all), parts[row[1]][row[2]]) > reading.budget

(* The pages of the catalog are what it had at the first page, in their    *)
(* order, each once, whatever was added between them (summary).            *)
SummaryIsExact ==
    listing # Start =>
       /\ listing.shown = {e \in listing.then : listing.cursor.after # None
                                                  /\ ~Before(listing.cursor.after, e)}
       /\ listing.at = "end" => listing.shown = listing.then

(* Both walks are exact.                                                   *)
WalkIsExact == ReadIsExact /\ SummaryIsExact
=============================================================================
