---------------------------- MODULE Paging_proofs ----------------------------
(***************************************************************************)
(* Theorems about Paging: the pages of a walk are exactly what there was   *)
(* at its beginning, for any sizes, limits and budgets.                    *)
(*                                                                         *)
(* Of the catalog, entries are added and never change, so that those below *)
(* the bounds of the cursor are those of the first page; what was shown    *)
(* and what is fetched next lie on the two sides of the cursor in one      *)
(* total order.  Of a result, parts and revisions are added and never      *)
(* change, so that the content of a revision stays; the loop over parts    *)
(* and rows takes its rows from the offset on, one after the other.        *)
(***************************************************************************)
EXTENDS Paging, SumTheorems, SequenceTheorems

-----------------------------------------------------------------------------
(* The order of the catalog.                                               *)

Named == [kind : {"dataset", "job", "result"}, n : Nat]

LEMMA BeforeIsOrder ==
    /\ \A a \in Named : ~Before(a, a)
    /\ \A a, b, c \in Named : Before(a, b) /\ Before(b, c) => Before(a, c)
    /\ \A a, b \in Named : a = b \/ Before(a, b) \/ Before(b, a)
<1>1. \A a \in Named : a.kind \in {"dataset", "job", "result"} /\ a.n \in Nat
                        /\ a = [kind |-> a.kind, n |-> a.n]
  BY DEF Named
<1>2. Ranks["dataset"] = 1 /\ Ranks["job"] = 2 /\ Ranks["result"] = 3
  BY DEF Ranks
<1>3. ASSUME NEW a \in Named PROVE ~Before(a, a)
  BY <1>1, <1>2 DEF Before
<1>4. ASSUME NEW a \in Named, NEW b \in Named, NEW c \in Named, Before(a, b), Before(b, c)
      PROVE  Before(a, c)
  BY <1>1, <1>2, <1>4 DEF Before
<1>5. ASSUME NEW a \in Named, NEW b \in Named, a # b, ~Before(a, b) PROVE Before(b, a)
  <2>1. a.kind # b.kind => Before(b, a)
    BY <1>1, <1>2, <1>5 DEF Before
  <2>2. a.kind = b.kind => a.n # b.n
    BY <1>1, <1>5
  <2>3. a.kind = b.kind => Before(b, a)
    BY <1>1, <1>5, <2>2 DEF Before
  <2> QED
    BY <2>1, <2>3
<1> QED
  BY <1>3, <1>4, <1>5

\* In a finite set there is a least entry and a last one.
LEMMA HasLeast ==
    ASSUME NEW S \in SUBSET Named, IsFiniteSet(S), S # {}
    PROVE  \E e \in S : \A d \in S : d = e \/ Before(e, d)
<1> DEFINE Q == {T \in SUBSET S : T = {} \/ \E e \in T : \A d \in T : d = e \/ Before(e, d)}
<1>1. {} \in Q
  OBVIOUS
<1>2. ASSUME NEW T \in SUBSET S, NEW x \in S \ T, T \in Q PROVE T \cup {x} \in Q
  <2>1. CASE T = {}
    BY <2>1
  <2>2. CASE T # {}
    <3>1. PICK e \in T : \A d \in T : d = e \/ Before(e, d)
      BY <1>2, <2>2
    <3>2. e \in Named /\ x \in Named /\ T \subseteq Named
      BY <3>1
    <3>3. CASE Before(e, x)
      BY <3>1, <3>3
    <3>4. CASE Before(x, e)
      <4>1. \A d \in T : Before(x, d)
        BY <3>1, <3>2, <3>4, BeforeIsOrder
      <4> QED
        BY <4>1
    <3> QED
      BY <3>1, <3>2, <3>3, <3>4, BeforeIsOrder
  <2> QED
    BY <2>1, <2>2
<1>3. S \in Q
  <2> HIDE DEF Q
  <2> QED
    BY <1>1, <1>2, SubsetsBySteps
<1> QED
  BY <1>3

LEMMA HasLast ==
    ASSUME NEW S \in SUBSET Named, IsFiniteSet(S), S # {}
    PROVE  Latest(S) \in S /\ \A d \in S : d = Latest(S) \/ Before(d, Latest(S))
<1> DEFINE Q == {T \in SUBSET S : T = {} \/ \E e \in T : \A d \in T : d = e \/ Before(d, e)}
<1>1. {} \in Q
  OBVIOUS
<1>2. ASSUME NEW T \in SUBSET S, NEW x \in S \ T, T \in Q PROVE T \cup {x} \in Q
  <2>1. CASE T = {}
    BY <2>1
  <2>2. CASE T # {}
    <3>1. PICK e \in T : \A d \in T : d = e \/ Before(d, e)
      BY <1>2, <2>2
    <3>2. e \in Named /\ x \in Named /\ T \subseteq Named
      BY <3>1
    <3>3. CASE Before(x, e)
      BY <3>1, <3>3
    <3>4. CASE Before(e, x)
      <4>1. \A d \in T : Before(d, x)
        BY <3>1, <3>2, <3>4, BeforeIsOrder
      <4> QED
        BY <4>1
    <3> QED
      BY <3>1, <3>2, <3>3, <3>4, BeforeIsOrder
  <2> QED
    BY <2>1, <2>2
<1>3. S \in Q
  <2> HIDE DEF Q
  <2> QED
    BY <1>1, <1>2, SubsetsBySteps
<1>4. \E e \in S : \A d \in S : d = e \/ Before(d, e)
  BY <1>3
<1> QED
  BY <1>4 DEF Latest

\* The first of a set: with an entry, those before it; some when asked for
\* some; all, or as many as asked for.
LEMMA FirstAreFirst ==
    ASSUME NEW S \in SUBSET Named, IsFiniteSet(S), NEW n \in Nat
    PROVE  /\ First(n, S) \subseteq S /\ IsFiniteSet(First(n, S))
           /\ \A e \in First(n, S), d \in S : Before(d, e) => d \in First(n, S)
           /\ n > 0 /\ S # {} => First(n, S) # {}
<1> DEFINE ahead(e) == {d \in S : Before(d, e)}
<1>1. \A e \in S : IsFiniteSet(ahead(e)) /\ Cardinality(ahead(e)) \in Nat
  BY FS_Subset, FS_CardinalityType
<1>2. First(n, S) = {e \in S : Cardinality(ahead(e)) < n}
  BY DEF First
<1>3. IsFiniteSet(First(n, S))
  BY <1>2, FS_Subset
<1>4. ASSUME NEW e \in First(n, S), NEW d \in S, Before(d, e) PROVE d \in First(n, S)
  <2>1. e \in S /\ Cardinality(ahead(e)) < n
    BY <1>2
  <2>2. ahead(d) \subseteq ahead(e)
    BY <1>4, <2>1, BeforeIsOrder
  <2>3. Cardinality(ahead(d)) <= Cardinality(ahead(e))
    BY <1>1, <2>1, <2>2, FS_Subset
  <2> HIDE DEF ahead
  <2> QED
    BY <1>1, <1>2, <2>1, <2>3
<1>5. ASSUME n > 0, S # {} PROVE First(n, S) # {}
  <2>1. PICK e \in S : \A d \in S : d = e \/ Before(e, d)
    BY <1>5, HasLeast
  <2>2. ahead(e) = {}
    BY <2>1, BeforeIsOrder
  <2>3. Cardinality(ahead(e)) = 0
    BY <2>2, FS_EmptySet
  <2> HIDE DEF ahead
  <2> QED
    BY <1>2, <1>5, <2>3
<1> QED
  BY <1>2, <1>3, <1>4, <1>5

\* A page that shows all that was fetched, one more than could be shown, has
\* shown all there was.
LEMMA FewMeansAll ==
    ASSUME NEW S \in SUBSET Named, IsFiniteSet(S), NEW n \in Nat, NEW m \in 0 .. n,
           First(m, First(n + 1, S)) = First(n + 1, S)
    PROVE  First(n + 1, S) = S
<1> DEFINE F == First(n + 1, S)
           left == S \ F
<1>1. /\ F \subseteq S /\ IsFiniteSet(F) /\ F \in SUBSET Named
      /\ \A e \in F, d \in S : Before(d, e) => d \in F
      /\ S # {} => F # {}
  BY FirstAreFirst
<1>2. SUFFICES ASSUME left # {} PROVE FALSE
  BY <1>1
<1>3. IsFiniteSet(left) /\ left \in SUBSET Named
  BY FS_Subset
<1>4. PICK e \in left : \A d \in left : d = e \/ Before(e, d)
  BY <1>2, <1>3, HasLeast
<1>5. {d \in S : Before(d, e)} \subseteq F
  BY <1>1, <1>4, BeforeIsOrder
<1>6. /\ Cardinality(F) \in Nat
      /\ Cardinality({d \in S : Before(d, e)}) \in Nat
      /\ Cardinality({d \in S : Before(d, e)}) <= Cardinality(F)
  BY <1>1, <1>5, FS_Subset, FS_CardinalityType
<1>7. ~(Cardinality({d \in S : Before(d, e)}) < n + 1)
  BY <1>4 DEF First
<1>8. Cardinality(F) >= n + 1
  BY <1>6, <1>7
<1> DEFINE l == Latest(F)
<1>9. l \in F /\ \A d \in F : d = l \/ Before(d, l)
  BY <1>1, <1>4, HasLast
<1>10. Cardinality({d \in F : Before(d, l)}) < m
  <2>1. l \in First(m, F)
    BY <1>9
  <2> HIDE DEF F, l
  <2> QED
    BY <2>1 DEF First
<1> HIDE DEF F, l, left
<1>11. {d \in F : Before(d, l)} = F \ {l}
  BY <1>1, <1>9, BeforeIsOrder
<1>12. Cardinality(F \ {l}) = Cardinality(F) - 1
  BY <1>1, <1>9, FS_RemoveElement
<1>13. PICK c : c = Cardinality(F)
  OBVIOUS
<1>14. c \in Nat /\ c >= n + 1 /\ c - 1 < m
  BY <1>6, <1>8, <1>10, <1>11, <1>12, <1>13
<1> QED
  BY <1>14

\* Entries on the two sides of a cursor.
Ahead(T, after) == {e \in T : after # None => Before(after, e)}
Behind(T, after) == {e \in T : after # None /\ ~Before(after, e)}

\* One page of the catalog moves the cursor over what it shows.
LEMMA PageMovesCursor ==
    ASSUME NEW T \in SUBSET Named, IsFiniteSet(T), NEW after \in T \cup {None},
           NEW limit \in Nat \ {0}, NEW length \in 0 .. limit,
           NEW rest, rest = Ahead(T, after),
           NEW shown, shown = Behind(T, after),
           NEW fetched, fetched = Fetched(rest, limit),
           NEW items, items = First(length, fetched),
           items = {} => items = fetched,
           NEW next, next = IF items = {} THEN after ELSE Latest(items)
    PROVE  /\ next \in T \cup {None}
           /\ shown \cup items = Behind(T, next)
           /\ items = fetched => shown \cup items = T
<1>1. /\ rest \subseteq T /\ rest \in SUBSET Named /\ IsFiniteSet(rest)
      /\ T = shown \cup rest
  BY FS_Subset DEF Ahead, Behind
<1>2. /\ fetched \subseteq rest /\ fetched \in SUBSET Named /\ IsFiniteSet(fetched)
      /\ \A e \in fetched, d \in rest : Before(d, e) => d \in fetched
      /\ rest # {} => fetched # {}
  <2>1. fetched = First(limit + 1, rest) /\ limit + 1 \in Nat /\ limit + 1 > 0
    BY DEF Fetched
  <2>2. /\ fetched \subseteq rest /\ IsFiniteSet(fetched)
        /\ \A e \in fetched, d \in rest : Before(d, e) => d \in fetched
        /\ rest # {} => fetched # {}
    BY ONLY <1>1, <2>1, FirstAreFirst
  <2> QED
    BY <1>1, <2>2
<1>3. /\ items \subseteq fetched /\ items \in SUBSET Named /\ IsFiniteSet(items)
      /\ \A e \in items, d \in fetched : Before(d, e) => d \in items
  <2>1. items = First(length, fetched) /\ length \in Nat
    OBVIOUS
  <2>2. /\ items \subseteq fetched /\ IsFiniteSet(items)
        /\ \A e \in items, d \in fetched : Before(d, e) => d \in items
    BY ONLY <1>2, <2>1, FirstAreFirst
  <2> QED
    BY <1>2, <2>2
<1>4. ASSUME items = fetched PROVE items = rest
  <2>1. First(length, First(limit + 1, rest)) = First(limit + 1, rest)
    BY <1>4 DEF Fetched
  <2>2. First(limit + 1, rest) = rest
    BY <1>1, <2>1, FewMeansAll
  <2> QED
    BY <1>4, <2>2 DEF Fetched
<1>5. items = fetched => shown \cup items = T
  BY <1>1, <1>4
<1>6. CASE items = {}
  BY <1>1, <1>4, <1>6 DEF Ahead, Behind
<1>7. CASE items # {}
  <2>1. next \in items /\ \A d \in items : d = next \/ Before(d, next)
    BY <1>3, <1>7, HasLast
  <2>2. next \in rest /\ next \in Named /\ next \in T
    BY <1>1, <1>2, <1>3, <2>1
  <2>3. next # None
    BY <2>2, PagingAssumption DEF Named
  <2>4. \A e \in T : ~Before(next, e) <=> e = next \/ Before(e, next)
    BY <2>2, BeforeIsOrder
  <2>5. ASSUME NEW e \in shown PROVE e \in T /\ Before(e, next)
    <3>1. e \in T /\ after # None /\ after \in Named /\ ~Before(after, e)
      BY DEF Behind
    <3>2. Before(after, next)
      BY <2>2, <3>1 DEF Ahead
    <3>3. e = after \/ Before(e, after)
      BY <3>1, BeforeIsOrder
    <3> QED
      BY <2>2, <3>1, <3>2, <3>3, BeforeIsOrder
  <2>6. ASSUME NEW e \in rest, e = next \/ Before(e, next) PROVE e \in items
    BY <1>2, <1>3, <2>1, <2>6
  <2>7. shown \cup items = {e \in T : ~Before(next, e)}
    <3>1. \A e \in shown \cup items : e \in T /\ ~Before(next, e)
      BY <1>1, <1>2, <1>3, <2>1, <2>4, <2>5
    <3>2. \A e \in T : ~Before(next, e) => e \in shown \cup items
      BY <1>1, <2>4, <2>6
    <3> QED
      BY <3>1, <3>2
  <2> QED
    BY <1>1, <1>5, <2>2, <2>3, <2>7 DEF Behind
<1> QED
  BY <1>5, <1>6, <1>7

-----------------------------------------------------------------------------
(* The invariant.  Rows, parts and revisions first.                        *)

Objects == {"dataset", "manifest", "view", "scope"}
Stored == [kind : Objects, label : Labels \cup {None}]
Shown == [start : Nat, cutoff : Nat, rows : Nat]
Result == [kind : Kinds, preview : BOOLEAN, label : Labels \cup {None}, ended : BOOLEAN,
           parts : Seq(Seq(Nat)), revisions : Seq(Shown)]

DatabaseTyped == objects \in Seq(Stored) /\ results \in Seq(Result)

\* A result whose parts and revisions were added to.
Extends(old, new) ==
    /\ new.label = old.label
    /\ Len(new.parts) >= Len(old.parts)
    /\ \A i \in 1 .. Len(old.parts) : new.parts[i] = old.parts[i]
    /\ Len(new.revisions) >= Len(old.revisions)
    /\ \A i \in 1 .. Len(old.revisions) : new.revisions[i] = old.revisions[i]

\* What the client can still see stays: entries, parts and revisions.
Grows ==
    /\ Len(objects') >= Len(objects) /\ Len(results') >= Len(results)
    /\ \A n \in 1 .. Len(objects) : objects'[n] = objects[n]
    /\ \A n \in 1 .. Len(results) : Extends(results[n], results'[n])

Within(revision, parts) ==
    revision.start <= revision.cutoff /\ revision.cutoff <= Len(parts)

\* A revision shows parts that are committed, and says how many rows they have.
Counted(revisions, parts) ==
    \A i \in 1 .. Len(revisions) :
       /\ Within(revisions[i], parts)
       /\ revisions[i].rows = Len(Content(parts, revisions[i]))

\* A part of an analysis is one row.
Single(kind, parts) == kind = "analysis" => \A i \in 1 .. Len(parts) : Len(parts[i]) = 1

Counts(result) == Single(result.kind, result.parts) /\ Counted(result.revisions, result.parts)

RevisionsCount == \A n \in 1 .. Len(results) : Counts(results[n])

Cursors == [kind : DOMAIN Ranks \cup {None}, label : Labels \cup {None},
            bounds : [dataset : Nat, job : Nat, result : Nat], after : Named \cup {None}]

\* The entries there were at the first page.
Then(cursor) == {e \in Chosen(cursor.kind, cursor.label) : e.n <= cursor.bounds[e.kind]}

Listing ==
    listing # Start =>
       /\ listing.at \in {"page", "end"}
       /\ listing.cursor \in Cursors
       /\ listing.cursor.bounds["dataset"] <= Len(objects)
       /\ listing.cursor.bounds["job"] <= Len(results)
       /\ listing.cursor.bounds["result"] <= Len(results)
       /\ listing.then = Then(listing.cursor)
       /\ listing.cursor.after \in listing.then \cup {None}

Reading ==
    reading # Start =>
       /\ reading.at \in {"page", "end", "refused"}
       /\ reading.result \in 1 .. Len(results)
       /\ reading.revision \in 1 .. Len(results[reading.result].revisions)
       /\ reading.got \in Seq(Columns \X (Nat \X Nat))
       /\ reading.at = "page" =>
             /\ reading.columns \in Columns
             /\ reading.cursor = [result |-> reading.result, revision |-> reading.revision,
                                  offset |-> Len(reading.got), columns |-> reading.columns]

IInv == DatabaseTyped /\ RevisionsCount /\ Listing /\ Reading /\ WalkIsExact

-----------------------------------------------------------------------------
(* The catalog.                                                            *)

LEMMA EntriesAreFinite ==
    ASSUME DatabaseTyped
    PROVE  /\ Entries \in SUBSET Named /\ IsFiniteSet(Entries)
           /\ Len(objects) \in Nat /\ Len(results) \in Nat
<1>1. Len(objects) \in Nat /\ Len(results) \in Nat
  BY DEF DatabaseTyped
<1>2. Entries \in SUBSET Named
  BY <1>1 DEF Entries, Named
<1>3. PICK m \in Nat : m >= Len(objects) /\ m >= Len(results)
  BY <1>1
<1> DEFINE pairs == {"dataset", "job", "result"} \X (1 .. m)
           image == {p \in Named : p.n \in 1 .. m}
           f == [p \in pairs |-> [kind |-> p[1], n |-> p[2]]]
<1>4. IsFiniteSet(pairs)
  <2>1. IsFiniteSet({"dataset", "job", "result"})
    <3>1. IsFiniteSet({"dataset"})
      BY FS_Singleton
    <3>2. IsFiniteSet({"dataset"} \cup {"job"})
      BY <3>1, FS_AddElement
    <3>3. IsFiniteSet(({"dataset"} \cup {"job"}) \cup {"result"})
      BY <3>2, FS_AddElement
    <3> QED
      BY <3>3, ({"dataset"} \cup {"job"}) \cup {"result"} = {"dataset", "job", "result"}
  <2>2. IsFiniteSet(1 .. m)
    BY FS_Interval
  <2> QED
    BY <2>1, <2>2, FS_Product
<1>5. f \in Surjection(pairs, image)
  <2>1. f \in [pairs -> image]
    BY DEF Named
  <2>2. ASSUME NEW e \in image PROVE \E p \in pairs : f[p] = e
    <3>1. <<e.kind, e.n>> \in pairs /\ e = [kind |-> e.kind, n |-> e.n]
      BY DEF Named
    <3> QED
      BY <3>1
  <2> HIDE DEF f, pairs, image
  <2> QED
    BY <2>1, <2>2 DEF Surjection
<1>6. IsFiniteSet(image)
  <2> HIDE DEF f, pairs, image
  <2> QED
    BY <1>4, <1>5, FS_Surjection
<1>7. Entries \subseteq image
  BY <1>1, <1>2, <1>3 DEF Entries
<1> QED
  BY <1>1, <1>2, <1>6, <1>7, FS_Subset

\* What is added is beyond the bounds of the cursor.
LEMMA ThenStays ==
    ASSUME DatabaseTyped, DatabaseTyped', Grows, NEW c \in Cursors,
           c.bounds["dataset"] <= Len(objects), c.bounds["job"] <= Len(results),
           c.bounds["result"] <= Len(results)
    PROVE  Then(c)' = Then(c)
<1> DEFINE b == c.bounds
<1>1. /\ b["dataset"] \in Nat /\ b["job"] \in Nat /\ b["result"] \in Nat
      /\ Len(objects) \in Nat /\ Len(results) \in Nat
      /\ Len(objects') \in Nat /\ Len(results') \in Nat
      /\ Len(objects') >= Len(objects) /\ Len(results') >= Len(results)
  BY EntriesAreFinite DEF Cursors, Grows, DatabaseTyped
<1>2. ASSUME NEW e PROVE e \in Then(c) => e \in Entries' /\ LabelOf(e)' = LabelOf(e)
  <2> SUFFICES ASSUME e \in Entries, e.n <= b[e.kind]
               PROVE  e \in Entries' /\ LabelOf(e)' = LabelOf(e)
    BY DEF Then, Chosen
  <2>1. CASE e.kind = "dataset"
    BY <1>1, <2>1 DEF Entries, LabelOf, Grows, Extends
  <2>2. CASE e.kind # "dataset"
    BY <1>1, <2>2 DEF Entries, LabelOf, Grows, Extends
  <2> QED
    BY <2>1, <2>2
<1>3. ASSUME NEW e PROVE e \in Then(c)' => e \in Entries /\ LabelOf(e)' = LabelOf(e)
  <2> SUFFICES ASSUME e \in Entries', e.n <= b[e.kind]
               PROVE  e \in Entries /\ LabelOf(e)' = LabelOf(e)
    BY DEF Then, Chosen
  <2>1. CASE e.kind = "dataset"
    <3>1. e = [kind |-> "dataset", n |-> e.n] /\ e.n \in 1 .. Len(objects')
      BY <2>1 DEF Entries
    <3>2. e.n \in 1 .. Len(objects)
      BY <1>1, <2>1, <3>1
    <3> QED
      BY <2>1, <3>1, <3>2 DEF Entries, LabelOf, Grows, Extends
  <2>2. CASE e.kind # "dataset"
    <3>1. e.kind \in {"job", "result"} /\ e = [kind |-> e.kind, n |-> e.n] /\ e.n \in 1 .. Len(results')
      BY <2>2 DEF Entries
    <3>2. e.n \in 1 .. Len(results)
      BY <1>1, <3>1
    <3> QED
      BY <2>2, <3>1, <3>2 DEF Entries, LabelOf, Grows, Extends
  <2> QED
    BY <2>1, <2>2
<1> QED
  BY <1>2, <1>3 DEF Then, Chosen

-----------------------------------------------------------------------------
(* The content of a revision, part after part.                             *)

Places == Nat \X Nat
PlacesIn(parts) == (1 .. Len(parts)) \X Nat
PartRows(parts, i) == [j \in 1 .. Len(parts[i]) |-> <<i, j>>]

\* What its first parts hold, for every number of them.
Contents(c, parts, revision) ==
    LET n == revision.cutoff - revision.start
    IN  /\ c \in [0 .. n -> Seq(PlacesIn(parts))]
        /\ c[0] = <<>>
        /\ \A k \in 1 .. n : c[k] = c[k - 1] \o PartRows(parts, revision.start + k)
        /\ c[n] = Content(parts, revision)

LEMMA PartRowsTyped ==
    ASSUME NEW parts \in Seq(Seq(Nat)), NEW i \in 1 .. Len(parts)
    PROVE  /\ PartRows(parts, i) \in Seq(PlacesIn(parts)) /\ Len(PartRows(parts, i)) = Len(parts[i])
           /\ \A j \in 1 .. Len(parts[i]) : PartRows(parts, i)[j] = <<i, j>>
           /\ Len(parts[i]) \in Nat
<1>1. Len(parts[i]) \in Nat /\ parts[i] \in Seq(Nat) /\ i \in Nat
  OBVIOUS
<1>2. PICK n : n = Len(parts[i])
  OBVIOUS
<1>3. PartRows(parts, i) = [j \in 1 .. n |-> <<i, j>>] /\ n \in Nat
  BY <1>1, <1>2 DEF PartRows
<1>4. [j \in 1 .. n |-> <<i, j>>] \in [1 .. n -> PlacesIn(parts)]
  BY <1>1, <1>3 DEF PlacesIn
<1>5. PICK s : s = [j \in 1 .. n |-> <<i, j>>]
  OBVIOUS
<1>6. s \in [1 .. n -> PlacesIn(parts)] /\ \A j \in 1 .. n : s[j] = <<i, j>>
  BY <1>4, <1>5
<1>7. s \in Seq(PlacesIn(parts)) /\ Len(s) = n
  BY <1>3, <1>6
<1> QED
  BY <1>1, <1>2, <1>3, <1>5, <1>6, <1>7

LEMMA ContentsExist ==
    ASSUME NEW parts \in Seq(Seq(Nat)), NEW revision \in Shown, Within(revision, parts)
    PROVE  \E c : Contents(c, parts, revision)
<1> DEFINE n == revision.cutoff - revision.start
           S == Seq(PlacesIn(parts))
           seqs == [k \in 1 .. n |-> PartRows(parts, revision.start + k)]
           step == [p \in (1 .. n) \X S |-> p[2] \o seqs[p[1]]]
           whole(f) == [i \in 1 .. n |-> IF i = 1 THEN seqs[i] ELSE f[i - 1] \o seqs[i]]
           flatten == CHOOSE f : f = whole(f)
<1>1. /\ n \in Nat /\ revision.start \in Nat
      /\ \A k \in 1 .. n : revision.start + k \in 1 .. Len(parts)
  BY DEF Within, Shown
<1>2. /\ seqs \in [1 .. n -> S] /\ Len(seqs) = n /\ seqs \in Seq(S)
      /\ \A k \in 1 .. n : seqs[k] = PartRows(parts, revision.start + k)
  <2>1. \A k \in 1 .. n : PartRows(parts, revision.start + k) \in S
    BY <1>1, PartRowsTyped
  <2>2. seqs \in [1 .. n -> S] /\ \A k \in 1 .. n : seqs[k] = PartRows(parts, revision.start + k)
    BY <2>1
  <2> HIDE DEF seqs, S, n
  <2>3. Len(seqs) = n /\ seqs \in Seq(S)
    BY <1>1, <2>2
  <2> QED
    BY <2>2, <2>3
<1>3. Content(parts, revision) = IF n = 0 THEN seqs ELSE flatten[n]
  <2>1. Content(parts, revision) = FlattenSeq(seqs)
    BY DEF Content, PartRows
  <2> HIDE DEF seqs, n
  <2>2. FlattenSeq(seqs) = IF n = 0 THEN seqs ELSE flatten[n]
    BY <1>2 DEF FlattenSeq
  <2> QED
    BY <2>1, <2>2
<1> HIDE DEF n, seqs
<1>4. <<>> \in S
  OBVIOUS
<1>5. step \in [(1 .. n) \X S -> S]
  BY <1>2
<1>6. PICK fl \in [0 .. n -> S] : Follows(fl, n, <<>>, step)
  <2> HIDE DEF step, S
  <2> QED
    BY <1>1, <1>4, <1>5, StepsExist
<1>7. ASSUME NEW i \in 1 .. n PROVE fl[i] = fl[i - 1] \o seqs[i] /\ i - 1 \in 0 .. n
  <2>1. i - 1 \in 0 .. n
    BY <1>1
  <2>2. fl[i] = step[<<i, fl[i - 1]>>] /\ <<i, fl[i - 1]>> \in (1 .. n) \X S
    BY <1>6, <2>1 DEF Follows
  <2> QED
    BY <2>1, <2>2
<1>8. fl[0] = <<>>
  BY <1>6 DEF Follows
<1> HIDE DEF step
<1>9. 1 \in 1 .. n => fl[1] = seqs[1]
  <2> SUFFICES ASSUME 1 \in 1 .. n PROVE fl[1] = seqs[1]
    OBVIOUS
  <2>1. seqs[1] \in S
    BY <1>2
  <2>2. fl[1] = fl[1 - 1] \o seqs[1]
    BY <1>7
  <2>3. 1 - 1 = 0
    OBVIOUS
  <2>4. fl[1] = <<>> \o seqs[1]
    BY <1>8, <2>2, <2>3
  <2> QED
    BY <2>1, <2>4, ConcatEmptySeq
<1>10. PICK found : found = [i \in 1 .. n |-> fl[i]]
  OBVIOUS
<1>11. found = whole(found)
  <2>1. \A i \in 1 .. n : i # 1 => i - 1 \in 1 .. n
    BY <1>1
  <2> QED
    BY <1>7, <1>9, <1>10, <2>1
<1>12. flatten = whole(flatten)
  <2> HIDE DEF whole
  <2> QED
    BY <1>11
<1> HIDE DEF flatten
<1>13. \A i \in 1 .. n : flatten[i] = IF i = 1 THEN seqs[i] ELSE flatten[i - 1] \o seqs[i]
  BY <1>12
<1> HIDE DEF whole
<1> DEFINE Q == {i \in Nat : i \in 1 .. n => flatten[i] = fl[i]}
<1>14. 0 \in Q
  OBVIOUS
<1>15. ASSUME NEW i \in Nat, i \in Q PROVE i + 1 \in Q
  <2> SUFFICES ASSUME i + 1 \in 1 .. n PROVE flatten[i + 1] = fl[i + 1]
    OBVIOUS
  <2>1. CASE i = 0
    BY <2>1, <1>9, <1>13
  <2>2. CASE i # 0
    <3>1. i \in 1 .. n /\ i + 1 # 1 /\ (i + 1) - 1 = i
      BY <1>1, <2>2
    <3>2. flatten[i] = fl[i]
      BY <1>15, <3>1
    <3>3. flatten[i + 1] = flatten[(i + 1) - 1] \o seqs[i + 1]
      BY <1>13, <3>1
    <3>4. fl[i + 1] = fl[(i + 1) - 1] \o seqs[i + 1]
      BY <1>7
    <3> QED
      BY <3>1, <3>2, <3>3, <3>4
  <2> QED
    BY <2>1, <2>2
<1>16. n \in Q
  <2> HIDE DEF Q
  <2> QED
    BY <1>1, <1>14, <1>15, NumbersBySteps
<1>17. n = 0 => seqs = <<>>
  BY <1>2
<1>18. fl[n] = Content(parts, revision)
  BY <1>1, <1>3, <1>8, <1>16, <1>17
<1>19. \A k \in 1 .. n : fl[k] = fl[k - 1] \o PartRows(parts, revision.start + k)
  BY <1>2, <1>7
<1>20. PICK m : m = n
  OBVIOUS
<1> QED
  BY <1>6, <1>8, <1>18, <1>19 DEF Contents, n

\* The lengths of its beginnings, what they hold, and which places follow.
Laid(c, parts, revision) ==
    LET n == revision.cutoff - revision.start
        all == Content(parts, revision)
    IN  /\ n \in Nat
        /\ all \in Seq(PlacesIn(parts)) /\ all \in Seq(Places)
        /\ \A k \in 0 .. n :
              /\ c[k] \in Seq(PlacesIn(parts)) /\ Len(c[k]) \in Nat /\ Len(c[k]) <= Len(all)
              /\ \A i \in 1 .. Len(c[k]) : all[i] = c[k][i]
        /\ \A k \in 1 .. n : revision.start + k \in 1 .. Len(parts)
        /\ \A k \in 1 .. n : Len(c[k]) = Len(c[k - 1]) + Len(parts[revision.start + k])
        /\ \A k \in 1 .. n : \A j \in 1 .. Len(parts[revision.start + k]) :
              all[Len(c[k - 1]) + j] = <<revision.start + k, j>>

LEMMA ContentsGrow ==
    ASSUME NEW parts \in Seq(Seq(Nat)), NEW revision \in Shown, Within(revision, parts),
           NEW c, Contents(c, parts, revision)
    PROVE  Laid(c, parts, revision)
<1> DEFINE n == revision.cutoff - revision.start
           all == Content(parts, revision)
           part(k) == PartRows(parts, revision.start + k)
<1>1. /\ n \in Nat /\ revision.start \in Nat
      /\ \A k \in 1 .. n : revision.start + k \in 1 .. Len(parts) /\ k - 1 \in 0 .. n
      /\ n \in 0 .. n
  BY DEF Within, Shown
<1>2. /\ c \in [0 .. n -> Seq(PlacesIn(parts))] /\ c[n] = all
      /\ \A k \in 1 .. n : c[k] = c[k - 1] \o part(k)
  BY DEF Contents
<1>3. \A k \in 1 .. n : /\ part(k) \in Seq(PlacesIn(parts)) /\ Len(part(k)) = Len(parts[revision.start + k])
                         /\ \A j \in 1 .. Len(parts[revision.start + k]) :
                               part(k)[j] = <<revision.start + k, j>>
                         /\ Len(parts[revision.start + k]) \in Nat
  BY <1>1, PartRowsTyped
<1> HIDE DEF n, all, part
<1>4. \A k \in 0 .. n : c[k] \in Seq(PlacesIn(parts)) /\ Len(c[k]) \in Nat
  BY <1>2
<1>5. ASSUME NEW k \in 1 .. n
      PROVE  /\ Len(c[k]) = Len(c[k - 1]) + Len(part(k))
             /\ \A i \in 1 .. Len(c[k - 1]) : c[k][i] = c[k - 1][i]
             /\ \A j \in 1 .. Len(part(k)) : c[k][Len(c[k - 1]) + j] = part(k)[j]
  <2>1. /\ c[k - 1] \in Seq(PlacesIn(parts)) /\ part(k) \in Seq(PlacesIn(parts)) /\ c[k] = c[k - 1] \o part(k)
        /\ Len(c[k - 1]) \in Nat /\ Len(part(k)) \in Nat
    <3>1. k - 1 \in 0 .. n
      BY <1>1
    <3>2. c[k - 1] \in Seq(PlacesIn(parts)) /\ Len(c[k - 1]) \in Nat
      BY <1>4, <3>1
    <3>3. part(k) \in Seq(PlacesIn(parts)) /\ Len(part(k)) \in Nat
      BY <1>3
    <3> QED
      BY <1>2, <3>2, <3>3
  <2>2. PICK a, b : a = c[k - 1] /\ b = part(k)
    OBVIOUS
  <2>3. /\ Len(a \o b) = Len(a) + Len(b)
        /\ \A i \in 1 .. Len(a) + Len(b) : (a \o b)[i] = IF i <= Len(a) THEN a[i] ELSE b[i - Len(a)]
    BY <2>1, <2>2, ConcatProperties
  <2>4. /\ Len(a) \in Nat /\ Len(b) \in Nat
    BY <2>1, <2>2
  <2>5. \A i \in 1 .. Len(a) : (a \o b)[i] = a[i]
    BY <2>3, <2>4
  <2>6. \A j \in 1 .. Len(b) : (a \o b)[Len(a) + j] = b[j]
    <3> TAKE j \in 1 .. Len(b)
    <3>1. Len(a) + j \in 1 .. Len(a) + Len(b) /\ ~(Len(a) + j <= Len(a)) /\ (Len(a) + j) - Len(a) = j
      BY <2>4
    <3> QED
      BY <2>3, <3>1
  <2> QED
    BY <2>1, <2>2, <2>3, <2>5, <2>6
<1> DEFINE Q == {m \in Nat : m <= n => \A k \in 0 .. m : /\ Len(c[k]) <= Len(c[m])
                                                         /\ \A i \in 1 .. Len(c[k]) : c[m][i] = c[k][i]}
<1>6. 0 \in Q
  <2>1. 0 \in 0 .. n /\ \A k \in 0 .. 0 : k = 0
    BY <1>1
  <2> QED
    BY <1>4, <2>1
<1>7. ASSUME NEW m \in Nat, m \in Q PROVE m + 1 \in Q
  <2> SUFFICES ASSUME m + 1 <= n, NEW k \in 0 .. m + 1
               PROVE  /\ Len(c[k]) <= Len(c[m + 1])
                      /\ \A i \in 1 .. Len(c[k]) : c[m + 1][i] = c[k][i]
    OBVIOUS
  <2>1. m + 1 \in 1 .. n /\ (m + 1) - 1 = m /\ m <= n /\ m \in 0 .. n /\ m + 1 \in 0 .. n
    BY <1>1
  <2>2. CASE k = m + 1
    BY <1>4, <2>1, <2>2
  <2>3. CASE k # m + 1
    <3>1. k \in 0 .. m /\ k \in 0 .. n
      BY <1>1, <2>1, <2>3
    <3>2. Len(c[k]) <= Len(c[m]) /\ \A i \in 1 .. Len(c[k]) : c[m][i] = c[k][i]
      BY <1>7, <2>1, <3>1
    <3>3. Len(c[m]) <= Len(c[m + 1]) /\ \A i \in 1 .. Len(c[m]) : c[m + 1][i] = c[m][i]
      BY <1>3, <1>4, <1>5, <2>1
    <3> QED
      BY <1>4, <2>1, <3>1, <3>2, <3>3
  <2> QED
    BY <2>2, <2>3
<1>8. n \in Q
  <2> HIDE DEF Q
  <2> QED
    BY <1>1, <1>6, <1>7, NumbersBySteps
<1>9. \A k \in 0 .. n : Len(c[k]) <= Len(all) /\ \A i \in 1 .. Len(c[k]) : all[i] = c[k][i]
  BY <1>1, <1>2, <1>8
<1>10. ASSUME NEW k \in 1 .. n
       PROVE  \A j \in 1 .. Len(part(k)) : all[Len(c[k - 1]) + j] = part(k)[j]
  <2> TAKE j \in 1 .. Len(part(k))
  <2>1. k \in 0 .. n /\ k - 1 \in 0 .. n
    BY <1>1
  <2>2. /\ Len(c[k - 1]) \in Nat /\ Len(part(k)) \in Nat
        /\ Len(c[k]) = Len(c[k - 1]) + Len(part(k))
    BY <1>3, <1>4, <1>5, <2>1
  <2>3. Len(c[k - 1]) + j \in 1 .. Len(c[k])
    BY <2>2
  <2> QED
    BY <1>5, <1>9, <2>1, <2>3
<1>11. all \in Seq(PlacesIn(parts))
  BY <1>1, <1>2
<1>12. \A k \in 1 .. n : Len(c[k]) = Len(c[k - 1]) + Len(parts[revision.start + k])
  BY <1>3, <1>5
<1>13. \A k \in 1 .. n : \A j \in 1 .. Len(parts[revision.start + k]) :
          all[Len(c[k - 1]) + j] = <<revision.start + k, j>>
  BY <1>3, <1>10
<1>14. all \in Seq(Places)
  <2>1. PlacesIn(parts) \subseteq Places
    BY DEF PlacesIn, Places
  <2> QED
    BY <1>11, <2>1, SeqMonotonic
<1> QED
  BY <1>1, <1>4, <1>9, <1>11, <1>12, <1>13, <1>14 DEF n, all, Laid

LEMMA ContentTyped ==
    ASSUME NEW parts \in Seq(Seq(Nat)), NEW revision \in Shown, Within(revision, parts)
    PROVE  Content(parts, revision) \in Seq(PlacesIn(parts)) /\ Len(Content(parts, revision)) \in Nat
<1>1. PICK c : Contents(c, parts, revision)
  BY ContentsExist
<1>2. Content(parts, revision) \in Seq(PlacesIn(parts))
  BY <1>1, ContentsGrow DEF Laid
<1> QED
  BY <1>2

\* Its places are in parts that are committed.
LEMMA ContentPlaces ==
    ASSUME NEW parts \in Seq(Seq(Nat)), NEW revision \in Shown, Within(revision, parts),
           NEW all, all = Content(parts, revision), NEW i \in 1 .. Len(all)
    PROVE  all[i][1] \in 1 .. Len(parts)
<1>1. all \in Seq(PlacesIn(parts))
  BY ContentTyped
<1>2. all[i] \in PlacesIn(parts)
  BY <1>1
<1> QED
  BY <1>2 DEF PlacesIn

\* Parts that are added do not change it.
LEMMA ContentStays ==
    ASSUME NEW parts \in Seq(Seq(Nat)), NEW revision \in Shown, Within(revision, parts),
           NEW more, \A i \in 1 .. Len(parts) : more[i] = parts[i]
    PROVE  Content(more, revision) = Content(parts, revision)
<1>1. \A k \in 1 .. revision.cutoff - revision.start : revision.start + k \in 1 .. Len(parts)
  BY DEF Within, Shown
<1>2. [k \in 1 .. revision.cutoff - revision.start |->
          [j \in 1 .. Len(more[revision.start + k]) |-> <<revision.start + k, j>>]]
      = [k \in 1 .. revision.cutoff - revision.start |->
          [j \in 1 .. Len(parts[revision.start + k]) |-> <<revision.start + k, j>>]]
  BY <1>1
<1> QED
  BY <1>2 DEF Content

-----------------------------------------------------------------------------
(* One page of a result.                                                   *)

\* What page_metadata_bytes adds up is what is sent.
LEMMA PageBytesAreSent ==
    ASSUME NEW next \in Nat, NEW returned \in Nat, NEW total \in Nat, NEW a \in Nat, NEW b \in Nat
    PROVE  /\ PageBytes(next, returned, total) + a + b = Sent(next, returned, total, a + b)
           /\ Sent(next, returned, total, a + b) \in Nat
<1>1. \A m \in Nat : Digits(m) \in Nat
  <2> TAKE m \in Nat
  <2>1. IsFiniteSet(1 .. m)
    BY FS_Interval
  <2>2. IsFiniteSet({d \in 1 .. m : Base^d <= m})
    BY <2>1, FS_Subset
  <2> QED
    BY <2>2, FS_CardinalityType DEF Digits
<1>2. Fixed \in Nat /\ Token \in Nat
  BY PagingAssumption
<1>3. PICK x, y : x = Digits(next) /\ y = Digits(returned)
  OBVIOUS
<1>4. x \in Nat /\ y \in Nat
  BY <1>1, <1>3
<1> QED
  BY <1>2, <1>3, <1>4 DEF PageBytes, Sent

Pages == [position : Nat, rows : Seq(Places), bytes : Nat, full : BOOLEAN, refused : BOOLEAN]
Requests == [offset : Nat, limit : Nat, budget : Nat]

\* Bytes of the row at a place.
Size(parts, place) == parts[place[1]][place[2]]

\* A page holds rows from the offset on and fits.
Holds(page, parts, all, request) ==
    LET o == request.offset
        n == Len(page.rows)
    IN  /\ page \in Pages
        /\ o + n <= Len(all)
        /\ \A i \in 1 .. n : page.rows[i] = all[o + i]
        /\ n = 0 => page.bytes = 0
        /\ Sent(o + n, n, Len(all), page.bytes) <= request.budget
        /\ page.refused => /\ page.full /\ n = 0 /\ o < Len(all)
                           /\ Sent(o + 1, 1, Len(all), Size(parts, all[o + 1])) > request.budget

\* When the loop has passed p rows.
Passed(page, p, request) ==
    ~page.full => /\ page.position = p
                  /\ Len(page.rows) = IF p <= request.offset THEN 0 ELSE p - request.offset

\* What the loop does to a page.
LEMMA PageTyped ==
    ASSUME NEW page \in Pages
    PROVE  /\ page.position \in Nat /\ page.bytes \in Nat /\ page.rows \in Seq(Places)
           /\ page.full \in BOOLEAN /\ page.refused \in BOOLEAN
           /\ Len(page.rows) \in Nat /\ (Len(page.rows) = 0 <=> page.rows = <<>>)
<1>1. /\ page.position \in Nat /\ page.bytes \in Nat /\ page.rows \in Seq(Places)
      /\ page.full \in BOOLEAN /\ page.refused \in BOOLEAN
  BY DEF Pages
<1> QED
  BY <1>1, EmptySeq, LenProperties

LEMMA PagePasses ==
    ASSUME NEW page \in Pages, NEW m \in Nat, NEW q, q = [page EXCEPT !.position = @ + m]
    PROVE  /\ q \in Pages /\ q.position = page.position + m
           /\ q.rows = page.rows /\ q.bytes = page.bytes
           /\ q.full = page.full /\ q.refused = page.refused
BY DEF Pages

LEMMA PageFills ==
    ASSUME NEW page \in Pages, NEW q, q = [page EXCEPT !.full = TRUE]
    PROVE  /\ q \in Pages /\ q.full /\ q.rows = page.rows /\ q.bytes = page.bytes
           /\ q.refused = page.refused
BY DEF Pages

LEMMA PageEnds ==
    ASSUME NEW page \in Pages, NEW q,
           q = [page EXCEPT !.full = TRUE, !.refused = page.rows = <<>>]
    PROVE  /\ q \in Pages /\ q.full /\ q.rows = page.rows /\ q.bytes = page.bytes
           /\ q.refused <=> page.rows = <<>>
<1>1. q.full = TRUE /\ q.rows = page.rows /\ q.bytes = page.bytes /\ q.position = page.position
  BY DEF Pages
<1>2. q.refused = (page.rows = <<>>)
  BY DEF Pages
<1>3. q = [position |-> q.position, rows |-> q.rows, bytes |-> q.bytes, full |-> q.full, refused |-> q.refused]
  BY DEF Pages
<1>4. q \in Pages
  BY PageTyped, <1>1, <1>2, <1>3 DEF Pages
<1> QED
  BY <1>1, <1>2, <1>4

LEMMA TakeRowIsGood ==
    ASSUME NEW parts \in Seq(Seq(Nat)), NEW all \in Seq(Places), NEW request \in Requests,
           NEW page, NEW p \in Nat, Holds(page, parts, all, request), Passed(page, p, request),
           p < Len(all), NEW i \in 1 .. Len(parts), NEW j \in 1 .. Len(parts[i]),
           all[p + 1] = <<i, j>>
    PROVE  LET next == TakeRow(page, request, Len(all), i, parts[i], j)
           IN  Holds(next, parts, all, request) /\ Passed(next, p + 1, request)
<1>1. PICK o, n, size, total : /\ o = request.offset /\ n = Len(page.rows)
                               /\ size = parts[i][j] /\ total = Len(all)
  OBVIOUS
<1>2. PICK bytes : bytes = size + (IF page.rows = <<>> THEN 0 ELSE 1)
  OBVIOUS
<1>3. PICK bill : bill = PageBytes(o + (n + 1), n + 1, total) + page.bytes + bytes
  OBVIOUS
<1>4. PICK next : next = TakeRow(page, request, total, i, parts[i], j)
  OBVIOUS
<1>5. next = IF page.full THEN page
             ELSE IF page.position < o THEN [page EXCEPT !.position = @ + 1]
             ELSE IF n + 1 > request.limit THEN [page EXCEPT !.full = TRUE]
             ELSE IF bill > request.budget
             THEN [page EXCEPT !.full = TRUE, !.refused = page.rows = <<>>]
             ELSE [page EXCEPT !.position = @ + 1, !.rows = Append(@, <<i, j>>), !.bytes = @ + bytes]
  BY <1>1, <1>2, <1>3, <1>4 DEF TakeRow
<1>6. /\ page \in Pages /\ o + n <= total
      /\ \A k \in 1 .. n : page.rows[k] = all[o + k]
      /\ n = 0 => page.bytes = 0
      /\ Sent(o + n, n, total, page.bytes) <= request.budget
      /\ page.refused => /\ page.full /\ n = 0 /\ o < total
                         /\ Sent(o + 1, 1, total, Size(parts, all[o + 1])) > request.budget
  BY <1>1 DEF Holds
<1>7. ~page.full => page.position = p /\ n = IF p <= o THEN 0 ELSE p - o
  BY <1>1 DEF Passed
<1>8. ASSUME /\ next \in Pages /\ o + Len(next.rows) <= total
             /\ \A k \in 1 .. Len(next.rows) : next.rows[k] = all[o + k]
             /\ Len(next.rows) = 0 => next.bytes = 0
             /\ Sent(o + Len(next.rows), Len(next.rows), total, next.bytes) <= request.budget
             /\ next.refused => /\ next.full /\ Len(next.rows) = 0 /\ o < total
                                /\ Sent(o + 1, 1, total, Size(parts, all[o + 1])) > request.budget,
             ~next.full => /\ next.position = p + 1
                           /\ Len(next.rows) = IF p + 1 <= o THEN 0 ELSE (p + 1) - o
      PROVE  Holds(next, parts, all, request) /\ Passed(next, p + 1, request)
  BY <1>1, <1>8 DEF Holds, Passed
<1>9. /\ o \in Nat /\ request.limit \in Nat /\ request.budget \in Nat /\ total \in Nat
  BY <1>1, LenProperties DEF Requests
<1>10. /\ size \in Nat /\ bytes \in Nat /\ <<i, j>> \in Places /\ Size(parts, <<i, j>>) = size
  <2>1. parts[i] \in Seq(Nat) /\ i \in Nat /\ j \in Nat
    OBVIOUS
  <2>2. size \in Nat
    BY <1>1, <2>1
  <2>3. <<i, j>> \in Places /\ Size(parts, <<i, j>>) = size
    BY <1>1, <2>1 DEF Size, Places
  <2> QED
    BY <1>2, <2>2, <2>3
<1>11. /\ page.position \in Nat /\ page.bytes \in Nat /\ n \in Nat
       /\ n = 0 <=> page.rows = <<>>
  BY <1>1, <1>6, PageTyped
<1>12. p + 1 <= total /\ all[p + 1] = <<i, j>>
  BY <1>1, <1>9
<1>19. o \in Nat /\ n \in Nat /\ total \in Nat /\ p \in Nat
  BY <1>9, <1>11
<1>20. size \in Nat /\ bytes \in Nat /\ page.bytes \in Nat
  BY <1>10, <1>11
<1> SUFFICES Holds(next, parts, all, request) /\ Passed(next, p + 1, request)
  BY <1>1, <1>4
<1>13. CASE page.full
  <2>1. next = page
    BY <1>5, <1>13
  <2> QED
    BY <1>13, <2>1 DEF Passed
<1>14. CASE ~page.full /\ page.position < o
  <2>1. PICK m \in Nat : m = 1
    OBVIOUS
  <2>4. next = [page EXCEPT !.position = @ + m]
    BY <1>5, <1>14, <2>1
  <2>5. /\ next.position = page.position + m /\ next.rows = page.rows /\ next.bytes = page.bytes
        /\ next.full = page.full /\ next.refused = page.refused /\ next \in Pages
    BY ONLY <1>6, <2>4, PagePasses
  <2>2. /\ next.position = page.position + 1 /\ next.rows = page.rows /\ next.bytes = page.bytes
        /\ next.full = page.full /\ next.refused = page.refused /\ next \in Pages
    BY <2>1, <2>5
  <2>3. n = 0 /\ p + 1 <= o
    BY ONLY <1>7, <1>14, <1>19
  <2> QED
    BY <1>1, <1>6, <1>7, <1>8, <1>14, <2>2, <2>3
<1>15. ASSUME ~page.full, ~(page.position < o)
       PROVE  page.position = p /\ p >= o /\ n = p - o /\ o + (n + 1) = p + 1 /\ ~(p + 1 <= o)
              /\ ~page.refused
  <2>1. page.position = p /\ p >= o
    BY <1>7, <1>9, <1>15
  <2>2. n = p - o
    BY <1>7, <1>9, <1>15, <2>1
  <2>3. ~page.refused
    BY <1>6, <1>15
  <2> QED
    BY <1>9, <2>1, <2>2, <2>3
<1>16. CASE ~page.full /\ ~(page.position < o) /\ n + 1 > request.limit
  <2>1. next = [page EXCEPT !.full = TRUE]
    BY <1>5, <1>16
  <2>2. /\ next.rows = page.rows /\ next.bytes = page.bytes
        /\ next.full /\ next.refused = page.refused /\ next \in Pages
    BY <1>6, <2>1, PageFills
  <2> QED
    BY <1>1, <1>6, <1>8, <1>15, <1>16, <2>2
<1>17. CASE /\ ~page.full /\ ~(page.position < o) /\ ~(n + 1 > request.limit)
            /\ bill > request.budget
  <2>1. next = [page EXCEPT !.full = TRUE, !.refused = page.rows = <<>>]
    BY <1>5, <1>17
  <2>2. /\ next.rows = page.rows /\ next.bytes = page.bytes /\ next.full /\ next \in Pages
        /\ next.refused <=> page.rows = <<>>
    BY <1>6, <2>1, PageEnds
  <2>3. ASSUME n = 0
        PROVE  o < total /\ Sent(o + 1, 1, total, Size(parts, all[o + 1])) > request.budget
    <3>1. p = o /\ bytes = size /\ page.bytes = 0
      BY <1>2, <1>6, <1>9, <1>10, <1>11, <1>15, <1>17, <2>3
    <3>2. Size(parts, all[o + 1]) = size
      BY <1>10, <1>12, <3>1
    <3>3. o + 1 \in Nat /\ 1 \in Nat /\ 0 \in Nat
      BY <1>9
    <3>4. PageBytes(o + 1, 1, total) + 0 + size = Sent(o + 1, 1, total, 0 + size)
      <4>1. PICK m, r, z : m = o + 1 /\ r = 1 /\ z = 0
        OBVIOUS
      <4>2. m \in Nat /\ r \in Nat /\ z \in Nat
        BY <3>3, <4>1
      <4>3. PageBytes(m, r, total) + z + size = Sent(m, r, total, z + size)
        BY ONLY <1>19, <1>20, <4>2, PageBytesAreSent
      <4> QED
        BY <4>1, <4>3
    <3>5. 0 + size = size /\ n + 1 = 1
      BY <1>10, <2>3
    <3>6. PageBytes(o + 1, 1, total) + 0 + size > request.budget
      BY <1>3, <1>17, <3>1, <3>5
    <3>7. o < total
      BY <1>9, <1>12, <3>1
    <3> QED
      BY <3>2, <3>4, <3>5, <3>6, <3>7
  <2> QED
    BY <1>1, <1>6, <1>8, <1>11, <2>2, <2>3
<1>18. CASE /\ ~page.full /\ ~(page.position < o) /\ ~(n + 1 > request.limit)
            /\ ~(bill > request.budget)
  <2>1. next = [page EXCEPT !.position = @ + 1, !.rows = Append(@, <<i, j>>), !.bytes = @ + bytes]
    BY <1>5, <1>18
  <2>2. /\ next \in Pages /\ next.position = page.position + 1 /\ next.bytes = page.bytes + bytes
        /\ next.full = page.full /\ next.refused = page.refused
        /\ Len(next.rows) = n + 1 /\ next.rows[n + 1] = <<i, j>>
        /\ \A k \in 1 .. n : next.rows[k] = page.rows[k]
    <3>1. PICK place : place = <<i, j>>
      OBVIOUS
    <3>2. PICK more : more = Append(page.rows, place)
      OBVIOUS
    <3>3. place \in Places /\ page.rows \in Seq(Places)
      BY <1>6, <1>10, <3>1, PageTyped
    <3>4. /\ more \in Seq(Places) /\ Len(more) = Len(page.rows) + 1
          /\ more[Len(page.rows) + 1] = place
          /\ \A k \in 1 .. Len(page.rows) : more[k] = page.rows[k]
      BY <3>2, <3>3, AppendProperties
    <3>5. PICK m \in Nat : m = page.bytes + bytes
      BY <1>20
    <3>6. next = [page EXCEPT !.position = @ + 1, !.rows = more, !.bytes = m]
      BY <2>1, <3>1, <3>2, <3>5
    <3>7. /\ next \in Pages /\ next.position = page.position + 1 /\ next.bytes = m /\ next.rows = more
          /\ next.full = page.full /\ next.refused = page.refused
      <4>1. page \in Pages /\ more \in Seq(Places)
        BY <1>6, <3>4
      <4>2. /\ page.position \in Nat /\ page.full \in BOOLEAN /\ page.refused \in BOOLEAN
        BY <4>1, PageTyped
      <4>3. /\ next.position = page.position + 1 /\ next.bytes = m /\ next.rows = more
            /\ next.full = page.full /\ next.refused = page.refused
            /\ next = [position |-> next.position, rows |-> next.rows, bytes |-> next.bytes,
                       full |-> next.full, refused |-> next.refused]
        BY ONLY <3>6, <4>1 DEF Pages
      <4>4. /\ next.position \in Nat /\ next.rows \in Seq(Places) /\ next.bytes \in Nat
            /\ next.full \in BOOLEAN /\ next.refused \in BOOLEAN
        BY <3>5, <4>1, <4>2, <4>3
      <4>5. next \in Pages
        BY ONLY <4>3, <4>4 DEF Pages
      <4> QED
        BY <4>3, <4>5
    <3> QED
      BY <1>1, <3>1, <3>4, <3>5, <3>7
  <2>3. Sent(o + (n + 1), n + 1, total, page.bytes + bytes) <= request.budget
    <3>1. o + (n + 1) \in Nat /\ n + 1 \in Nat
      BY ONLY <1>19
    <3>2. bill = Sent(o + (n + 1), n + 1, total, page.bytes + bytes) /\ bill \in Nat
      <4>1. PICK m, r : m = o + (n + 1) /\ r = n + 1
        OBVIOUS
      <4>2. m \in Nat /\ r \in Nat
        BY <3>1, <4>1
      <4>3. /\ PageBytes(m, r, total) + page.bytes + bytes = Sent(m, r, total, page.bytes + bytes)
            /\ Sent(m, r, total, page.bytes + bytes) \in Nat
        BY ONLY <1>19, <1>20, <4>2, PageBytesAreSent
      <4> QED
        BY <1>3, <4>1, <4>3
    <3>3. bill <= request.budget
      BY <1>9, <1>18, <3>2
    <3> QED
      BY <3>2, <3>3
  <2>4. ASSUME NEW k \in 1 .. n + 1 PROVE next.rows[k] = all[o + k]
    <3>1. CASE k = n + 1
      BY <1>12, <1>15, <1>18, <2>2, <3>1
    <3>2. CASE k # n + 1
      <4>1. k \in 1 .. n
        BY <1>11, <3>2
      <4> QED
        BY <1>6, <2>2, <4>1
    <3> QED
      BY <3>1, <3>2
  <2>5. /\ o + (n + 1) <= total /\ n + 1 # 0 /\ n + 1 = (p + 1) - o
    <3>1. n = p - o /\ p >= o
      BY <1>15, <1>18
    <3> QED
      BY <1>9, <1>11, <1>12, <3>1
  <2> QED
    BY <1>8, <1>15, <1>18, <2>2, <2>3, <2>4, <2>5
<1> QED
  BY <1>13, <1>14, <1>16, <1>17, <1>18

LEMMA TakePartIsGood ==
    ASSUME NEW parts \in Seq(Seq(Nat)), NEW all \in Seq(Places), NEW request \in Requests,
           NEW page, NEW p \in Nat, Holds(page, parts, all, request), Passed(page, p, request),
           NEW i \in 1 .. Len(parts), p + Len(parts[i]) <= Len(all),
           \A j \in 1 .. Len(parts[i]) : all[p + j] = <<i, j>>
    PROVE  LET next == TakePart(page, request, Len(all), i, parts[i])
           IN  Holds(next, parts, all, request) /\ Passed(next, p + Len(parts[i]), request)
<1> DEFINE N == Len(parts[i])
           next == TakePart(page, request, Len(all), i, parts[i])
           row(q, j) == TakeRow(q, request, Len(all), i, parts[i], j)
           whole(f) == [j \in 0 .. N |-> IF j = 0 THEN page ELSE row(f[j - 1], j)]
           after == CHOOSE f : f = whole(f)
           good(q, j) == Holds(q, parts, all, request) /\ Passed(q, p + j, request)
<1>1. /\ parts[i] \in Seq(Nat) /\ N \in Nat /\ page \in Pages /\ request.offset \in Nat
      /\ Len(all) \in Nat
  BY DEF Holds, Requests
<1>2. next = IF page.full THEN page
             ELSE IF page.position + N <= request.offset THEN Pass(page, parts[i])
             ELSE IF Len(page.rows) >= request.limit THEN [page EXCEPT !.full = TRUE]
             ELSE after[N]
  BY DEF TakePart
<1>3. CASE page.full
  BY <1>2, <1>3 DEF Passed
<1>4. CASE ~page.full /\ page.position + N <= request.offset
  <2>1. PICK q : q = [page EXCEPT !.position = @ + N]
    OBVIOUS
  <2>2. next = q
    BY <1>2, <1>4, <2>1 DEF Pass
  <2>3. /\ q.position = page.position + N /\ q.rows = page.rows /\ q.bytes = page.bytes
        /\ q.full = page.full /\ q.refused = page.refused /\ q \in Pages
    <3> HIDE DEF N
    <3> QED
      BY <1>1, <2>1, PagePasses
  <2>4. page.position = p /\ Len(page.rows) = 0
    BY <1>1, <1>4 DEF Passed
  <2>5. Holds(q, parts, all, request)
    BY <2>3 DEF Holds
  <2>6. Passed(q, p + N, request)
    <3> HIDE DEF N
    <3> QED
      BY <1>4, <2>3, <2>4 DEF Passed
  <2> QED
    BY <2>2, <2>5, <2>6
<1>5. CASE ~page.full /\ ~(page.position + N <= request.offset) /\ Len(page.rows) >= request.limit
  <2>1. PICK q : q = [page EXCEPT !.full = TRUE]
    OBVIOUS
  <2>2. next = q
    BY <1>2, <1>5, <2>1
  <2>3. /\ q.rows = page.rows /\ q.bytes = page.bytes
        /\ q.full /\ q.refused = page.refused /\ q \in Pages
    BY <1>1, <2>1, PageFills
  <2>4. Holds(q, parts, all, request)
    BY <2>3 DEF Holds
  <2>5. Passed(q, p + N, request)
    BY <2>3 DEF Passed
  <2> QED
    BY <2>2, <2>4, <2>5
<1>6. ASSUME ~page.full, ~(page.position + N <= request.offset), ~(Len(page.rows) >= request.limit)
      PROVE  Holds(next, parts, all, request) /\ Passed(next, p + N, request)
  <2> DEFINE D == {q \in Pages : Holds(q, parts, all, request)}
             step == [x \in (1 .. N) \X D |-> row(x[2], x[1])]
             fine == [x \in (1 .. N) \X D |-> IF good(x[2], x[1] - 1) THEN row(x[2], x[1]) ELSE x[2]]
  <2>1. ASSUME NEW q, NEW j \in 1 .. N, good(q, j - 1) PROVE good(row(q, j), j) /\ row(q, j) \in D
    <3>1. p + (j - 1) \in Nat /\ p + (j - 1) < Len(all) /\ (p + (j - 1)) + 1 = p + j
      BY <1>1
    <3>2. all[(p + (j - 1)) + 1] = <<i, j>>
      BY <3>1
    <3>3. Holds(row(q, j), parts, all, request) /\ Passed(row(q, j), (p + (j - 1)) + 1, request)
      BY <2>1, <3>1, <3>2, TakeRowIsGood
    <3> QED
      BY <3>1, <3>3 DEF Holds
  <2>2. page \in D
    BY <1>1
  <2>3. fine \in [(1 .. N) \X D -> D]
    <3> HIDE DEF row, D, good
    <3> QED
      BY <2>1
  <2>4. PICK fl \in [0 .. N -> D] : Follows(fl, N, page, fine)
    <3> HIDE DEF D, fine, N
    <3> QED
      BY <1>1, <2>2, <2>3, StepsExist
  <2>5. ASSUME NEW j \in 1 .. N
        PROVE  j - 1 \in 0 .. N /\ fl[j] = IF good(fl[j - 1], j - 1) THEN row(fl[j - 1], j) ELSE fl[j - 1]
    <3>1. j - 1 \in 0 .. N
      BY <1>1
    <3>2. fl[j] = fine[<<j, fl[j - 1]>>] /\ <<j, fl[j - 1]>> \in (1 .. N) \X D
      BY <2>4, <3>1 DEF Follows
    <3> QED
      BY <3>1, <3>2
  <2>6. fl[0] = page /\ good(page, 0)
    <3>1. p + 0 = p
      OBVIOUS
    <3> QED
      BY <2>4, <3>1 DEF Follows
  <2> DEFINE Q == {j \in Nat : j <= N => good(fl[j], j)}
  <2> HIDE DEF row, D, fine, good, N
  <2>7. 0 \in Q
    BY <2>6
  <2>8. ASSUME NEW j \in Nat, j \in Q PROVE j + 1 \in Q
    <3> SUFFICES ASSUME j + 1 <= N PROVE good(fl[j + 1], j + 1)
      OBVIOUS
    <3>1. j + 1 \in 1 .. N /\ (j + 1) - 1 = j /\ j <= N
      BY <1>1
    <3>2. good(fl[j], j)
      BY <2>8, <3>1
    <3>3. fl[j + 1] = row(fl[j], j + 1)
      BY <2>5, <3>1, <3>2
    <3>4. good(fl[(j + 1) - 1], (j + 1) - 1)
      BY <3>1, <3>2
    <3> QED
      BY <2>1, <3>1, <3>2, <3>3, <3>4
  <2>9. \A j \in Nat : j \in Q
    <3> HIDE DEF Q
    <3> QED
      BY <2>7, <2>8, NumbersBySteps
  <2>10. PICK found : found = [j \in 0 .. N |-> fl[j]]
    OBVIOUS
  <2>11. found = whole(found)
    <3>1. \A j \in 0 .. N : j # 0 => j \in 1 .. N /\ j - 1 \in 0 .. N /\ j - 1 \in Nat /\ j - 1 <= N
      BY <1>1
    <3>2. \A j \in 1 .. N : fl[j] = row(fl[j - 1], j)
      BY <1>1, <2>5, <2>9, <3>1
    <3> QED
      BY <2>6, <2>10, <3>1, <3>2
  <2>12. after = whole(after)
    <3> HIDE DEF whole
    <3> QED
      BY <2>11
  <2> HIDE DEF after
  <2>13. after[0] = page /\ \A j \in 1 .. N : after[j] = row(after[j - 1], j)
    <3>1. 0 \in 0 .. N /\ \A j \in 1 .. N : j \in 0 .. N /\ j # 0
      BY <1>1
    <3> QED
      BY <2>12, <3>1
  <2> HIDE DEF whole
  <2> DEFINE Q2 == {j \in Nat : j <= N => good(after[j], j)}
  <2>14. 0 \in Q2
    BY <2>6, <2>13
  <2>15. ASSUME NEW j \in Nat, j \in Q2 PROVE j + 1 \in Q2
    <3> SUFFICES ASSUME j + 1 <= N PROVE good(after[j + 1], j + 1)
      OBVIOUS
    <3>1. j + 1 \in 1 .. N /\ (j + 1) - 1 = j /\ j <= N
      BY <1>1
    <3>2. good(after[(j + 1) - 1], (j + 1) - 1)
      BY <2>15, <3>1
    <3>3. after[j + 1] = row(after[(j + 1) - 1], j + 1)
      BY <2>13, <3>1
    <3> QED
      BY <2>1, <3>1, <3>2, <3>3
  <2>16. good(after[N], N)
    <3>1. N \in Q2
      <4> HIDE DEF Q2
      <4> QED
        BY <1>1, <2>14, <2>15, NumbersBySteps
    <3> QED
      BY <1>1, <3>1
  <2>17. next = after[N]
    BY <1>2, <1>6 DEF N
  <2> QED
    BY <2>16, <2>17 DEF good
<1> QED
  BY <1>3, <1>4, <1>5, <1>6

\* A page of a revision holds its rows from the offset on, or is refused
\* because one row, or nothing at all, does not fit.
LEMMA PageIsExact ==
    ASSUME NEW parts \in Seq(Seq(Nat)), NEW revision \in Shown, Within(revision, parts),
           NEW all, all = Content(parts, revision), revision.rows = Len(all),
           NEW request \in Requests, request.offset <= Len(all)
    PROVE  LET page == Page(parts, revision, request)
               o == request.offset
           IN  /\ page.refused =>
                     \/ Sent(o, 0, Len(all), 0) > request.budget
                     \/ /\ o < Len(all)
                        /\ Sent(o + 1, 1, Len(all), Size(parts, all[o + 1])) > request.budget
               /\ ~page.refused => Holds(page, parts, all, request)
<1> DEFINE o == request.offset
           total == revision.rows
           nothing == [position |-> 0, rows |-> <<>>, bytes |-> 0, full |-> FALSE,
                       refused |-> Sent(o, 0, total, 0) > request.budget]
           shown == Snapshot(revision)
           N == Len(shown)
           take(q, k) == TakePart(q, request, total, shown[k], parts[shown[k]])
           whole(f) == [k \in 0 .. N |-> IF k = 0 THEN nothing ELSE take(f[k - 1], k)]
           after == CHOOSE f : f = whole(f)
           page == Page(parts, revision, request)
<1>1. PICK c : Contents(c, parts, revision)
  BY ContentsExist
<1>2. /\ N = revision.cutoff - revision.start /\ N \in Nat
      /\ \A k \in 1 .. N : shown[k] = revision.start + k
  <2>1. revision.cutoff - revision.start \in Nat
    BY DEF Within, Shown
  <2> QED
    BY <2>1 DEF Snapshot
<1> HIDE DEF N, shown
<1>3. /\ all \in Seq(Places)
      /\ \A k \in 0 .. N : Len(c[k]) \in Nat /\ Len(c[k]) <= Len(all)
      /\ \A k \in 1 .. N :
            /\ shown[k] \in 1 .. Len(parts)
            /\ Len(c[k]) = Len(c[k - 1]) + Len(parts[shown[k]])
            /\ \A j \in 1 .. Len(parts[shown[k]]) : all[Len(c[k - 1]) + j] = <<shown[k], j>>
  <2>1. Laid(c, parts, revision)
    BY <1>1, ContentsGrow
  <2>2. PICK n : n = revision.cutoff - revision.start
    OBVIOUS
  <2>3. /\ all \in Seq(Places)
        /\ \A k \in 0 .. n : Len(c[k]) \in Nat /\ Len(c[k]) <= Len(all)
    BY <2>1, <2>2 DEF Laid
  <2>4. \A k \in 1 .. n : revision.start + k \in 1 .. Len(parts)
    BY <2>1, <2>2 DEF Laid
  <2>5. \A k \in 1 .. n : Len(c[k]) = Len(c[k - 1]) + Len(parts[revision.start + k])
    BY <2>1, <2>2 DEF Laid
  <2>6. \A k \in 1 .. n : \A j \in 1 .. Len(parts[revision.start + k]) :
           all[Len(c[k - 1]) + j] = <<revision.start + k, j>>
    BY <2>1, <2>2 DEF Laid
  <2> QED
    BY <1>2, <2>2, <2>3, <2>4, <2>5, <2>6
<1>4. c[0] = <<>> /\ Len(c[0]) = 0
  BY <1>1 DEF Contents
<1>5. /\ o \in Nat /\ request.budget \in Nat /\ Len(all) \in Nat /\ total = Len(all)
      /\ Sent(o, 0, total, 0) \in Nat
  <2>1. o \in Nat /\ request.budget \in Nat /\ Len(all) \in Nat
    BY <1>3 DEF Requests
  <2>2. PICK z : z = 0
    OBVIOUS
  <2>3. z \in Nat /\ total \in Nat
    BY <2>1, <2>2
  <2>4. Sent(o, z, total, z + z) \in Nat
    <3> HIDE DEF o, total
    <3> QED
      BY ONLY <2>1, <2>3, PageBytesAreSent
  <2> QED
    BY <2>1, <2>2, <2>4
<1>6. page = IF nothing.refused THEN nothing ELSE after[N]
  BY DEF Page, N, shown
<1>10. nothing.refused <=> Sent(o, 0, total, 0) > request.budget
  <2>1. nothing.refused = (Sent(o, 0, total, 0) > request.budget)
    OBVIOUS
  <2> HIDE DEF nothing
  <2> QED
    BY <2>1, Zenon
<1>7. CASE nothing.refused
  BY <1>5, <1>6, <1>7, <1>10
<1>8. ASSUME ~nothing.refused PROVE Holds(page, parts, all, request)
  <2> DEFINE good(q, k) == Holds(q, parts, all, request) /\ Passed(q, Len(c[k]), request)
             D == {q \in Pages : Holds(q, parts, all, request)}
             fine == [x \in (1 .. N) \X D |-> IF good(x[2], x[1] - 1) THEN take(x[2], x[1]) ELSE x[2]]
  <2>1. good(nothing, 0)
    <3>1. PICK q : q = nothing
      OBVIOUS
    <3>2. /\ q \in Pages /\ q.rows = <<>> /\ q.bytes = 0 /\ ~q.refused /\ q.position = 0
          /\ Len(q.rows) = 0
      <4>1. (Sent(o, 0, total, 0) > request.budget) \in BOOLEAN
        OBVIOUS
      <4>2. PICK b : b = (Sent(o, 0, total, 0) > request.budget)
        OBVIOUS
      <4>3. b \in BOOLEAN /\ q = [position |-> 0, rows |-> <<>>, bytes |-> 0, full |-> FALSE, refused |-> b]
        BY <3>1, <4>1, <4>2
      <4>4. <<>> \in Seq(Places) /\ 0 \in Nat
        OBVIOUS
      <4>5. q.refused = nothing.refused
        BY <3>1
      <4> HIDE DEF nothing
      <4> QED
        BY <1>8, <4>3, <4>4, <4>5, EmptySeq DEF Pages
    <3>3. Sent(o + 0, 0, Len(all), 0) <= request.budget
      <4>1. ~(Sent(o, 0, total, 0) > request.budget) /\ o + 0 = o
        BY <1>5, <1>8, <1>10
      <4> HIDE DEF nothing, o, total
      <4> QED
        BY <1>5, <4>1
    <3>4. Holds(q, parts, all, request)
      BY <1>5, <3>2, <3>3 DEF Holds
    <3>5. Passed(q, Len(c[0]), request)
      BY <1>4, <1>5, <3>2 DEF Passed
    <3> QED
      BY <3>1, <3>4, <3>5
  <2>2. ASSUME NEW q, NEW k \in 1 .. N, good(q, k - 1) PROVE good(take(q, k), k) /\ take(q, k) \in D
    <3>1. k - 1 \in 0 .. N /\ k \in 0 .. N
      BY <1>2
    <3>2. PICK i : i = shown[k]
      OBVIOUS
    <3>3. PICK p \in Nat : p = Len(c[k - 1])
      BY <1>3, <3>1
    <3>4. /\ i \in 1 .. Len(parts) /\ Len(c[k]) = p + Len(parts[i]) /\ p + Len(parts[i]) <= Len(all)
          /\ \A j \in 1 .. Len(parts[i]) : all[p + j] = <<i, j>>
      BY <1>3, <3>1, <3>2, <3>3
    <3>5. Holds(q, parts, all, request) /\ Passed(q, p, request)
      BY <2>2, <3>3
    <3>6. LET next == TakePart(q, request, Len(all), i, parts[i])
          IN  Holds(next, parts, all, request) /\ Passed(next, p + Len(parts[i]), request)
      BY <1>3, <3>4, <3>5, TakePartIsGood
    <3>7. take(q, k) = TakePart(q, request, Len(all), i, parts[i])
      BY <1>5, <3>2
    <3>8. good(take(q, k), k)
      BY <3>4, <3>6, <3>7
    <3> HIDE DEF take
    <3> QED
      BY <3>8 DEF Holds
  <2> HIDE DEF take, nothing
  <2>3. nothing \in D
    BY <2>1 DEF Holds
  <2>4. fine \in [(1 .. N) \X D -> D]
    <3> HIDE DEF D, good
    <3> QED
      BY <2>2
  <2>5. PICK fl \in [0 .. N -> D] : Follows(fl, N, nothing, fine)
    <3> HIDE DEF D, fine
    <3> QED
      BY <1>2, <2>3, <2>4, StepsExist
  <2> HIDE DEF D
  <2>6. ASSUME NEW k \in 1 .. N
        PROVE  k - 1 \in 0 .. N /\ fl[k] = IF good(fl[k - 1], k - 1) THEN take(fl[k - 1], k) ELSE fl[k - 1]
    <3>1. k - 1 \in 0 .. N
      BY <1>2
    <3>2. fl[k] = fine[<<k, fl[k - 1]>>] /\ <<k, fl[k - 1]>> \in (1 .. N) \X D
      BY <2>5, <3>1 DEF Follows
    <3> QED
      BY <3>1, <3>2
  <2>7. fl[0] = nothing
    BY <2>5 DEF Follows
  <2> HIDE DEF good, fine
  <2> DEFINE Q == {k \in Nat : k <= N => good(fl[k], k)}
  <2>8. 0 \in Q
    BY <2>1, <2>7
  <2>9. ASSUME NEW k \in Nat, k \in Q PROVE k + 1 \in Q
    <3> SUFFICES ASSUME k + 1 <= N PROVE good(fl[k + 1], k + 1)
      OBVIOUS
    <3>1. k + 1 \in 1 .. N /\ (k + 1) - 1 = k /\ k <= N
      BY <1>2
    <3>2. good(fl[(k + 1) - 1], (k + 1) - 1)
      BY <2>9, <3>1
    <3>3. fl[k + 1] = take(fl[(k + 1) - 1], k + 1)
      BY <2>6, <3>1, <3>2
    <3> QED
      BY <2>2, <3>1, <3>2, <3>3
  <2>10. \A k \in Nat : k \in Q
    <3> HIDE DEF Q
    <3> QED
      BY <2>8, <2>9, NumbersBySteps
  <2>11. PICK found : found = [k \in 0 .. N |-> fl[k]]
    OBVIOUS
  <2>12. found = whole(found)
    <3>1. \A k \in 0 .. N : k # 0 => k \in 1 .. N /\ k - 1 \in 0 .. N /\ k - 1 \in Nat /\ k - 1 <= N
      BY <1>2
    <3>2. \A k \in 1 .. N : fl[k] = take(fl[k - 1], k)
      BY <1>2, <2>6, <2>10, <3>1
    <3> QED
      BY <2>7, <2>11, <3>1, <3>2
  <2>13. after = whole(after)
    <3> HIDE DEF whole
    <3> QED
      BY <2>12
  <2> HIDE DEF after
  <2>14. after[0] = nothing /\ \A k \in 1 .. N : after[k] = take(after[k - 1], k)
    <3>1. 0 \in 0 .. N /\ \A k \in 1 .. N : k \in 0 .. N /\ k # 0
      BY <1>2
    <3> QED
      BY <2>13, <3>1
  <2> HIDE DEF whole
  <2> DEFINE R == {k \in Nat : k <= N => good(after[k], k)}
  <2>15. 0 \in R
    BY <2>1, <2>14
  <2>16. ASSUME NEW k \in Nat, k \in R PROVE k + 1 \in R
    <3> SUFFICES ASSUME k + 1 <= N PROVE good(after[k + 1], k + 1)
      OBVIOUS
    <3>1. k + 1 \in 1 .. N /\ (k + 1) - 1 = k /\ k <= N
      BY <1>2
    <3>2. good(after[(k + 1) - 1], (k + 1) - 1)
      BY <2>16, <3>1
    <3>3. after[k + 1] = take(after[(k + 1) - 1], k + 1)
      BY <2>14, <3>1
    <3> QED
      BY <2>2, <3>1, <3>2, <3>3
  <2>17. N \in R
    <3> HIDE DEF R
    <3> QED
      BY <1>2, <2>15, <2>16, NumbersBySteps
  <2>18. good(page, N)
    BY <1>2, <1>6, <1>8, <2>17 DEF nothing
  <2> QED
    BY <2>18 DEF good
<1>9. CASE ~nothing.refused
  BY <1>8, <1>9 DEF Holds
<1> QED
  BY <1>7, <1>9

-----------------------------------------------------------------------------
(* The database only grows.                                                *)

\* The rows of all parts are as many as their content has.
LEMMA RowsAreContent ==
    ASSUME NEW parts \in Seq(Seq(Nat)), NEW revision \in Shown,
           revision.start = 0, revision.cutoff = Len(parts)
    PROVE  Rows(parts) = Len(Content(parts, revision))
<1> DEFINE N == Len(parts)
           len == [i \in DOMAIN parts |-> Len(parts[i])]
<1>1. /\ N \in Nat /\ DOMAIN parts = 1 .. N /\ Within(revision, parts)
      /\ revision.cutoff - revision.start = N
  BY DEF Within, Shown
<1>2. PICK c : Contents(c, parts, revision)
  BY <1>1, ContentsExist
<1>3. Laid(c, parts, revision)
  BY <1>1, <1>2, ContentsGrow
<1>4. /\ c[0] = <<>> /\ Len(c[0]) = 0 /\ c[N] = Content(parts, revision)
      /\ \A k \in 1 .. N : c[k] = c[k - 1] \o PartRows(parts, revision.start + k)
  BY <1>1, <1>2 DEF Contents
<1>5. /\ \A k \in 0 .. N : Len(c[k]) \in Nat
      /\ \A k \in 1 .. N : Len(c[k]) = Len(c[k - 1]) + Len(parts[k])
  <2>1. \A k \in 1 .. N : revision.start + k = k
    BY <1>1
  <2> QED
    BY <1>1, <1>3, <2>1 DEF Laid
<1>6. \A i \in 1 .. N : len[i] = Len(parts[i]) /\ len[i] \in Nat
  BY <1>1
<1>7. Rows(parts) = SumFunctionOnSet(len, 1 .. N)
  <2>1. DOMAIN len = 1 .. N
    BY <1>1
  <2> HIDE DEF N
  <2> QED
    BY <2>1 DEF Rows, SumFunction
<1> HIDE DEF N, len
<1> DEFINE Q == {m \in Nat : m <= N => SumFunctionOnSet(len, 1 .. m) = Len(c[m])}
<1>8. 0 \in Q
  <2>1. 1 .. 0 = {}
    OBVIOUS
  <2> QED
    BY <1>4, <2>1, SumOfNothing
<1>9. ASSUME NEW m \in Nat, m \in Q PROVE m + 1 \in Q
  <2> SUFFICES ASSUME m + 1 <= N PROVE SumFunctionOnSet(len, 1 .. m + 1) = Len(c[m + 1])
    OBVIOUS
  <2>1. m + 1 \in 1 .. N /\ (m + 1) - 1 = m /\ m <= N
    BY <1>1
  <2>2. PICK D, T, x : D = 1 .. N /\ T = 1 .. m /\ x = m + 1
    OBVIOUS
  <2>7. T \in SUBSET D /\ x \in D \ T
    BY <1>1, <2>1, <2>2
  <2>8. T \cup {x} = 1 .. m + 1
    BY <2>2
  <2>9. IsFiniteSet(D)
    <3>1. 1 \in Int /\ N \in Int
      BY <1>1
    <3>2. IsFiniteSet(1 .. N)
      BY ONLY <3>1, FS_Interval
    <3> QED
      BY <2>2, <3>2
  <2>10. \A y \in D : len[y] \in Int
    BY <1>6, <2>2
  <2>11. SumFunctionOnSet(len, T \cup {x}) = SumFunctionOnSet(len, T) + len[x]
    BY ONLY <2>7, <2>9, <2>10, SumWithOneMore
  <2>3. SumFunctionOnSet(len, 1 .. m + 1) = SumFunctionOnSet(len, 1 .. m) + len[m + 1]
    BY <2>2, <2>8, <2>11
  <2>4. SumFunctionOnSet(len, 1 .. m) = Len(c[m])
    BY <1>9, <2>1
  <2>5. Len(c[m + 1]) = Len(c[(m + 1) - 1]) + Len(parts[m + 1])
    BY <1>5, <2>1
  <2>6. len[m + 1] = Len(parts[m + 1])
    BY <1>6, <2>1
  <2> QED
    BY <2>1, <2>3, <2>4, <2>5, <2>6
<1>10. N \in Q
  <2> HIDE DEF Q
  <2> QED
    BY <1>1, <1>8, <1>9, NumbersBySteps
<1> QED
  BY <1>1, <1>4, <1>7, <1>10

\* What publish and finish show is there, and counted.
LEMMA RevisionIsGood ==
    ASSUME NEW kind \in Kinds, NEW parts \in Seq(Seq(Nat)),
           Single(kind, parts), kind = "analysis" => parts # <<>>
    PROVE  /\ Revision(kind, parts) \in Shown /\ Within(Revision(kind, parts), parts)
           /\ Revision(kind, parts).rows = Len(Content(parts, Revision(kind, parts)))
<1>1. Len(parts) \in Nat
  OBVIOUS
<1>2. CASE kind = "query"
  <2>1. PICK revision : revision = [start |-> 0, cutoff |-> Len(parts), rows |-> Rows(parts)]
    OBVIOUS
  <2>2. Revision(kind, parts) = revision
    BY <1>2, <2>1 DEF Revision
  <2>3. Rows(parts) \in Nat
    <3> DEFINE len == [i \in DOMAIN parts |-> Len(parts[i])]
    <3>1. DOMAIN len = 1 .. Len(parts) /\ \A i \in 1 .. Len(parts) : len[i] \in Nat
      OBVIOUS
    <3>2. Rows(parts) = SumFunctionOnSet(len, 1 .. Len(parts))
      BY <3>1 DEF Rows, SumFunction
    <3>3. IsFiniteSet(1 .. Len(parts))
      BY <1>1, FS_Interval
    <3> HIDE DEF len
    <3> QED
      BY <3>1, <3>2, <3>3, SumIsNat
  <2>4. /\ revision \in Shown /\ revision.start = 0 /\ revision.cutoff = Len(parts)
        /\ revision.rows = Rows(parts)
    BY <1>1, <2>1, <2>3 DEF Shown
  <2>5. Rows(parts) = Len(Content(parts, revision))
    BY <2>4, RowsAreContent
  <2> QED
    BY <1>1, <2>2, <2>4, <2>5 DEF Within
<1>3. CASE kind = "analysis"
  <2>1. PICK revision : revision = [start |-> Len(parts) - 1, cutoff |-> Len(parts), rows |-> 1]
    OBVIOUS
  <2>2. Revision(kind, parts) = revision
    BY <1>3, <2>1 DEF Revision
  <2>3. Len(parts) >= 1
    BY <1>1, <1>3, EmptySeq
  <2>4. /\ revision \in Shown /\ revision.start = Len(parts) - 1 /\ revision.cutoff = Len(parts)
        /\ revision.rows = 1 /\ Within(revision, parts)
    BY <1>1, <2>1, <2>3 DEF Shown, Within
  <2>5. PICK c : Contents(c, parts, revision)
    BY <2>4, ContentsExist
  <2>6. Laid(c, parts, revision)
    BY <2>4, <2>5, ContentsGrow
  <2>7. revision.cutoff - revision.start = 1 /\ revision.start + 1 = Len(parts) /\ 1 - 1 = 0
    BY <1>1, <2>4
  <2>8. Len(c[0]) = 0 /\ c[1] = Content(parts, revision)
    BY <2>5, <2>7 DEF Contents
  <2>9. Len(c[1]) = Len(c[0]) + Len(parts[Len(parts)])
    <3>1. Len(c[1]) = Len(c[1 - 1]) + Len(parts[revision.start + 1])
      <4>1. \A k \in 1 .. 1 : Len(c[k]) = Len(c[k - 1]) + Len(parts[revision.start + k])
        BY <2>6, <2>7 DEF Laid
      <4>2. 1 \in 1 .. 1
        OBVIOUS
      <4> QED
        BY ONLY <4>1, <4>2
    <3> QED
      BY <2>7, <3>1
  <2>10. Len(parts[Len(parts)]) = 1
    BY <1>1, <1>3, <2>3 DEF Single
  <2>11. Len(Content(parts, revision)) = 1
    BY <2>8, <2>9, <2>10
  <2> QED
    BY <2>2, <2>4, <2>11
<1> QED
  BY <1>2, <1>3 DEF Kinds

LEMMA ResultExtended ==
    ASSUME DatabaseTyped, RevisionsCount, NEW r \in 1 .. Len(results),
           NEW new \in Result, Extends(results[r], new), Counts(new),
           results' = [results EXCEPT ![r] = new], objects' = objects
    PROVE  DatabaseTyped' /\ Grows /\ RevisionsCount'
<1>1. results \in Seq(Result) /\ objects \in Seq(Stored) /\ Len(results) \in Nat /\ Len(objects) \in Nat
  BY DEF DatabaseTyped
<1>2. /\ results' \in Seq(Result) /\ Len(results') = Len(results)
      /\ \A n \in 1 .. Len(results) : results'[n] = IF n = r THEN new ELSE results[n]
  BY <1>1, ExceptSeq
<1>3. \A n \in 1 .. Len(results) : Extends(results[n], results[n])
  <2> TAKE n \in 1 .. Len(results)
  <2>1. results[n] \in Result
    BY <1>1
  <2>2. results[n].parts \in Seq(Seq(Nat)) /\ results[n].revisions \in Seq(Shown)
    BY <2>1 DEF Result
  <2> QED
    BY <2>2 DEF Extends
<1>4. Grows
  BY <1>1, <1>2, <1>3 DEF Grows
<1>5. RevisionsCount'
  BY <1>2 DEF RevisionsCount
<1> QED
  BY <1>1, <1>2, <1>4, <1>5 DEF DatabaseTyped

LEMMA ResultTyped ==
    ASSUME NEW result \in Result
    PROVE  /\ result.kind \in Kinds /\ result.parts \in Seq(Seq(Nat)) /\ result.revisions \in Seq(Shown)
           /\ Len(result.parts) \in Nat /\ Len(result.revisions) \in Nat
<1>1. result.kind \in Kinds /\ result.parts \in Seq(Seq(Nat)) /\ result.revisions \in Seq(Shown)
  BY DEF Result
<1> QED
  BY <1>1

\* One part more leaves the revisions as they are.
LEMMA PartAdded ==
    ASSUME NEW result \in Result, Counts(result), NEW part \in Seq(Nat),
           result.kind = "analysis" => Len(part) = 1,
           NEW parts, parts = Append(result.parts, part)
    PROVE  /\ parts \in Seq(Seq(Nat)) /\ Len(parts) = Len(result.parts) + 1 /\ parts # <<>>
           /\ \A i \in 1 .. Len(result.parts) : parts[i] = result.parts[i]
           /\ Single(result.kind, parts) /\ Counted(result.revisions, parts)
<1>1. /\ result.parts \in Seq(Seq(Nat)) /\ result.revisions \in Seq(Shown)
      /\ Len(result.parts) \in Nat /\ Len(result.revisions) \in Nat
  BY ResultTyped
<1>2. /\ parts \in Seq(Seq(Nat)) /\ Len(parts) = Len(result.parts) + 1 /\ parts # <<>>
      /\ \A i \in 1 .. Len(result.parts) : parts[i] = result.parts[i]
      /\ parts[Len(result.parts) + 1] = part
  <2>1. PICK old \in Seq(Seq(Nat)) : old = result.parts
    BY <1>1
  <2>2. PICK last \in Seq(Nat) : last = part
    OBVIOUS
  <2>3. parts = Append(old, last)
    BY <2>1, <2>2
  <2>4. parts \in Seq(Seq(Nat)) /\ Len(parts) = Len(old) + 1 /\ parts # <<>>
    BY <2>3, AppendProperties
  <2>5. \A i \in 1 .. Len(old) : parts[i] = old[i]
    BY <2>3, AppendProperties
  <2>6. parts[Len(old) + 1] = last
    BY <2>3, AppendProperties
  <2> QED
    BY <2>1, <2>2, <2>4, <2>5, <2>6
<1>3. ASSUME result.kind = "analysis", NEW i \in 1 .. Len(parts) PROVE Len(parts[i]) = 1
  <2>1. i \in 1 .. Len(result.parts) \/ i = Len(result.parts) + 1
    BY <1>1, <1>2
  <2>2. CASE i \in 1 .. Len(result.parts)
    BY <1>2, <1>3, <2>2 DEF Counts, Single
  <2>3. CASE i = Len(result.parts) + 1
    BY <1>2, <1>3, <2>3
  <2> QED
    BY <2>1, <2>2, <2>3
<1>4. ASSUME NEW i \in 1 .. Len(result.revisions)
      PROVE  /\ Within(result.revisions[i], parts)
             /\ result.revisions[i].rows = Len(Content(parts, result.revisions[i]))
  <2>1. PICK revision : revision = result.revisions[i]
    OBVIOUS
  <2>2. revision \in Shown
    BY <1>1, <2>1
  <2>3. Within(revision, result.parts) /\ revision.rows = Len(Content(result.parts, revision))
    BY <2>1 DEF Counts, Counted
  <2>4. Content(parts, revision) = Content(result.parts, revision)
    BY <1>1, <1>2, <2>2, <2>3, ContentStays
  <2>5. Within(revision, parts)
    BY <1>1, <1>2, <2>2, <2>3 DEF Within, Shown
  <2> QED
    BY <2>1, <2>3, <2>4, <2>5
<1> QED
  BY <1>2, <1>3, <1>4 DEF Single, Counted

\* A revision that counts, after others that do.
LEMMA RevisionAdded ==
    ASSUME NEW parts \in Seq(Seq(Nat)), NEW revisions \in Seq(Shown),
           Counted(revisions, parts),
           NEW revision \in Shown, Within(revision, parts),
           revision.rows = Len(Content(parts, revision)),
           NEW more, more = Append(revisions, revision)
    PROVE  Counted(more, parts)
<1>1. /\ more \in Seq(Shown) /\ Len(more) = Len(revisions) + 1 /\ Len(revisions) \in Nat
      /\ \A i \in 1 .. Len(revisions) : more[i] = revisions[i]
      /\ more[Len(revisions) + 1] = revision
  BY AppendProperties, LenProperties
<1>2. \A i \in 1 .. Len(more) : i \in 1 .. Len(revisions) \/ i = Len(revisions) + 1
  BY <1>1
<1> QED
  BY <1>1, <1>2 DEF Counted

LEMMA PublishGrows ==
    ASSUME DatabaseTyped, RevisionsCount, NEW r \in 1 .. Len(results), NEW part \in Parts,
           Publish(r, part)
    PROVE  DatabaseTyped' /\ Grows /\ RevisionsCount'
<1>1. PICK result : result = results[r]
  OBVIOUS
<1>2. /\ result \in Result /\ Counts(result)
  BY <1>1 DEF DatabaseTyped, RevisionsCount
<1>3. PICK parts : parts = Append(result.parts, part)
  OBVIOUS
<1>4. PICK revisions : revisions = IF result.preview THEN Revised(result, parts) ELSE result.revisions
  OBVIOUS
<1>5. PICK new : new = [result EXCEPT !.parts = parts, !.revisions = revisions]
  OBVIOUS
<1>6. results' = [results EXCEPT ![r] = new] /\ objects' = objects
      /\ (result.kind = "analysis" => Len(part) = 1) /\ part \in Seq(Nat)
  BY <1>1, <1>3, <1>4, <1>5, PagingAssumption DEF Publish
<1>7. /\ parts \in Seq(Seq(Nat)) /\ Len(parts) = Len(result.parts) + 1 /\ parts # <<>>
      /\ \A i \in 1 .. Len(result.parts) : parts[i] = result.parts[i]
      /\ Single(result.kind, parts) /\ Counted(result.revisions, parts)
  <2>1. PICK added : added = part /\ added \in Seq(Nat)
    BY <1>6
  <2>2. parts = Append(result.parts, added) /\ (result.kind = "analysis" => Len(added) = 1)
    BY <1>3, <1>6, <2>1
  <2> QED
    BY ONLY <1>2, <2>1, <2>2, PartAdded
<1>8. /\ result.kind \in Kinds /\ result.revisions \in Seq(Shown)
      /\ Len(result.parts) \in Nat /\ Len(result.revisions) \in Nat
  BY <1>2, ResultTyped
<1>9. /\ revisions \in Seq(Shown) /\ Len(revisions) >= Len(result.revisions)
      /\ \A i \in 1 .. Len(result.revisions) : revisions[i] = result.revisions[i]
      /\ Counted(revisions, parts)
  <2>1. CASE ~result.preview
    BY <1>4, <1>7, <1>8, <2>1
  <2>2. CASE result.preview
    <3>1. PICK revision : revision = Revision(result.kind, parts)
      OBVIOUS
    <3>2. revision \in Shown /\ Within(revision, parts) /\ revision.rows = Len(Content(parts, revision))
      BY <1>7, <1>8, <3>1, RevisionIsGood
    <3>3. revisions = Append(result.revisions, revision)
      BY <1>4, <2>2, <3>1 DEF Revised
    <3>4. parts \in Seq(Seq(Nat)) /\ result.revisions \in Seq(Shown)
          /\ Counted(result.revisions, parts)
      BY <1>7, <1>8
    <3>5. /\ revisions \in Seq(Shown) /\ Len(revisions) = Len(result.revisions) + 1
          /\ \A i \in 1 .. Len(result.revisions) : revisions[i] = result.revisions[i]
          /\ Counted(revisions, parts)
      <4>1. Counted(revisions, parts)
        BY ONLY <3>2, <3>3, <3>4, RevisionAdded
      <4>2. /\ revisions \in Seq(Shown) /\ Len(revisions) = Len(result.revisions) + 1
            /\ \A i \in 1 .. Len(result.revisions) : revisions[i] = result.revisions[i]
        BY ONLY <3>2, <3>3, <3>4, AppendProperties
      <4> QED
        BY <4>1, <4>2
    <3> QED
      BY <1>8, <3>5
  <2> QED
    BY <2>1, <2>2
<1>10. /\ new \in Result /\ new.kind = result.kind /\ new.label = result.label
       /\ new.parts = parts /\ new.revisions = revisions
  BY <1>2, <1>5, <1>7, <1>9 DEF Result
<1>11. Extends(result, new)
  BY <1>7, <1>8, <1>9, <1>10 DEF Extends
<1>12. Counts(new)
  BY <1>7, <1>9, <1>10 DEF Counts
<1> QED
  BY <1>1, <1>6, <1>10, <1>11, <1>12, ResultExtended

LEMMA FinishGrows ==
    ASSUME DatabaseTyped, RevisionsCount, NEW r \in 1 .. Len(results), NEW completed \in BOOLEAN,
           Finish(r, completed)
    PROVE  DatabaseTyped' /\ Grows /\ RevisionsCount'
<1>1. PICK result : result = results[r]
  OBVIOUS
<1>2. result \in Result /\ Counts(result)
  BY <1>1 DEF DatabaseTyped, RevisionsCount
<1> DEFINE shown == IF completed THEN result.kind = "query" \/ result.parts # <<>>
                    ELSE result.kind = "query" /\ result.revisions = <<>> /\ result.parts # <<>>
<1>3. PICK revisions : revisions = IF shown THEN Revised(result, result.parts) ELSE result.revisions
  OBVIOUS
<1>4. PICK new : new = [result EXCEPT !.ended = TRUE, !.revisions = revisions]
  OBVIOUS
<1>5. results' = [results EXCEPT ![r] = new] /\ objects' = objects
  BY <1>1, <1>3, <1>4 DEF Finish
<1>6. /\ result.kind \in Kinds /\ result.parts \in Seq(Seq(Nat)) /\ result.revisions \in Seq(Shown)
      /\ Len(result.parts) \in Nat /\ Len(result.revisions) \in Nat
  BY <1>2, ResultTyped
<1>7. shown => (result.kind = "analysis" => result.parts # <<>>)
  OBVIOUS
<1> HIDE DEF shown
<1>8. /\ revisions \in Seq(Shown) /\ Len(revisions) >= Len(result.revisions)
      /\ \A i \in 1 .. Len(result.revisions) : revisions[i] = result.revisions[i]
      /\ Counted(revisions, result.parts)
  <2>1. Single(result.kind, result.parts) /\ Counted(result.revisions, result.parts)
    BY <1>2 DEF Counts
  <2>2. CASE ~shown
    BY <1>3, <1>6, <2>1, <2>2
  <2>3. CASE shown
    <3>1. PICK revision : revision = Revision(result.kind, result.parts)
      OBVIOUS
    <3>2. /\ revision \in Shown /\ Within(revision, result.parts)
          /\ revision.rows = Len(Content(result.parts, revision))
      BY <1>6, <1>7, <2>1, <2>3, <3>1, RevisionIsGood
    <3>3. revisions = Append(result.revisions, revision)
      BY <1>3, <2>3, <3>1 DEF Revised
    <3>4. result.parts \in Seq(Seq(Nat)) /\ result.revisions \in Seq(Shown)
      BY <1>6
    <3>5. Counted(revisions, result.parts)
      BY ONLY <2>1, <3>2, <3>3, <3>4, RevisionAdded
    <3>6. /\ revisions \in Seq(Shown) /\ Len(revisions) = Len(result.revisions) + 1
          /\ \A i \in 1 .. Len(result.revisions) : revisions[i] = result.revisions[i]
      BY ONLY <3>2, <3>3, <3>4, AppendProperties
    <3> QED
      BY <1>6, <3>5, <3>6
  <2> QED
    BY <2>2, <2>3
<1>9. /\ new \in Result /\ new.kind = result.kind /\ new.label = result.label
      /\ new.parts = result.parts /\ new.revisions = revisions
  BY <1>2, <1>4, <1>8 DEF Result
<1>10. Extends(result, new)
  BY <1>6, <1>8, <1>9 DEF Extends
<1>11. Counts(new)
  BY <1>2, <1>8, <1>9 DEF Counts
<1> QED
  BY <1>1, <1>5, <1>9, <1>10, <1>11, ResultExtended


LEMMA InsertedGrows ==
    ASSUME DatabaseTyped, NEW kinds \in Seq(Objects), NEW label \in Labels \cup {None},
           NEW more, more = Inserted(kinds, label)
    PROVE  /\ more \in Seq(Stored) /\ Len(more) >= Len(objects)
           /\ \A n \in 1 .. Len(objects) : more[n] = objects[n]
<1>1. PICK old \in Seq(Stored) : old = objects
  BY DEF DatabaseTyped
<1>2. PICK m \in Nat : m = Len(kinds)
  OBVIOUS
<1>3. PICK added : added = [i \in 1 .. m |-> [kind |-> kinds[i], label |-> label]]
  OBVIOUS
<1>4. added \in [1 .. m -> Stored]
  <2>1. \A i \in 1 .. m : [kind |-> kinds[i], label |-> label] \in Stored
    BY <1>2 DEF Stored
  <2> QED
    BY <1>3, <2>1
<1>5. added \in Seq(Stored) /\ Len(added) = m
  BY <1>4
<1>6. more = old \o added
  BY <1>1, <1>2, <1>3 DEF Inserted
<1>7. more \in Seq(Stored) /\ Len(more) = Len(old) + Len(added)
      /\ \A i \in 1 .. Len(old) + Len(added) : more[i] = IF i <= Len(old) THEN old[i] ELSE added[i - Len(old)]
  BY ONLY <1>1, <1>5, <1>6, ConcatProperties
<1>8. Len(old) \in Nat
  OBVIOUS
<1>9. \A n \in 1 .. Len(old) : n \in 1 .. Len(old) + Len(added) /\ n <= Len(old)
  BY <1>5, <1>8
<1>10. \A n \in 1 .. Len(old) : more[n] = old[n]
  BY <1>7, <1>9
<1>11. Len(more) >= Len(old)
  BY <1>5, <1>7, <1>8
<1> QED
  BY <1>1, <1>7, <1>10, <1>11

LEMMA ResultsStay ==
    ASSUME DatabaseTyped
    PROVE  \A n \in 1 .. Len(results) : Extends(results[n], results[n])
<1> TAKE n \in 1 .. Len(results)
<1>1. results[n] \in Result
  BY DEF DatabaseTyped
<1>2. Len(results[n].parts) \in Nat /\ Len(results[n].revisions) \in Nat
  BY <1>1, ResultTyped
<1> QED
  BY <1>2 DEF Extends

LEMMA OpenDatasetGrows ==
    ASSUME DatabaseTyped, RevisionsCount, NEW label \in Labels \cup {None}, OpenDataset(label)
    PROVE  DatabaseTyped' /\ Grows /\ RevisionsCount'
<1>1. objects' = Inserted(<<"dataset", "manifest">>, label) /\ results' = results
  BY DEF OpenDataset
<1>2. PICK more : more = objects'
  OBVIOUS
<1>3. PICK kinds \in Seq(Objects) : kinds = <<"dataset", "manifest">>
  <2>1. <<"dataset", "manifest">> \in Seq(Objects)
    BY DEF Objects
  <2> QED
    BY <2>1
<1>4. /\ more \in Seq(Stored) /\ Len(more) >= Len(objects)
      /\ \A n \in 1 .. Len(objects) : more[n] = objects[n]
  BY <1>1, <1>2, <1>3, InsertedGrows
<1>5. results \in Seq(Result) /\ Len(results) \in Nat /\ Len(results) >= Len(results)
  BY DEF DatabaseTyped
<1>6. RevisionsCount'
  BY <1>1 DEF RevisionsCount
<1> QED
  BY <1>1, <1>2, <1>4, <1>5, <1>6, ResultsStay DEF DatabaseTyped, Grows

LEMMA SubmitGrows ==
    ASSUME DatabaseTyped, RevisionsCount, NEW label \in Labels \cup {None}, NEW kind \in Kinds,
           NEW preview \in BOOLEAN, Submit(kind, preview, label)
    PROVE  DatabaseTyped' /\ Grows /\ RevisionsCount'
<1>1. PICK new : new = [kind |-> kind, preview |-> preview, label |-> label, ended |-> FALSE,
                        parts |-> <<>>, revisions |-> <<>>]
  OBVIOUS
<1>2. objects' = Inserted(<<"view", "scope">>, label) /\ results' = Append(results, new)
  BY <1>1 DEF Submit
<1>3. new \in Result /\ new.parts = <<>> /\ new.revisions = <<>>
  BY <1>1 DEF Result
<1>4. Counts(new)
  BY <1>3 DEF Counts, Single, Counted
<1>5. results \in Seq(Result) /\ Len(results) \in Nat
  BY DEF DatabaseTyped
<1>6. /\ results' \in Seq(Result) /\ Len(results') = Len(results) + 1
      /\ \A n \in 1 .. Len(results) : results'[n] = results[n]
      /\ results'[Len(results) + 1] = new
  BY <1>2, <1>3, <1>5, AppendProperties
<1>7. /\ objects' \in Seq(Stored) /\ Len(objects') >= Len(objects)
      /\ \A n \in 1 .. Len(objects) : objects'[n] = objects[n]
  <2>1. PICK more : more = objects'
    OBVIOUS
  <2>2. PICK kinds \in Seq(Objects) : kinds = <<"view", "scope">>
    <3>1. <<"view", "scope">> \in Seq(Objects)
      BY DEF Objects
    <3> QED
      BY <3>1
  <2>3. /\ more \in Seq(Stored) /\ Len(more) >= Len(objects)
        /\ \A n \in 1 .. Len(objects) : more[n] = objects[n]
    BY <1>2, <2>1, <2>2, InsertedGrows
  <2> QED
    BY <2>1, <2>3
<1>8. RevisionsCount'
  <2> SUFFICES ASSUME NEW n \in 1 .. Len(results') PROVE Counts(results'[n])
    BY DEF RevisionsCount
  <2>1. n \in 1 .. Len(results) \/ n = Len(results) + 1
    BY <1>5, <1>6
  <2> QED
    BY <1>4, <1>6, <2>1 DEF RevisionsCount
<1>9. \A n \in 1 .. Len(results) : Extends(results[n], results'[n])
  BY <1>6, ResultsStay
<1> QED
  BY <1>5, <1>6, <1>7, <1>8, <1>9 DEF DatabaseTyped, Grows

\* Reading and listing, and the start of another walk, leave it alone.
LEMMA DatabaseStays ==
    ASSUME DatabaseTyped, RevisionsCount, objects' = objects, results' = results
    PROVE  DatabaseTyped' /\ Grows /\ RevisionsCount'
<1>1. Len(objects) \in Nat /\ Len(results) \in Nat
  BY DEF DatabaseTyped
<1> QED
  BY <1>1, ResultsStay DEF DatabaseTyped, Grows, RevisionsCount

-----------------------------------------------------------------------------
(* The walks.                                                              *)

LEMMA ListingStays ==
    ASSUME DatabaseTyped, DatabaseTyped', Grows, Listing, SummaryIsExact, listing' = listing
    PROVE  Listing' /\ SummaryIsExact'
<1>1. SummaryIsExact'
  BY DEF SummaryIsExact
<1>2. ASSUME listing # Start
      PROVE  /\ Then(listing.cursor)' = Then(listing.cursor)
             /\ listing.cursor.bounds["dataset"] <= Len(objects')
             /\ listing.cursor.bounds["job"] <= Len(results')
             /\ listing.cursor.bounds["result"] <= Len(results')
  <2>1. PICK c : c = listing.cursor
    OBVIOUS
  <2>2. /\ c \in Cursors
        /\ c.bounds["dataset"] <= Len(objects) /\ c.bounds["job"] <= Len(results)
        /\ c.bounds["result"] <= Len(results)
    BY <1>2, <2>1 DEF Listing
  <2>3. /\ c.bounds["dataset"] \in Nat /\ c.bounds["job"] \in Nat /\ c.bounds["result"] \in Nat
        /\ Len(objects) \in Nat /\ Len(results) \in Nat
        /\ Len(objects') \in Nat /\ Len(results') \in Nat
        /\ Len(objects') >= Len(objects) /\ Len(results') >= Len(results)
    BY <2>2 DEF Cursors, Grows, DatabaseTyped
  <2>4. Then(c)' = Then(c)
    BY <2>2, ThenStays
  <2>5. Then(listing.cursor)' = Then(c)'
    BY <2>1 DEF Then, Chosen, LabelOf, Entries
  <2>6. Then(listing.cursor) = Then(c)
    BY <2>1
  <2> QED
    BY <2>1, <2>2, <2>3, <2>4, <2>5, <2>6
<1>3. Listing'
  <2> SUFFICES ASSUME listing # Start PROVE Listing'
    BY DEF Listing
  <2> QED
    BY <1>2 DEF Listing
<1> QED
  BY <1>1, <1>3

\* The row that a page would have begun with is in a part that stays.
LEMMA ReadingStays ==
    ASSUME DatabaseTyped, DatabaseTyped', RevisionsCount, Grows, Reading, ReadIsExact,
           reading' = reading
    PROVE  Reading' /\ ReadIsExact'
<1> SUFFICES ASSUME reading # Start PROVE Reading' /\ ReadIsExact'
  BY DEF Reading, ReadIsExact
<1>1. PICK r : r = reading.result
  OBVIOUS
<1>2. PICK v : v = reading.revision
  OBVIOUS
<1>3. r \in 1 .. Len(results) /\ v \in 1 .. Len(results[r].revisions)
  BY <1>1, <1>2 DEF Reading
<1>4. PICK old, new : old = results[r] /\ new = results'[r]
  OBVIOUS
<1>5. Extends(old, new) /\ Len(results') >= Len(results) /\ Len(results) \in Nat /\ Len(results') \in Nat
  BY <1>3, <1>4 DEF Grows, DatabaseTyped
<1>6. r \in 1 .. Len(results')
  BY <1>3, <1>5
<1>7. old \in Result /\ new \in Result /\ Counts(old)
  BY <1>3, <1>4, <1>6 DEF DatabaseTyped, RevisionsCount
<1>8. /\ old.parts \in Seq(Seq(Nat)) /\ old.revisions \in Seq(Shown)
      /\ Len(old.revisions) \in Nat /\ Len(new.revisions) \in Nat
  BY <1>7, ResultTyped
<1>9. v \in 1 .. Len(old.revisions) /\ v \in 1 .. Len(new.revisions)
      /\ new.revisions[v] = old.revisions[v]
  BY <1>3, <1>4, <1>5, <1>8 DEF Extends
<1>10. Reading'
  BY <1>1, <1>2, <1>4, <1>6, <1>9 DEF Reading
<1>11. PICK all : all = Content(old.parts, old.revisions[v])
  OBVIOUS
<1>12. old.revisions[v] \in Shown /\ Within(old.revisions[v], old.parts)
  BY <1>7, <1>8, <1>9 DEF Counts, Counted
<1>13. \A i \in 1 .. Len(old.parts) : new.parts[i] = old.parts[i]
  BY <1>5 DEF Extends
<1>14. Content(new.parts, new.revisions[v]) = all
  BY <1>8, <1>9, <1>11, <1>12, <1>13, ContentStays
<1>15. Len(all) \in Nat
  BY <1>8, <1>11, <1>12, ContentTyped
<1>16. \A i \in 1 .. Len(all) : new.parts[all[i][1]] = old.parts[all[i][1]]
  BY <1>8, <1>11, <1>12, <1>13, ContentPlaces
<1>17. Len(reading.got) \in Nat
  BY DEF Reading
<1> DEFINE n == Len(reading.got)
<1>18. /\ n <= Len(all)
       /\ reading.at # "refused" => \A i \in 1 .. n : reading.got[i] = <<reading.columns, all[i]>>
       /\ reading.at = "end" => n = Len(all)
       /\ reading.at = "refused" =>
             \/ Sent(n, 0, Len(all), 0) > reading.budget
             \/ /\ n < Len(all)
                /\ Sent(n + 1, 1, Len(all), old.parts[all[n + 1][1]][all[n + 1][2]]) > reading.budget
  BY <1>1, <1>2, <1>4, <1>11 DEF ReadIsExact
<1>19. n < Len(all) => new.parts[all[n + 1][1]] = old.parts[all[n + 1][1]]
  BY <1>15, <1>16, <1>17
<1> HIDE DEF n
<1>20. n <= Len(all) /\ (reading.at = "refused" =>
             \/ Sent(n, 0, Len(all), 0) > reading.budget
             \/ /\ n < Len(all)
                /\ Sent(n + 1, 1, Len(all), new.parts[all[n + 1][1]][all[n + 1][2]]) > reading.budget)
  BY <1>18, <1>19
<1>21. Content(results'[reading.result].parts, results'[reading.result].revisions[reading.revision]) = all
       /\ results'[reading.result].parts = new.parts
  BY <1>1, <1>2, <1>4, <1>14
<1>22. ReadIsExact'
  BY <1>18, <1>20, <1>21 DEF ReadIsExact, n
<1> QED
  BY <1>10, <1>22

\* A page of the catalog: of its first page what there is is all within the
\* bounds; the cursor of a later one keeps them.
LEMMA ListWalks ==
    ASSUME DatabaseTyped, Listing, SummaryIsExact,
           NEW kind \in DOMAIN Ranks \cup {None}, NEW label \in Labels \cup {None},
           NEW limit \in Limits, List(kind, label, limit)
    PROVE  Listing' /\ SummaryIsExact'
<1> DEFINE first == listing.at = "start"
<1>1. PICK cursor : cursor = IF first THEN [kind |-> kind, label |-> label, bounds |-> Bounds,
                                            after |-> None]
                             ELSE listing.cursor
  OBVIOUS
<1>2. PICK T : T = Then(cursor)
  OBVIOUS
<1>3. PICK before : before = IF first THEN {} ELSE listing.shown
  OBVIOUS
<1>4. PICK rest : rest = Rest(cursor)
  OBVIOUS
<1>5. PICK fetched : fetched = Fetched(rest, limit)
  OBVIOUS
<1>6. PICK length \in 0 .. limit :
         LET items == First(length, fetched)
             more == items # fetched
             after == IF items = {} THEN cursor.after ELSE Latest(items)
         IN  /\ items = {} => ~more
             /\ listing' = [at |-> IF more THEN "page" ELSE "end",
                            cursor |-> [cursor EXCEPT !.after = after],
                            shown |-> before \cup items,
                            then |-> IF first THEN Chosen(kind, label) ELSE listing.then]
  BY <1>1, <1>3, <1>4, <1>5 DEF List
<1>7. PICK items : items = First(length, fetched)
  OBVIOUS
<1>8. PICK next : next = IF items = {} THEN cursor.after ELSE Latest(items)
  OBVIOUS
<1>9. PICK new : new = [cursor EXCEPT !.after = next]
  OBVIOUS
<1>10. /\ limit \in Nat \ {0} /\ listing.at \in {"start", "page"}
       /\ cursor.kind = kind /\ cursor.label = label
       /\ objects' = objects /\ results' = results
  <2>1. limit \in Nat /\ limit > 0
    BY PagingAssumption DEF List
  <2> QED
    BY <1>1, <2>1 DEF List
<1>11. /\ Entries \in SUBSET Named /\ IsFiniteSet(Entries)
       /\ Len(objects) \in Nat /\ Len(results) \in Nat
  BY EntriesAreFinite
<1>12. /\ cursor \in Cursors
       /\ cursor.bounds["dataset"] <= Len(objects) /\ cursor.bounds["job"] <= Len(results)
       /\ cursor.bounds["result"] <= Len(results)
       /\ cursor.after \in T \cup {None}
       /\ before = {e \in T : cursor.after # None /\ ~Before(cursor.after, e)}
       /\ T = IF first THEN Chosen(kind, label) ELSE listing.then
  <2>1. CASE first
    <3>1. /\ cursor = [kind |-> kind, label |-> label, bounds |-> Bounds, after |-> None]
          /\ before = {}
      BY <1>1, <1>3, <2>1
    <3>2. Bounds \in [dataset : Nat, job : Nat, result : Nat]
      BY <1>11 DEF Bounds
    <3>3. /\ Bounds["dataset"] = Len(objects) /\ Bounds["job"] = Len(results)
          /\ Bounds["result"] = Len(results)
      BY DEF Bounds
    <3>4. cursor \in Cursors /\ cursor.bounds = Bounds /\ cursor.after = None
      BY <3>1, <3>2 DEF Cursors
    <3>5. T = Chosen(kind, label)
      <4>1. \A e \in Entries : e.n <= Bounds[e.kind]
        BY <1>11, <3>3 DEF Entries
      <4> QED
        BY <1>2, <1>10, <3>4, <4>1 DEF Then, Chosen
    <3> QED
      BY <1>11, <2>1, <3>1, <3>3, <3>4, <3>5
  <2>2. CASE ~first
    <3>1. listing # Start
      BY <2>2 DEF Start
    <3> QED
      BY <1>1, <1>2, <1>3, <2>2, <3>1 DEF Listing, SummaryIsExact
  <2> QED
    BY <2>1, <2>2
<1>13. T \in SUBSET Named /\ IsFiniteSet(T)
  <2>1. T \subseteq Entries
    BY <1>2 DEF Then, Chosen
  <2> QED
    BY <1>11, <2>1, FS_Subset
<1>14. PICK after : after = cursor.after
  OBVIOUS
<1>15. rest = Ahead(T, after)
  BY <1>2, <1>4, <1>14 DEF Rest, Then, Ahead
<1>16. /\ before = Behind(T, after)
       /\ after \in T \cup {None}
       /\ items = {} => items = fetched
       /\ next = IF items = {} THEN after ELSE Latest(items)
  BY <1>6, <1>7, <1>8, <1>12, <1>14 DEF Behind
<1>17. /\ next \in T \cup {None}
       /\ before \cup items = Behind(T, next)
       /\ items = fetched => before \cup items = T
  <2>1. limit \in Nat \ {0} /\ length \in 0 .. limit
    BY <1>10
  <2> QED
    BY ONLY <1>5, <1>7, <1>13, <1>15, <1>16, <2>1, PageMovesCursor
<1>18. listing' = [at |-> IF items # fetched THEN "page" ELSE "end", cursor |-> new,
                   shown |-> before \cup items, then |-> T]
  BY <1>6, <1>7, <1>8, <1>9, <1>12
<1>19. /\ new \in Cursors /\ new.kind = cursor.kind /\ new.label = cursor.label
       /\ new.bounds = cursor.bounds /\ new.after = next
  BY <1>9, <1>12, <1>13, <1>17 DEF Cursors
<1>20. Then(new) = T
  BY <1>2, <1>19 DEF Then
<1>21. Then(listing.cursor)' = T
  <2>1. listing.cursor' = new
    BY <1>18
  <2>2. Entries' = Entries /\ \A e : LabelOf(e)' = LabelOf(e)
    BY <1>10 DEF Entries, LabelOf
  <2> QED
    BY <1>20, <2>1, <2>2 DEF Then, Chosen
<1>22. /\ listing'.at = IF items # fetched THEN "page" ELSE "end"
       /\ listing'.cursor = new /\ listing'.shown = before \cup items /\ listing'.then = T
  BY <1>18
<1>23. Listing'
  BY <1>10, <1>12, <1>17, <1>19, <1>21, <1>22 DEF Listing
<1>24. SummaryIsExact'
  BY <1>17, <1>19, <1>22 DEF SummaryIsExact, Behind
<1> QED
  BY <1>23, <1>24

\* A page of a result: it holds the rows from the offset on, and the offset is
\* as many as the client has.
LEMMA ReadWalks ==
    ASSUME DatabaseTyped, RevisionsCount, Reading, ReadIsExact,
           NEW r \in 1 .. Len(results),
           NEW revision \in 1 .. Len(results[r].revisions) \cup {None}, NEW columns \in Columns,
           NEW limit \in Limits, NEW budget \in Budgets,
           Read(r, revision, columns, limit, budget)
    PROVE  Reading' /\ ReadIsExact'
<1>1. PICK result : result = results[r]
  OBVIOUS
<1>2. PICK cursor : cursor = IF reading.at = "page" THEN reading.cursor ELSE None
  OBVIOUS
<1>3. PICK number : number = IF cursor # None THEN cursor.revision
                             ELSE IF revision # None THEN revision ELSE Len(result.revisions)
  OBVIOUS
<1>4. PICK shown : shown = result.revisions[number]
  OBVIOUS
<1>5. PICK before : before = IF cursor # None THEN reading.got ELSE <<>>
  OBVIOUS
<1>6. PICK offset : offset = IF cursor # None THEN cursor.offset ELSE 0
  OBVIOUS
<1>7. PICK request : request = [offset |-> offset, limit |-> limit, budget |-> budget]
  OBVIOUS
<1>8. PICK page : page = Page(result.parts, shown, request)
  OBVIOUS
<1>9. PICK m : m = Len(page.rows)
  OBVIOUS
<1> DEFINE refused == page.refused \/ Sent(offset + m, m, shown.rows, page.bytes) > budget
           added == [i \in 1 .. m |-> <<columns, page.rows[i]>>]
<1>10. /\ reading.at \in {"start", "page"}
       /\ cursor # None => Belongs(cursor, r, revision, columns)
       /\ number \in 1 .. Len(result.revisions)
       /\ objects' = objects /\ results' = results
       /\ reading' = IF refused
                     THEN [at |-> "refused", result |-> r, revision |-> number, budget |-> budget,
                           got |-> before]
                     ELSE [at |-> IF offset + m >= shown.rows THEN "end" ELSE "page",
                           result |-> r, revision |-> number, columns |-> columns,
                           cursor |-> [result |-> r, revision |-> number, offset |-> offset + m,
                                       columns |-> columns],
                           got |-> before \o added]
  <2>1. request.offset = offset
    BY <1>7
  <2> QED
    BY <1>1, <1>2, <1>3, <1>4, <1>5, <1>6, <1>7, <1>8, <1>9, <2>1 DEF Read
<1>11. /\ result \in Result /\ Counts(result)
       /\ result.parts \in Seq(Seq(Nat)) /\ result.revisions \in Seq(Shown)
       /\ Len(result.revisions) \in Nat
  <2>1. result \in Result /\ Counts(result)
    BY <1>1 DEF DatabaseTyped, RevisionsCount
  <2> QED
    BY <2>1, ResultTyped
<1>12. PICK all : all = Content(result.parts, shown)
  OBVIOUS
<1>13. shown \in Shown /\ Within(shown, result.parts) /\ shown.rows = Len(all)
  BY <1>4, <1>10, <1>11, <1>12 DEF Counts, Counted
<1>14. Len(all) \in Nat /\ all \in Seq(Places)
  <2>1. all \in Seq(PlacesIn(result.parts)) /\ Len(all) \in Nat
    BY <1>11, <1>12, <1>13, ContentTyped
  <2>2. PlacesIn(result.parts) \subseteq Places
    BY DEF PlacesIn, Places
  <2> QED
    BY <2>1, <2>2, SeqMonotonic
<1>15. /\ offset \in Nat /\ offset <= Len(all)
       /\ before \in Seq(Columns \X (Nat \X Nat)) /\ Len(before) = offset
       /\ \A i \in 1 .. offset : before[i] = <<columns, all[i]>>
  <2>1. CASE reading.at # "page"
    <3>1. offset = 0 /\ before = <<>>
      BY <1>2, <1>5, <1>6, <2>1
    <3> QED
      BY <1>14, <3>1
  <2>2. CASE reading.at = "page"
    <3>1. reading # Start
      BY <2>2 DEF Start
    <3>2. /\ reading.columns \in Columns /\ reading.result \in Nat /\ reading.revision \in Nat
          /\ reading.got \in Seq(Columns \X (Nat \X Nat)) /\ Len(reading.got) \in Nat
          /\ reading.cursor = [result |-> reading.result, revision |-> reading.revision,
                               offset |-> Len(reading.got), columns |-> reading.columns]
      BY <2>2, <3>1 DEF Reading
    <3>3. reading.cursor \in [result : Nat, revision : Nat, offset : Nat, columns : Columns]
      BY <3>2
    <3>4. cursor = reading.cursor /\ cursor # None
      BY <1>2, <2>2, <3>3, PagingAssumption
    <3>5. /\ cursor.result = reading.result /\ cursor.revision = reading.revision
          /\ cursor.offset = Len(reading.got) /\ cursor.columns = reading.columns
      BY <3>2, <3>4
    <3>6. reading.result = r /\ reading.columns = columns /\ reading.revision = number
      BY <1>3, <1>10, <3>4, <3>5 DEF Belongs
    <3>7. offset = Len(reading.got) /\ before = reading.got
      BY <1>5, <1>6, <3>4, <3>5
    <3>8. /\ Len(reading.got) <= Len(all)
          /\ \A i \in 1 .. Len(reading.got) : reading.got[i] = <<reading.columns, all[i]>>
      BY <1>1, <1>4, <1>12, <2>2, <3>1, <3>6 DEF ReadIsExact
    <3> QED
      BY <3>2, <3>6, <3>7, <3>8
  <2> QED
    BY <2>1, <2>2
<1>16. request \in Requests /\ request.offset = offset /\ request.budget = budget
  <2>1. limit \in Nat /\ budget \in Nat
    BY PagingAssumption
  <2> QED
    BY <1>7, <1>15, <2>1 DEF Requests
<1>17. /\ page.refused =>
             \/ Sent(offset, 0, Len(all), 0) > budget
             \/ /\ offset < Len(all)
                /\ Sent(offset + 1, 1, Len(all), Size(result.parts, all[offset + 1])) > budget
       /\ ~page.refused => Holds(page, result.parts, all, request)
  <2>1. request.offset <= Len(all)
    BY <1>15, <1>16
  <2> QED
    BY <1>8, <1>11, <1>12, <1>13, <1>16, <2>1, PageIsExact
<1>18. reading'.result = r /\ reading'.revision = number
       /\ reading'.at \in {"page", "end", "refused"} /\ reading' # Start
  BY <1>10 DEF Start
<1>19. Content(results'[reading'.result].parts, results'[reading'.result].revisions[reading'.revision]) = all
       /\ results'[reading'.result].parts = result.parts
       /\ r \in 1 .. Len(results') /\ number \in 1 .. Len(results'[r].revisions)
  BY <1>1, <1>4, <1>10, <1>12, <1>18
<1>20. CASE page.refused
  <2>1. reading' = [at |-> "refused", result |-> r, revision |-> number, budget |-> budget,
                    got |-> before]
    BY <1>10, <1>20
  <2>2. reading'.at = "refused" /\ reading'.got = before /\ reading'.budget = budget
    BY <2>1
  <2>3. Reading'
    BY <1>15, <1>18, <1>19, <2>2 DEF Reading
  <2>4. ReadIsExact'
    BY <1>15, <1>17, <1>18, <1>19, <1>20, <2>2 DEF ReadIsExact, Size
  <2> QED
    BY <2>3, <2>4
<1>21. CASE ~page.refused
  <2>1. Holds(page, result.parts, all, request)
    BY <1>17, <1>21
  <2>2. /\ page \in Pages /\ offset + m <= Len(all)
        /\ \A i \in 1 .. m : page.rows[i] = all[offset + i]
        /\ Sent(offset + m, m, Len(all), page.bytes) <= budget
    BY <1>9, <1>16, <2>1 DEF Holds
  <2>3. m \in Nat /\ page.rows \in Seq(Places) /\ page.bytes \in Nat
    BY <1>9, <2>2, PageTyped
  <2>4. ~refused
    <3>1. PICK s : s = Sent(offset + m, m, Len(all), page.bytes)
      OBVIOUS
    <3>2. s \in Nat
      <4>1. PICK b \in Nat : b = page.bytes
        BY <2>3
      <4>2. PICK n \in Nat : n = offset + m
        BY <1>15, <2>3
      <4>3. Sent(n, m, Len(all), b + 0) \in Nat
        BY ONLY <1>14, <2>3, <4>1, <4>2, 0 \in Nat, PageBytesAreSent
      <4>4. b + 0 = b
        OBVIOUS
      <4> QED
        BY <3>1, <4>1, <4>2, <4>3, <4>4
    <3>3. budget \in Nat
      BY PagingAssumption
    <3>4. ~(s > budget)
      BY <2>2, <3>1, <3>2, <3>3
    <3> QED
      BY <1>13, <1>21, <3>1, <3>4
  <2>5. PICK got : got = before \o added
    OBVIOUS
  <2>6. reading' = [at |-> IF offset + m >= shown.rows THEN "end" ELSE "page",
                    result |-> r, revision |-> number, columns |-> columns,
                    cursor |-> [result |-> r, revision |-> number, offset |-> offset + m,
                                columns |-> columns],
                    got |-> got]
    BY <1>10, <2>4, <2>5
  <2>7. /\ got \in Seq(Columns \X (Nat \X Nat)) /\ Len(got) = offset + m
        /\ \A i \in 1 .. offset + m : got[i] = <<columns, all[i]>>
    <3>1. PICK more : more = added
      OBVIOUS
    <3>2. \A i \in 1 .. m : more[i] = <<columns, all[offset + i]>>
      BY <2>2, <3>1
    <3>3. more \in Seq(Columns \X (Nat \X Nat)) /\ Len(more) = m
      <4>1. PICK S : S = Columns \X (Nat \X Nat)
        OBVIOUS
      <4>2. \A i \in 1 .. m : page.rows[i] \in Nat \X Nat
        BY <1>9, <2>3 DEF Places
      <4>3. \A i \in 1 .. m : <<columns, page.rows[i]>> \in S
        BY <4>1, <4>2
      <4>4. more \in [1 .. m -> S]
        BY <3>1, <4>3
      <4>5. more \in Seq(S) /\ Len(more) = m
        BY ONLY <2>3, <4>4
      <4> QED
        BY <4>1, <4>5
    <3>4. /\ got \in Seq(Columns \X (Nat \X Nat)) /\ Len(got) = Len(before) + Len(more)
          /\ \A i \in 1 .. Len(before) + Len(more) :
                got[i] = IF i <= Len(before) THEN before[i] ELSE more[i - Len(before)]
      <4>1. PICK S : S = Columns \X (Nat \X Nat)
        OBVIOUS
      <4>2. before \in Seq(S) /\ more \in Seq(S) /\ got = before \o more
        BY <1>15, <2>5, <3>1, <3>3, <4>1
      <4>3. /\ got \in Seq(S) /\ Len(got) = Len(before) + Len(more)
            /\ \A i \in 1 .. Len(before) + Len(more) :
                  got[i] = IF i <= Len(before) THEN before[i] ELSE more[i - Len(before)]
        BY ONLY <4>2, ConcatProperties
      <4> QED
        BY <4>1, <4>3
    <3>5. \A i \in 1 .. offset + m : got[i] = IF i <= offset THEN before[i] ELSE more[i - offset]
      BY <1>15, <3>3, <3>4
    <3>6. ASSUME NEW i \in 1 .. offset + m PROVE got[i] = <<columns, all[i]>>
      <4>1. CASE i <= offset
        <5>1. i \in 1 .. offset
          BY <1>15, <2>3, <4>1
        <5> QED
          BY <1>15, <3>5, <4>1, <5>1
      <4>2. CASE ~(i <= offset)
        <5>1. i - offset \in 1 .. m /\ offset + (i - offset) = i
          BY <1>15, <2>3, <4>2
        <5> QED
          BY <3>2, <3>5, <4>2, <5>1
      <4> QED
        BY <4>1, <4>2
    <3> QED
      BY <1>15, <3>3, <3>4, <3>6
  <2>8. /\ reading'.at = IF offset + m >= Len(all) THEN "end" ELSE "page"
        /\ reading'.got = got /\ reading'.columns = columns
        /\ reading'.cursor = [result |-> r, revision |-> number, offset |-> offset + m,
                              columns |-> columns]
    BY <1>13, <2>6
  <2>9. Reading'
    BY <1>18, <1>19, <2>7, <2>8 DEF Reading
  <2>10. ReadIsExact'
    <3>1. reading'.at = "end" => offset + m = Len(all)
      BY <1>14, <1>15, <2>2, <2>3, <2>8
    <3>2. reading'.at # "refused"
      BY <2>8
    <3> QED
      BY <1>19, <2>2, <2>7, <2>8, <3>1, <3>2 DEF ReadIsExact
  <2> QED
    BY <2>9, <2>10
<1> QED
  BY <1>20, <1>21

-----------------------------------------------------------------------------
(* The invariant holds.                                                    *)

LEMMA StartIsGood ==
    ASSUME Init
    PROVE  IInv
<1>1. objects = <<>> /\ results = <<>> /\ reading = Start /\ listing = Start
  BY DEF Init
<1>2. DatabaseTyped /\ RevisionsCount
  BY <1>1 DEF DatabaseTyped, RevisionsCount
<1>3. Listing /\ Reading /\ ReadIsExact /\ SummaryIsExact
  BY <1>1 DEF Listing, Reading, ReadIsExact, SummaryIsExact
<1> QED
  BY <1>2, <1>3 DEF IInv, WalkIsExact

LEMMA StepIsGood ==
    ASSUME IInv, [Next]_vars
    PROVE  IInv'
<1>1. /\ DatabaseTyped /\ RevisionsCount /\ Listing /\ Reading /\ ReadIsExact /\ SummaryIsExact
  BY DEF IInv, WalkIsExact
<1>2. ASSUME DatabaseTyped', Grows, RevisionsCount', reading' = reading, listing' = listing
      PROVE  IInv'
  BY <1>1, <1>2, ListingStays, ReadingStays DEF IInv, WalkIsExact
<1>3. ASSUME NEW label \in Labels \cup {None}, OpenDataset(label) PROVE IInv'
  BY <1>1, <1>2, <1>3, OpenDatasetGrows DEF OpenDataset
<1>4. ASSUME NEW label \in Labels \cup {None}, NEW kind \in Kinds, NEW preview \in BOOLEAN,
             Submit(kind, preview, label)
      PROVE  IInv'
  BY <1>1, <1>2, <1>4, SubmitGrows DEF Submit
<1>5. ASSUME NEW label \in Labels \cup {None}, NEW kind \in DOMAIN Ranks \cup {None},
             NEW limit \in Limits, List(kind, label, limit)
      PROVE  IInv'
  <2>1. objects' = objects /\ results' = results /\ reading' = reading
    BY <1>5 DEF List
  <2>2. DatabaseTyped' /\ Grows /\ RevisionsCount'
    BY <1>1, <2>1, DatabaseStays
  <2>3. Reading' /\ ReadIsExact'
    BY <1>1, <2>1, <2>2, ReadingStays
  <2>4. Listing' /\ SummaryIsExact'
    BY <1>1, <1>5, ListWalks
  <2> QED
    BY <2>2, <2>3, <2>4 DEF IInv, WalkIsExact
<1>6. ASSUME NEW r \in 1 .. Len(results), Work(r) PROVE IInv'
  <2>1. ASSUME NEW part \in Parts, Publish(r, part) PROVE IInv'
    <3>1. reading' = reading /\ listing' = listing
      BY <2>1 DEF Publish
    <3> QED
      BY <1>1, <1>2, <2>1, <3>1, PublishGrows
  <2>2. ASSUME NEW completed \in BOOLEAN, Finish(r, completed) PROVE IInv'
    <3>1. reading' = reading /\ listing' = listing
      BY <2>2 DEF Finish
    <3> QED
      BY <1>1, <1>2, <2>2, <3>1, FinishGrows
  <2> QED
    BY <1>6, <2>1, <2>2 DEF Work
<1>7. ASSUME NEW r \in 1 .. Len(results),
             NEW revision \in 1 .. Len(results[r].revisions) \cup {None}, NEW columns \in Columns,
             NEW limit \in Limits, NEW budget \in Budgets,
             Read(r, revision, columns, limit, budget)
      PROVE  IInv'
  <2>1. objects' = objects /\ results' = results /\ listing' = listing
    BY <1>7 DEF Read
  <2>2. DatabaseTyped' /\ Grows /\ RevisionsCount'
    BY <1>1, <2>1, DatabaseStays
  <2>3. Listing' /\ SummaryIsExact'
    BY <1>1, <2>1, <2>2, ListingStays
  <2>4. Reading' /\ ReadIsExact'
    BY <1>1, <1>7, ReadWalks
  <2> QED
    BY <2>2, <2>3, <2>4 DEF IInv, WalkIsExact
<1>8. ASSUME Again PROVE IInv'
  <2>1. objects' = objects /\ results' = results /\ reading' = Start /\ listing' = Start
    BY <1>8 DEF Again
  <2>2. DatabaseTyped' /\ RevisionsCount'
    BY <1>1, <2>1, DatabaseStays
  <2>3. Start' = Start
    BY DEF Start
  <2>4. Listing' /\ Reading' /\ ReadIsExact' /\ SummaryIsExact'
    BY <2>1, <2>3 DEF Listing, Reading, ReadIsExact, SummaryIsExact
  <2> QED
    BY <2>2, <2>4 DEF IInv, WalkIsExact
<1>9. ASSUME UNCHANGED vars PROVE IInv'
  <2>1. /\ objects' = objects /\ results' = results
        /\ reading' = reading /\ listing' = listing
    BY <1>9 DEF vars
  <2> QED
    BY <1>1, <1>2, <2>1, DatabaseStays
<1> QED
  BY <1>3, <1>4, <1>5, <1>6, <1>7, <1>8, <1>9 DEF Next

(* Cursors, bounds and revisions stay what they were made of, whatever is  *)
(* added to the database between two pages (read, summary).                *)
THEOREM PagingInductive == Spec => []IInv
<1>1. Init => IInv
  BY StartIsGood
<1>2. IInv /\ [Next]_vars => IInv'
  BY StepIsGood
<1> QED
  BY <1>1, <1>2, PTL DEF Spec

(* The pages of a walk, through a result or through the catalog, are what  *)
(* there was at its beginning: in order, each once, and all of it at the   *)
(* end, for every size, limit and budget (read, summary).                  *)
THEOREM WalksAreExact == Spec => []WalkIsExact
<1>1. IInv => WalkIsExact
  BY DEF IInv
<1> QED
  BY <1>1, PagingInductive, PTL
=============================================================================
