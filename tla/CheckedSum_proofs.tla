------------------------- MODULE CheckedSum_proofs -------------------------
(***************************************************************************)
(* SUM is exact for every width, any batches, partitions, windows and      *)
(* groups, in whatever order a plan calls its accumulators.                *)
(***************************************************************************)
EXTENDS CheckedSum, SumTheorems, FiniteSetTheorems, TLAPS

-----------------------------------------------------------------------------
(***************************************************************************)
(* Bags of values: how their rows, sum and magnitude change.               *)
(***************************************************************************)
Bag == [Input -> Nat]
State == [sum : Int, count : Nat, ok : BOOLEAN]

\* A bag with one more row, and two bags together.
With(bag, v) == [bag EXCEPT ![v] = @ + 1]
Both(bag, other) == [v \in Input |-> bag[v] + other[v]]

LEMMA Widths ==
    /\ IsFiniteSet(Input) /\ Input \subseteq Int /\ Input \subseteq Lane /\ Lane \subseteq Int
    /\ Null \notin Input
    /\ LaneTop \in Nat \ {0} /\ WideTop \in Nat /\ LaneTop <= WideTop /\ Lanes \in Nat \ {0}
    /\ 0 \in Lane
<1>1. IsFiniteSet(-LaneTop .. LaneTop - 1)
  BY FS_Interval, WidthAssumption DEF WidthAssumption
<1>2. IsFiniteSet(Input)
  BY <1>1, FS_Subset, WidthAssumption DEF WidthAssumption
<1> QED
  BY <1>2, WidthAssumption DEF WidthAssumption, Lane

LEMMA TermsTyped ==
    ASSUME NEW bag \in Bag, NEW v \in Input
    PROVE  /\ v \in Int /\ bag[v] \in Nat /\ v * bag[v] \in Int /\ Abs(v) \in Nat
           /\ Abs(v) * bag[v] \in Nat
<1>1. v \in Int /\ bag[v] \in Nat /\ Abs(v) \in Nat
  BY Widths DEF Bag, Abs
<1> QED
  BY <1>1

LEMMA BagTyped ==
    ASSUME NEW bag \in Bag
    PROVE  Rows(bag) \in Nat /\ Sum(bag) \in Int /\ Magnitude(bag) \in Nat
<1>1. Rows(bag) \in Nat
  BY Widths, SumIsNat DEF Rows, Bag
<1>2. Sum(bag) \in Int
  <2> DEFINE f == [v \in Input |-> v * bag[v]]
  <2>1. \A v \in Input : f[v] \in Int
    BY TermsTyped
  <2> HIDE DEF f
  <2>2. SumFunctionOnSet(f, Input) \in Int
    BY <2>1, Widths, SumIsInt
  <2> QED
    BY <2>2 DEF Sum, f
<1>3. Magnitude(bag) \in Nat
  <2> DEFINE f == [v \in Input |-> Abs(v) * bag[v]]
  <2>1. \A v \in Input : f[v] \in Nat
    BY TermsTyped
  <2> HIDE DEF f
  <2>2. SumFunctionOnSet(f, Input) \in Nat
    BY <2>1, Widths, SumIsNat
  <2> QED
    BY <2>2 DEF Magnitude, f
<1> QED
  BY <1>1, <1>2, <1>3

\* A sum is never further from zero than its values together.
LEMMA SumBound ==
    ASSUME NEW bag \in Bag
    PROVE  -Magnitude(bag) <= Sum(bag) /\ Sum(bag) <= Magnitude(bag)
<1> DEFINE f == [v \in Input |-> v * bag[v]]
           g == [v \in Input |-> Abs(v) * bag[v]]
           h == [v \in Input |-> f[v] + g[v]]
<1>1. ASSUME NEW v \in Input
      PROVE  f[v] \in Int /\ g[v] \in Int /\ f[v] <= g[v] /\ h[v] = f[v] + g[v] /\ h[v] \in Nat
  <2>1. v \in Int /\ bag[v] \in Nat /\ v * bag[v] \in Int /\ Abs(v) * bag[v] \in Int
    BY TermsTyped
  <2>2. CASE v >= 0
    <3>1. Abs(v) = v /\ v * bag[v] >= 0
      BY <2>1, <2>2 DEF Abs
    <3> QED
      BY <2>1, <3>1
  <2>3. CASE v < 0
    <3>1. Abs(v) = -v /\ v * bag[v] <= 0 /\ (-v) * bag[v] = -(v * bag[v])
      BY <2>1, <2>3 DEF Abs
    <3> QED
      BY <2>1, <3>1
  <2> QED
    BY <2>1, <2>2, <2>3
<1> HIDE DEF f, g, h
<1>2. SumFunctionOnSet(f, Input) <= SumFunctionOnSet(g, Input)
  BY <1>1, Widths, SumMonotone
<1>3. SumFunctionOnSet(h, Input) = SumFunctionOnSet(f, Input) + SumFunctionOnSet(g, Input)
  BY <1>1, Widths, SumOfSums
<1>4. SumFunctionOnSet(h, Input) \in Nat
  BY <1>1, Widths, SumIsNat
<1>5. Sum(bag) = SumFunctionOnSet(f, Input) /\ Magnitude(bag) = SumFunctionOnSet(g, Input)
  BY DEF Sum, Magnitude, f, g
<1> QED
  BY <1>2, <1>3, <1>4, <1>5, BagTyped

LEMMA WithOne ==
    ASSUME NEW bag \in Bag, NEW v \in Input
    PROVE  /\ With(bag, v) \in Bag
           /\ Rows(With(bag, v)) = Rows(bag) + 1
           /\ Sum(With(bag, v)) = Sum(bag) + v
           /\ Magnitude(With(bag, v)) = Magnitude(bag) + Abs(v)
<1> DEFINE more == With(bag, v)
<1>1. /\ more \in Bag /\ more[v] = bag[v] + 1
      /\ \A w \in Input : w # v => more[w] = bag[w]
  BY DEF With, Bag
<1> HIDE DEF more
<1>. IsFiniteSet(Input)
  BY Widths
<1>2. Rows(more) = Rows(bag) + 1
  <2>1. \A w \in Input : bag[w] \in Int /\ more[w] \in Int /\ (w # v => more[w] = bag[w])
    BY <1>1 DEF Bag
  <2>2. SumFunctionOnSet(more, Input) = SumFunctionOnSet(bag, Input) - bag[v] + more[v]
    BY <2>1, SumChanged
  <2> QED
    BY <1>1, <2>1, <2>2, BagTyped DEF Rows
<1>3. Sum(more) = Sum(bag) + v
  <2> DEFINE f == [w \in Input |-> w * bag[w]]
             g == [w \in Input |-> w * more[w]]
  <2>1. \A w \in Input : f[w] \in Int /\ g[w] \in Int /\ (w # v => g[w] = f[w])
    BY <1>1, TermsTyped
  <2>2. f[v] = v * bag[v] /\ g[v] = v * (bag[v] + 1)
    BY <1>1
  <2>3. Sum(bag) = SumFunctionOnSet(f, Input) /\ Sum(more) = SumFunctionOnSet(g, Input)
    BY DEF Sum
  <2> HIDE DEF f, g
  <2>4. SumFunctionOnSet(g, Input) = SumFunctionOnSet(f, Input) - f[v] + g[v]
    BY <2>1, SumChanged
  <2>5. v \in Int /\ bag[v] \in Nat
    BY TermsTyped
  <2>6. v * (bag[v] + 1) = v * bag[v] + v
    BY <2>5
  <2> QED
    BY <2>1, <2>2, <2>3, <2>4, <2>5, <2>6, BagTyped
<1>4. Magnitude(more) = Magnitude(bag) + Abs(v)
  <2> DEFINE f == [w \in Input |-> Abs(w) * bag[w]]
             g == [w \in Input |-> Abs(w) * more[w]]
  <2>1. \A w \in Input : f[w] \in Int /\ g[w] \in Int /\ (w # v => g[w] = f[w])
    BY <1>1, TermsTyped
  <2>2. f[v] = Abs(v) * bag[v] /\ g[v] = Abs(v) * (bag[v] + 1)
    BY <1>1
  <2>3. Magnitude(bag) = SumFunctionOnSet(f, Input) /\ Magnitude(more) = SumFunctionOnSet(g, Input)
    BY DEF Magnitude
  <2> HIDE DEF f, g
  <2>4. SumFunctionOnSet(g, Input) = SumFunctionOnSet(f, Input) - f[v] + g[v]
    BY <2>1, SumChanged
  <2>5. Abs(v) \in Int /\ bag[v] \in Nat
    BY TermsTyped
  <2>6. Abs(v) * (bag[v] + 1) = Abs(v) * bag[v] + Abs(v)
    BY <2>5
  <2> QED
    BY <2>1, <2>2, <2>3, <2>4, <2>5, <2>6, BagTyped
<1> QED
  BY <1>1, <1>2, <1>3, <1>4 DEF more

LEMMA BothTogether ==
    ASSUME NEW bag \in Bag, NEW other \in Bag
    PROVE  /\ Both(bag, other) \in Bag
           /\ Rows(Both(bag, other)) = Rows(bag) + Rows(other)
           /\ Sum(Both(bag, other)) = Sum(bag) + Sum(other)
           /\ Magnitude(Both(bag, other)) = Magnitude(bag) + Magnitude(other)
<1> DEFINE more == Both(bag, other)
<1>1. /\ more \in Bag
      /\ \A w \in Input : more[w] = bag[w] + other[w] /\ bag[w] \in Nat /\ other[w] \in Nat
  BY DEF Both, Bag
<1> HIDE DEF more
<1>2. Rows(more) = Rows(bag) + Rows(other)
  <2>1. \A w \in Input : bag[w] \in Int /\ other[w] \in Int /\ more[w] = bag[w] + other[w]
    BY <1>1
  <2> QED
    BY <2>1, Widths, SumOfSums DEF Rows
<1>3. Sum(more) = Sum(bag) + Sum(other)
  <2> DEFINE f == [w \in Input |-> w * bag[w]]
             g == [w \in Input |-> w * other[w]]
             h == [w \in Input |-> w * more[w]]
  <2>1. ASSUME NEW w \in Input PROVE f[w] \in Int /\ g[w] \in Int /\ h[w] = f[w] + g[w]
    <3>1. w \in Int /\ bag[w] \in Nat /\ other[w] \in Nat
      BY <1>1, Widths
    <3>2. w * (bag[w] + other[w]) = w * bag[w] + w * other[w]
      BY <3>1
    <3> QED
      BY <1>1, <3>1, <3>2, TermsTyped
  <2>2. /\ Sum(bag) = SumFunctionOnSet(f, Input) /\ Sum(other) = SumFunctionOnSet(g, Input)
        /\ Sum(more) = SumFunctionOnSet(h, Input)
    BY DEF Sum
  <2> HIDE DEF f, g, h
  <2>3. SumFunctionOnSet(h, Input) = SumFunctionOnSet(f, Input) + SumFunctionOnSet(g, Input)
    BY <2>1, Widths, SumOfSums
  <2> QED
    BY <2>2, <2>3
<1>4. Magnitude(more) = Magnitude(bag) + Magnitude(other)
  <2> DEFINE f == [w \in Input |-> Abs(w) * bag[w]]
             g == [w \in Input |-> Abs(w) * other[w]]
             h == [w \in Input |-> Abs(w) * more[w]]
  <2>1. ASSUME NEW w \in Input PROVE f[w] \in Int /\ g[w] \in Int /\ h[w] = f[w] + g[w]
    <3>1. Abs(w) \in Int /\ bag[w] \in Nat /\ other[w] \in Nat
      BY <1>1, TermsTyped
    <3>2. Abs(w) * (bag[w] + other[w]) = Abs(w) * bag[w] + Abs(w) * other[w]
      BY <3>1
    <3> QED
      BY <1>1, <3>1, <3>2, TermsTyped
  <2>2. /\ Magnitude(bag) = SumFunctionOnSet(f, Input)
        /\ Magnitude(other) = SumFunctionOnSet(g, Input)
        /\ Magnitude(more) = SumFunctionOnSet(h, Input)
    BY DEF Magnitude
  <2> HIDE DEF f, g, h
  <2>3. SumFunctionOnSet(h, Input) = SumFunctionOnSet(f, Input) + SumFunctionOnSet(g, Input)
    BY <2>1, Widths, SumOfSums
  <2> QED
    BY <2>2, <2>3
<1> QED
  BY <1>1, <1>2, <1>3, <1>4 DEF more

LEMMA NoneIsEmpty == None \in Bag /\ Rows(None) = 0 /\ Sum(None) = 0
<1>1. None \in Bag /\ \A v \in Input : None[v] = 0
  BY DEF None, Bag
<1> HIDE DEF None
<1>2. Rows(None) = 0
  BY <1>1, Widths, SumOfZeros DEF Rows
<1>3. Sum(None) = 0
  <2> DEFINE f == [v \in Input |-> v * None[v]]
  <2>1. \A v \in Input : f[v] = 0
    BY <1>1, Widths
  <2> HIDE DEF f
  <2>2. SumFunctionOnSet(f, Input) = 0
    BY <2>1, Widths, SumOfZeros
  <2> QED
    BY <2>2 DEF Sum, f
<1> QED
  BY <1>1, <1>2, <1>3

-----------------------------------------------------------------------------
(***************************************************************************)
(* States.  A state that did not fail has the sum and the number of its    *)
(* rows; one that failed stands for values that reach the bound.           *)
(***************************************************************************)
Good(s, bag) ==
    IF s.ok THEN s.sum = Sum(bag) /\ s.count = Rows(bag) ELSE Magnitude(bag) >= WideTop

\* What is shown of a good state is right.
LEMMA GoodIsCorrect ==
    ASSUME NEW s \in State, NEW bag \in Bag, Good(s, bag)
    PROVE  Correct(s, bag)
BY BagTyped DEF Good, Correct, Scalar, Exactly

LEMMA ZeroIsGood == Zero \in State /\ Good(Zero, None)
BY NoneIsEmpty DEF Zero, State, Good

LEMMA AddTyped ==
    ASSUME NEW s \in State, NEW v \in Int, NEW n \in Nat
    PROVE  /\ Add(s, v, n) \in State
           /\ Add(s, v, n).ok <=> s.ok /\ s.sum + v \in Wide
           /\ Add(s, v, n).ok => Add(s, v, n).sum = s.sum + v /\ Add(s, v, n).count = s.count + n
<1>1. CASE s.ok /\ s.sum + v \in Wide
  <2>1. Add(s, v, n) = [s EXCEPT !.sum = s.sum + v, !.count = s.count + n]
    BY <1>1 DEF Add
  <2>2. s.sum + v \in Int /\ s.count + n \in Nat
    BY DEF State
  <2>3. /\ Add(s, v, n) \in State /\ Add(s, v, n).ok = s.ok
        /\ Add(s, v, n).sum = s.sum + v /\ Add(s, v, n).count = s.count + n
    BY <2>1, <2>2 DEF State
  <2> QED
    BY <1>1, <2>3
<1>2. CASE ~(s.ok /\ s.sum + v \in Wide)
  <2>1. Add(s, v, n) = [s EXCEPT !.ok = FALSE]
    BY <1>2 DEF Add
  <2> QED
    BY <1>2, <2>1 DEF State
<1> QED
  BY <1>1, <1>2

\* An addition that fails had a sum at the bound.
LEMMA AddIsGood ==
    ASSUME NEW s \in State, NEW bag \in Bag, Good(s, bag), NEW v \in Int, NEW n \in Nat,
           NEW more \in Bag, Sum(more) = Sum(bag) + v, Rows(more) = Rows(bag) + n,
           Magnitude(bag) <= Magnitude(more)
    PROVE  Add(s, v, n) \in State /\ Good(Add(s, v, n), more)
<1>1. WideTop \in Nat /\ Magnitude(bag) \in Nat /\ Magnitude(more) \in Nat /\ Sum(more) \in Int
  BY Widths, BagTyped
<1>2. CASE Add(s, v, n).ok
  BY <1>2, AddTyped DEF Good
<1>3. CASE s.ok /\ ~Add(s, v, n).ok
  <2>1. Sum(more) \notin Wide
    BY <1>3, AddTyped DEF Good
  <2> QED
    BY <1>1, <1>3, <2>1, AddTyped, SumBound DEF Good, Wide
<1>4. CASE ~s.ok
  BY <1>1, <1>4, AddTyped DEF Good
<1> QED
  BY <1>2, <1>3, <1>4, AddTyped

LEMMA SubtractIsGood ==
    ASSUME NEW s \in State, NEW bag \in Bag, Good(s, bag), NEW v \in Int, s.ok,
           NEW less \in Bag, Sum(less) = Sum(bag) - v, Rows(less) = Rows(bag) - 1
    PROVE  Subtract(s, v) \in State /\ Good(Subtract(s, v), less)
<1>1. /\ WideTop \in Nat /\ Magnitude(less) \in Nat /\ Sum(less) \in Int
      /\ Rows(bag) \in Nat /\ Rows(less) \in Nat /\ Sum(bag) \in Int
  BY Widths, BagTyped
<1>2. s.count > 0 /\ s.sum = Sum(bag) /\ s.count = Rows(bag)
  BY <1>1 DEF Good
<1>3. CASE Sum(less) \in Wide
  BY <1>1, <1>2, <1>3 DEF Subtract, State, Good
<1>4. CASE Sum(less) \notin Wide
  <2>1. Subtract(s, v) = [s EXCEPT !.ok = FALSE]
    BY <1>1, <1>2, <1>4 DEF Subtract
  <2>2. Magnitude(less) >= WideTop
    BY <1>1, <1>4, SumBound DEF Wide
  <2> QED
    BY <2>1, <2>2 DEF State, Good
<1> QED
  BY <1>3, <1>4

-----------------------------------------------------------------------------
(***************************************************************************)
(* Batches.  What a state stands for after the first rows of a batch.      *)
(***************************************************************************)
Rowed == Seq(Input \cup {Null})
Places(batch, i, v) == {j \in 1 .. i : batch[j] = v}
Upto(bag, batch, i) == [v \in Input |-> bag[v] + Cardinality(Places(batch, i, v))]

LEMMA PlacesFinite ==
    ASSUME NEW batch, NEW i \in Nat, NEW v
    PROVE  IsFiniteSet(Places(batch, i, v)) /\ Cardinality(Places(batch, i, v)) \in Nat
<1>1. IsFiniteSet(1 .. i)
  BY FS_Interval
<1>2. Places(batch, i, v) \in SUBSET (1 .. i)
  BY DEF Places
<1>3. IsFiniteSet(Places(batch, i, v))
  BY <1>1, <1>2, FS_Subset
<1> QED
  BY <1>3, FS_CardinalityType

LEMMA UptoTyped ==
    ASSUME NEW bag \in Bag, NEW batch, NEW i \in Nat
    PROVE  /\ Upto(bag, batch, i) \in Bag
           /\ \A v \in Input : Upto(bag, batch, i)[v] = bag[v] + Cardinality(Places(batch, i, v))
BY PlacesFinite DEF Upto, Bag

LEMMA UptoSteps ==
    ASSUME NEW bag \in Bag, NEW batch \in Rowed
    PROVE  /\ Upto(bag, batch, 0) = bag
           /\ \A i \in 1 .. Len(batch) :
                 /\ batch[i] \notin Input => Upto(bag, batch, i) = Upto(bag, batch, i - 1)
                 /\ batch[i] \in Input =>
                       Upto(bag, batch, i) = With(Upto(bag, batch, i - 1), batch[i])
<1>1. Upto(bag, batch, 0) = bag
  <2>1. ASSUME NEW v \in Input PROVE Upto(bag, batch, 0)[v] = bag[v]
    <3>1. Places(batch, 0, v) = {}
      BY DEF Places
    <3>2. bag[v] \in Nat
      BY DEF Bag
    <3>3. Cardinality(Places(batch, 0, v)) = 0
      BY <3>1, FS_EmptySet
    <3>4. Upto(bag, batch, 0)[v] = bag[v] + Cardinality(Places(batch, 0, v))
      BY UptoTyped
    <3> QED
      BY <3>2, <3>3, <3>4
  <2> QED
    BY <2>1, UptoTyped DEF Bag
<1>2. ASSUME NEW i \in 1 .. Len(batch), NEW v \in Input
      PROVE  Cardinality(Places(batch, i, v))
               = Cardinality(Places(batch, i - 1, v)) + IF batch[i] = v THEN 1 ELSE 0
  <2>1. i \in Nat /\ i - 1 \in Nat /\ i \notin 1 .. i - 1 /\ 1 .. i = (1 .. i - 1) \cup {i}
    OBVIOUS
  <2>2. /\ IsFiniteSet(Places(batch, i - 1, v))
        /\ Cardinality(Places(batch, i - 1, v)) \in Nat
    BY <2>1, PlacesFinite
  <2>3. CASE batch[i] = v
    <3>1. /\ Places(batch, i, v) = Places(batch, i - 1, v) \cup {i}
          /\ i \notin Places(batch, i - 1, v)
      BY <2>1, <2>3 DEF Places
    <3> QED
      BY <2>2, <2>3, <3>1, FS_AddElement
  <2>4. CASE batch[i] # v
    <3>1. Places(batch, i, v) = Places(batch, i - 1, v)
      BY <2>1, <2>4 DEF Places
    <3> QED
      BY <2>2, <2>4, <3>1
  <2> QED
    BY <2>3, <2>4
<1>3. ASSUME NEW i \in 1 .. Len(batch), NEW v \in Input
      PROVE  Upto(bag, batch, i)[v]
               = Upto(bag, batch, i - 1)[v] + IF batch[i] = v THEN 1 ELSE 0
  <2>1. i \in Nat /\ i - 1 \in Nat /\ bag[v] \in Nat
    BY DEF Bag
  <2>2. /\ Upto(bag, batch, i)[v] = bag[v] + Cardinality(Places(batch, i, v))
        /\ Upto(bag, batch, i - 1)[v] = bag[v] + Cardinality(Places(batch, i - 1, v))
        /\ Cardinality(Places(batch, i - 1, v)) \in Nat
    BY <2>1, UptoTyped, PlacesFinite
  <2> QED
    BY <1>2, <2>1, <2>2
<1>4. ASSUME NEW i \in 1 .. Len(batch)
      PROVE  Upto(bag, batch, i) \in Bag /\ Upto(bag, batch, i - 1) \in Bag
  <2>1. i \in Nat /\ i - 1 \in Nat
    OBVIOUS
  <2> QED
    BY <2>1, UptoTyped
<1>5. ASSUME NEW i \in 1 .. Len(batch), batch[i] \notin Input
      PROVE  Upto(bag, batch, i) = Upto(bag, batch, i - 1)
  <2>1. ASSUME NEW v \in Input PROVE Upto(bag, batch, i)[v] = Upto(bag, batch, i - 1)[v]
    <3>1. Upto(bag, batch, i)[v]
            = Upto(bag, batch, i - 1)[v] + IF batch[i] = v THEN 1 ELSE 0
      BY <1>3
    <3>2. batch[i] # v
      BY <1>5
    <3>3. Upto(bag, batch, i - 1)[v] \in Nat
      BY <1>4 DEF Bag
    <3> QED
      BY <3>1, <3>2, <3>3
  <2> QED
    BY <1>4, <2>1 DEF Bag
<1>6. ASSUME NEW i \in 1 .. Len(batch), batch[i] \in Input
      PROVE  Upto(bag, batch, i) = With(Upto(bag, batch, i - 1), batch[i])
  <2> DEFINE before == Upto(bag, batch, i - 1)
             after == Upto(bag, batch, i)
             v == batch[i]
  <2>1. before \in Bag /\ after \in Bag /\ v \in Input
    BY <1>4, <1>6
  <2>2. after[v] = before[v] + 1 /\ \A w \in Input : w # v => after[w] = before[w] + 0
    BY <1>3, <2>1
  <2> HIDE DEF before, after, v
  <2>3. \A w \in Input : w # v => after[w] = before[w]
    BY <2>1, <2>2 DEF Bag
  <2>4. after = [before EXCEPT ![v] = @ + 1]
    BY <2>1, <2>2, <2>3 DEF Bag
  <2> QED
    BY <2>4 DEF before, after, v, With
<1> QED
  BY <1>1, <1>5, <1>6

LEMMA BatchIsUpto ==
    ASSUME NEW bag \in Bag, NEW batch \in Rowed
    PROVE  [v \in Input |-> bag[v] + Of(v, batch)] = Upto(bag, batch, Len(batch))
BY DEF Of, Upto, Places

-----------------------------------------------------------------------------
(***************************************************************************)
(* Lanes.  State and lanes have the sum together, and what they are away   *)
(* from zero is no more than their values are.                             *)
(***************************************************************************)
Slots(m) == 1 .. m
Laned(m) == [state : State, lanes : [Slots(m) -> Lane], rows : Nat]
Far(lanes, m) == [k \in Slots(m) |-> Abs(lanes[k])]

\* later: rows that are counted with the end of the batch.
Carried(x, m, bag, later) ==
    IF x.state.ok
    THEN /\ x.state.count + x.rows + later = Rows(bag)
         /\ x.state.sum + SumFunctionOnSet(x.lanes, Slots(m)) = Sum(bag)
         /\ Abs(x.state.sum) + SumFunctionOnSet(Far(x.lanes, m), Slots(m)) <= Magnitude(bag)
    ELSE Magnitude(bag) >= WideTop

LEMMA LanesTyped ==
    ASSUME NEW m \in Nat, NEW lanes \in [Slots(m) -> Lane]
    PROVE  /\ IsFiniteSet(Slots(m))
           /\ \A k \in Slots(m) : lanes[k] \in Int /\ Far(lanes, m)[k] \in Nat
           /\ SumFunctionOnSet(lanes, Slots(m)) \in Int
           /\ SumFunctionOnSet(Far(lanes, m), Slots(m)) \in Nat
<1>1. IsFiniteSet(Slots(m))
  BY FS_Interval DEF Slots
<1>2. ASSUME NEW k \in Slots(m) PROVE lanes[k] \in Int /\ Far(lanes, m)[k] \in Nat
  <2>1. lanes[k] \in Int
    BY Widths
  <2>2. Abs(lanes[k]) \in Nat
    BY <2>1 DEF Abs
  <2> QED
    BY <2>1, <2>2 DEF Far
<1>3. SumFunctionOnSet(lanes, Slots(m)) \in Int
  BY <1>1, <1>2, SumIsInt
<1>4. SumFunctionOnSet(Far(lanes, m), Slots(m)) \in Nat
  BY <1>1, <1>2, SumIsNat
<1> QED
  BY <1>1, <1>2, <1>3, <1>4

\* A lane is one of them.
LEMMA LaneBound ==
    ASSUME NEW m \in Nat, NEW lanes \in [Slots(m) -> Lane], NEW k \in Slots(m)
    PROVE  Abs(lanes[k]) <= SumFunctionOnSet(Far(lanes, m), Slots(m))
<1> DEFINE f == Far(lanes, m)
           g == [f EXCEPT ![k] = 0]
<1>1. f \in [Slots(m) -> Nat] /\ f[k] = Abs(lanes[k])
  BY LanesTyped DEF Far
<1>2. \A j \in Slots(m) : /\ f[j] \in Int /\ g[j] \in Int /\ g[j] \in Nat /\ (j # k => g[j] = f[j])
  BY <1>1
<1>3. g[k] = 0
  BY <1>1
<1>4. IsFiniteSet(Slots(m))
  BY LanesTyped
<1> HIDE DEF f, g
<1>5. SumFunctionOnSet(g, Slots(m)) = SumFunctionOnSet(f, Slots(m)) - f[k] + g[k]
  BY <1>2, <1>4, SumChanged
<1>6. SumFunctionOnSet(g, Slots(m)) \in Nat
  BY <1>2, <1>4, SumIsNat
<1>7. SumFunctionOnSet(f, Slots(m)) \in Nat
  BY LanesTyped DEF f
<1> QED
  BY <1>1, <1>2, <1>3, <1>5, <1>6, <1>7 DEF f

\* A lane gets another value.
LEMMA LaneSet ==
    ASSUME NEW m \in Nat, NEW lanes \in [Slots(m) -> Lane], NEW k \in Slots(m), NEW v \in Lane
    PROVE  LET new == [lanes EXCEPT ![k] = v]
           IN  /\ new \in [Slots(m) -> Lane]
               /\ SumFunctionOnSet(new, Slots(m)) = SumFunctionOnSet(lanes, Slots(m)) - lanes[k] + v
               /\ SumFunctionOnSet(Far(new, m), Slots(m))
                    = SumFunctionOnSet(Far(lanes, m), Slots(m)) - Abs(lanes[k]) + Abs(v)
<1> DEFINE new == [lanes EXCEPT ![k] = v]
<1>1. new \in [Slots(m) -> Lane] /\ new[k] = v /\ \A j \in Slots(m) : j # k => new[j] = lanes[j]
  OBVIOUS
<1> HIDE DEF new
<1>2. IsFiniteSet(Slots(m))
  BY LanesTyped
<1>3. \A j \in Slots(m) : lanes[j] \in Int /\ new[j] \in Int /\ (j # k => new[j] = lanes[j])
  BY <1>1, LanesTyped
<1>4. SumFunctionOnSet(new, Slots(m)) = SumFunctionOnSet(lanes, Slots(m)) - lanes[k] + new[k]
  BY <1>2, <1>3, SumChanged
<1> DEFINE f == Far(lanes, m)
           g == Far(new, m)
<1>5. ASSUME NEW j \in Slots(m)
      PROVE  f[j] \in Int /\ g[j] \in Int /\ (j # k => g[j] = f[j])
  <2>1. Far(lanes, m)[j] \in Nat
    BY LanesTyped
  <2>2. Far(new, m)[j] \in Nat
    BY <1>1, LanesTyped
  <2>3. j # k => Far(new, m)[j] = Far(lanes, m)[j]
    BY <1>1 DEF Far
  <2> QED
    BY <2>1, <2>2, <2>3
<1>6. f[k] = Abs(lanes[k]) /\ g[k] = Abs(v)
  BY <1>1 DEF Far
<1> HIDE DEF f, g
<1>7. SumFunctionOnSet(g, Slots(m)) = SumFunctionOnSet(f, Slots(m)) - f[k] + g[k]
  <2>1. \A j \in Slots(m) : f[j] \in Int /\ g[j] \in Int /\ (j # k => g[j] = f[j])
    BY <1>5
  <2>2. PICK S : S = Slots(m)
    OBVIOUS
  <2>3. IsFiniteSet(S) /\ k \in S /\ \A j \in S : f[j] \in Int /\ g[j] \in Int /\ (j # k => g[j] = f[j])
    BY <1>2, <2>1, <2>2
  <2>4. SumFunctionOnSet(g, S) = SumFunctionOnSet(f, S) - f[k] + g[k]
    BY <2>3, SumChanged
  <2> QED
    BY <2>2, <2>4
<1> QED
  BY <1>1, <1>4, <1>6, <1>7 DEF f, g, new

LEMMA StartedCarries ==
    ASSUME NEW s \in State, NEW bag \in Bag, Good(s, bag), NEW m \in Nat \ {0}
    PROVE  Started(s, m) \in Laned(m) /\ Carried(Started(s, m), m, bag, 0)
<1>1. /\ Started(s, m).state = s /\ Started(s, m).rows = 0
      /\ Started(s, m).lanes \in [Slots(m) -> Lane]
      /\ \A k \in Slots(m) : Started(s, m).lanes[k] = 0
  BY Widths DEF Started, Slots
<1>2. Started(s, m) \in Laned(m)
  BY <1>1 DEF Started, Laned
<1> DEFINE lanes == Started(s, m).lanes
<1>3. \A k \in Slots(m) : Far(lanes, m)[k] = 0
  BY <1>1 DEF Far, Abs
<1>4. SumFunctionOnSet(lanes, Slots(m)) = 0
  BY <1>1, LanesTyped, SumOfZeros
<1>5. SumFunctionOnSet(Far(lanes, m), Slots(m)) = 0
  BY <1>1, <1>3, LanesTyped, SumOfZeros
<1>6. s.sum \in Int /\ Sum(bag) \in Int /\ Magnitude(bag) \in Nat
  BY BagTyped DEF State
<1>7. s.ok => s.sum = Sum(bag) /\ Abs(s.sum) <= Magnitude(bag)
  BY <1>6, SumBound DEF Good, Abs
<1>8. Abs(s.sum) \in Nat
  BY <1>6 DEF Abs
<1>9. ~s.ok => Magnitude(bag) >= WideTop
  BY DEF Good
<1> HIDE DEF lanes
<1>10. s.ok => s.count + 0 + 0 = Rows(bag)
  BY BagTyped DEF Good, State
<1>11. Carried(Started(s, m), m, bag, 0)
  BY <1>1, <1>4, <1>5, <1>6, <1>7, <1>8, <1>9, <1>10 DEF Carried, lanes
<1> QED
  BY <1>2, <1>11

\* A value in a lane: the lane has it, or is added to the state first.
LEMMA InLaneCarries ==
    ASSUME NEW m \in Nat, NEW x \in Laned(m), NEW k \in Slots(m), NEW v \in Input,
           NEW n \in Nat, NEW bag \in Bag, NEW later \in Nat, NEW next \in Nat,
           later + 1 = next + n, Carried(x, m, bag, later)
    PROVE  /\ InLane(x, k, v, n) \in Laned(m)
           /\ Carried(InLane(x, k, v, n), m, With(bag, v), next)
           /\ x.rows = 0 /\ n = 0 => InLane(x, k, v, n).rows = 0
<1> DEFINE more == With(bag, v)
           lane == x.lanes[k]
           total == SumFunctionOnSet(x.lanes, Slots(m))
           far == SumFunctionOnSet(Far(x.lanes, m), Slots(m))
<1>1. /\ x.state \in State /\ x.lanes \in [Slots(m) -> Lane] /\ x.rows \in Nat
      /\ lane \in Lane /\ lane \in Int /\ v \in Lane /\ v \in Int
      /\ x.state.sum \in Int /\ x.state.count \in Nat /\ WideTop \in Nat
  BY Widths DEF Laned, State
<1>2. /\ total \in Int /\ far \in Nat /\ Abs(lane) <= far
  BY <1>1, LanesTyped, LaneBound
<1>3. /\ more \in Bag /\ Sum(more) = Sum(bag) + v /\ Rows(more) = Rows(bag) + 1
      /\ Magnitude(more) = Magnitude(bag) + Abs(v)
      /\ Sum(bag) \in Int /\ Rows(bag) \in Nat /\ Magnitude(bag) \in Nat
  BY WithOne, BagTyped
<1>4. /\ x.state.ok => /\ x.state.count + x.rows + later = Rows(bag)
                       /\ x.state.sum + total = Sum(bag)
                       /\ Abs(x.state.sum) + far <= Magnitude(bag)
      /\ ~x.state.ok => Magnitude(bag) >= WideTop
  BY DEF Carried
<1> HIDE DEF more, lane, total, far
<1>5. CASE lane + v \in Lane
  <2> DEFINE new == [x.lanes EXCEPT ![k] = lane + v]
  <2>1. /\ new \in [Slots(m) -> Lane]
        /\ SumFunctionOnSet(new, Slots(m)) = total - lane + (lane + v)
        /\ SumFunctionOnSet(Far(new, m), Slots(m)) = far - Abs(lane) + Abs(lane + v)
    BY <1>1, <1>5, LaneSet DEF lane, total, far
  <2>2. InLane(x, k, v, n) = [x EXCEPT !.lanes = new, !.rows = x.rows + n]
    BY <1>1, <1>5 DEF InLane, lane, Laned
  <2> HIDE DEF new
  <2>3. /\ InLane(x, k, v, n) \in Laned(m) /\ InLane(x, k, v, n).state = x.state
        /\ InLane(x, k, v, n).lanes = new /\ InLane(x, k, v, n).rows = x.rows + n
    <3>1. x.rows + n \in Nat
      BY <1>1
    <3> QED
      BY <1>1, <2>1, <2>2, <3>1 DEF Laned
  <2>4. Abs(lane + v) <= Abs(lane) + Abs(v) /\ Abs(x.state.sum) \in Nat
    BY <1>1 DEF Abs
  <2>5. /\ Abs(lane) \in Nat /\ Abs(v) \in Nat /\ Abs(lane + v) \in Nat
    BY <1>1 DEF Abs
  <2>6. CASE x.state.ok
    <3>1. x.state.count + (x.rows + n) + next = Rows(more)
      BY <1>1, <1>3, <1>4, <2>6
    <3>2. x.state.sum + (total - lane + (lane + v)) = Sum(more)
      BY <1>1, <1>2, <1>3, <1>4, <2>6
    <3>3. Abs(x.state.sum) + (far - Abs(lane) + Abs(lane + v)) <= Magnitude(more)
      BY <1>2, <1>3, <1>4, <2>4, <2>5, <2>6
    <3>4. Carried(InLane(x, k, v, n), m, more, next)
      BY <2>1, <2>3, <2>6, <3>1, <3>2, <3>3 DEF Carried
    <3> QED
      BY <1>1, <2>3, <3>4 DEF more
  <2>7. CASE ~x.state.ok
    <3>1. Magnitude(more) >= WideTop
      BY <1>1, <1>3, <1>4, <2>5, <2>7
    <3>2. Carried(InLane(x, k, v, n), m, more, next)
      BY <2>3, <2>7, <3>1 DEF Carried
    <3> QED
      BY <1>1, <2>3, <3>2 DEF more
  <2> QED
    BY <2>6, <2>7
<1>6. CASE lane + v \notin Lane
  <2> DEFINE new == [x.lanes EXCEPT ![k] = v]
             s == Add(x.state, lane, x.rows)
  <2>1. /\ new \in [Slots(m) -> Lane]
        /\ SumFunctionOnSet(new, Slots(m)) = total - lane + v
        /\ SumFunctionOnSet(Far(new, m), Slots(m)) = far - Abs(lane) + Abs(v)
    BY <1>1, LaneSet DEF lane, total, far
  <2>2. InLane(x, k, v, n) = [x EXCEPT !.state = s, !.lanes = new, !.rows = n]
    BY <1>1, <1>6 DEF InLane, lane, Laned
  <2>3. /\ s \in State
        /\ s.ok <=> x.state.ok /\ x.state.sum + lane \in Wide
        /\ s.ok => s.sum = x.state.sum + lane /\ s.count = x.state.count + x.rows
    BY <1>1, AddTyped
  <2> HIDE DEF new, s
  <2>4. /\ InLane(x, k, v, n) \in Laned(m) /\ InLane(x, k, v, n).state = s
        /\ InLane(x, k, v, n).lanes = new /\ InLane(x, k, v, n).rows = n
    BY <1>1, <2>1, <2>2, <2>3 DEF Laned
  <2>5. /\ Abs(lane) \in Nat /\ Abs(v) \in Nat /\ Abs(x.state.sum) \in Nat
        /\ Abs(x.state.sum + lane) \in Nat
        /\ Abs(x.state.sum + lane) <= Abs(x.state.sum) + Abs(lane)
    BY <1>1 DEF Abs
  <2>6. CASE s.ok
    <3>1. s.count + n + next = Rows(more)
      BY <1>1, <1>3, <1>4, <2>3, <2>6
    <3>2. s.sum + (total - lane + v) = Sum(more)
      BY <1>1, <1>2, <1>3, <1>4, <2>3, <2>6
    <3>3. Abs(s.sum) + (far - Abs(lane) + Abs(v)) <= Magnitude(more)
      BY <1>2, <1>3, <1>4, <2>3, <2>5, <2>6
    <3>4. Carried(InLane(x, k, v, n), m, more, next)
      BY <2>1, <2>4, <2>6, <3>1, <3>2, <3>3 DEF Carried
    <3> QED
      BY <1>1, <2>4, <3>4 DEF more
  <2>7. CASE ~s.ok
    <3>1. Magnitude(bag) >= WideTop
      <4>1. CASE x.state.ok
        <5>1. x.state.sum + lane \notin Wide
          BY <2>3, <2>7, <4>1
        <5>2. Abs(x.state.sum + lane) >= WideTop
          BY <1>1, <5>1 DEF Wide, Abs
        <5> QED
          BY <1>1, <1>2, <1>3, <1>4, <2>5, <4>1, <5>2
      <4> QED
        BY <1>4, <4>1
    <3>2. Magnitude(more) >= WideTop
      BY <1>1, <1>3, <2>5, <3>1
    <3>3. Carried(InLane(x, k, v, n), m, more, next)
      BY <2>4, <2>7, <3>2 DEF Carried
    <3> QED
      BY <1>1, <2>4, <3>3 DEF more
  <2> QED
    BY <2>6, <2>7
<1> QED
  BY <1>5, <1>6

-----------------------------------------------------------------------------
(***************************************************************************)
(* The end of a batch: the state takes the lanes up, one by one.  rest is  *)
(* what the lanes that it has not taken up have, far how far they are from *)
(* zero.                                                                   *)
(***************************************************************************)
Ending(s, rest, far, bag, later) ==
    IF s.ok
    THEN /\ s.count + later = Rows(bag) /\ s.sum + rest = Sum(bag)
         /\ Abs(s.sum) + far <= Magnitude(bag)
    ELSE Magnitude(bag) >= WideTop

LEMMA TakesUp ==
    ASSUME NEW s \in State, NEW bag \in Bag, NEW rest \in Int, NEW far \in Nat, NEW later \in Nat,
           Ending(s, rest, far, bag, later),
           NEW v \in Int, NEW n \in Nat, NEW next \in Nat, later = next + n,
           NEW less \in Nat, far = less + Abs(v)
    PROVE  Add(s, v, n) \in State /\ Ending(Add(s, v, n), rest - v, less, bag, next)
<1> DEFINE t == Add(s, v, n)
<1>1. /\ s.sum \in Int /\ s.count \in Nat /\ WideTop \in Nat
      /\ Sum(bag) \in Int /\ Rows(bag) \in Nat /\ Magnitude(bag) \in Nat
  BY Widths, BagTyped DEF State
<1>2. /\ t \in State
      /\ t.ok <=> s.ok /\ s.sum + v \in Wide
      /\ t.ok => t.sum = s.sum + v /\ t.count = s.count + n
  BY AddTyped
<1> HIDE DEF t
<1>3. /\ Abs(v) \in Nat /\ Abs(s.sum) \in Nat /\ Abs(s.sum + v) \in Nat
      /\ Abs(s.sum + v) <= Abs(s.sum) + Abs(v)
  BY <1>1 DEF Abs
<1>4. CASE t.ok
  <2>1. s.ok /\ s.count + later = Rows(bag) /\ s.sum + rest = Sum(bag)
        /\ Abs(s.sum) + far <= Magnitude(bag)
    BY <1>2, <1>4 DEF Ending
  <2>2. t.count + next = Rows(bag)
    BY <1>1, <1>2, <1>4, <2>1
  <2>3. t.sum + (rest - v) = Sum(bag)
    BY <1>1, <1>2, <1>4, <2>1
  <2>4. Abs(t.sum) + less <= Magnitude(bag)
    BY <1>1, <1>2, <1>3, <1>4, <2>1
  <2>5. Ending(t, rest - v, less, bag, next)
    BY <1>4, <2>2, <2>3, <2>4 DEF Ending
  <2> QED
    BY <1>2, <2>5 DEF t
<1>5. CASE ~t.ok
  <2>1. Magnitude(bag) >= WideTop
    <3>1. CASE s.ok
      <4>1. s.sum + v \notin Wide /\ Abs(s.sum) + far <= Magnitude(bag)
        BY <1>2, <1>5, <3>1 DEF Ending
      <4>2. Abs(s.sum + v) >= WideTop
        BY <1>1, <4>1 DEF Wide, Abs
      <4> QED
        BY <1>1, <1>3, <4>1, <4>2
    <3>2. CASE ~s.ok
      BY <3>2 DEF Ending
    <3> QED
      BY <3>1, <3>2
  <2>2. Ending(t, rest - v, less, bag, next)
    BY <1>5, <2>1 DEF Ending
  <2> QED
    BY <1>2, <2>2 DEF t
<1> QED
  BY <1>4, <1>5

LEMMA EndsGood ==
    ASSUME NEW s \in State, NEW bag \in Bag, Ending(s, 0, 0, bag, 0)
    PROVE  Good(s, bag)
<1>1. s.sum \in Int /\ s.count \in Nat
  BY DEF State
<1>2. s.ok => s.count + 0 = Rows(bag) /\ s.sum + 0 = Sum(bag)
  BY DEF Ending
<1>3. ~s.ok => Magnitude(bag) >= WideTop
  BY DEF Ending
<1> QED
  BY <1>1, <1>2, <1>3 DEF Good

LEMMA CarriedEnds ==
    ASSUME NEW m \in Nat, NEW x \in Laned(m), NEW bag \in Bag, NEW later \in Nat,
           Carried(x, m, bag, later)
    PROVE  Ending(x.state, SumFunctionOnSet(x.lanes, Slots(m)),
                  SumFunctionOnSet(Far(x.lanes, m), Slots(m)), bag, x.rows + later)
<1>1. x.rows \in Nat /\ (x.state.ok => x.state.count \in Nat)
  BY DEF Laned, State
<1>2. x.state.ok => x.state.count + (x.rows + later) = Rows(bag)
  BY <1>1 DEF Carried
<1> QED
  BY <1>2 DEF Carried, Ending

\* All lanes, in any number.
LEMMA TakesUpAll ==
    ASSUME NEW m \in Nat, NEW lanes \in [Slots(m) -> Lane], NEW s \in State, NEW bag \in Bag,
           NEW later \in Nat,
           Ending(s, SumFunctionOnSet(lanes, Slots(m)), SumFunctionOnSet(Far(lanes, m), Slots(m)),
                  bag, later),
           NEW merged, merged[0] = s, \A k \in 1 .. m : merged[k] = Add(merged[k - 1], lanes[k], 0)
    PROVE  merged[m] \in State /\ Ending(merged[m], 0, 0, bag, later)
<1> DEFINE Beyond(j) == {k \in Slots(m) : k > j}
           rest(j) == SumFunctionOnSet(lanes, Beyond(j))
           far(j) == SumFunctionOnSet(Far(lanes, m), Beyond(j))
           Q == {j \in Nat : j <= m => merged[j] \in State
                                         /\ Ending(merged[j], rest(j), far(j), bag, later)}
<1>1. /\ IsFiniteSet(Slots(m))
      /\ \A k \in Slots(m) : lanes[k] \in Int /\ Far(lanes, m)[k] \in Nat
                             /\ Far(lanes, m)[k] = Abs(lanes[k])
  <2>1. \A k \in Slots(m) : Far(lanes, m)[k] = Abs(lanes[k])
    BY DEF Far
  <2> QED
    BY <2>1, LanesTyped
<1>2. ASSUME NEW j \in Nat
      PROVE  IsFiniteSet(Beyond(j)) /\ Beyond(j) \in SUBSET Slots(m) /\ rest(j) \in Int /\ far(j) \in Nat
  <2> DEFINE T == Beyond(j)
  <2>1. T \in SUBSET Slots(m)
    OBVIOUS
  <2> HIDE DEF T
  <2>2. IsFiniteSet(T)
    BY <1>1, <2>1, FS_Subset
  <2>3. \A k \in T : lanes[k] \in Int /\ Far(lanes, m)[k] \in Nat
    BY <1>1, <2>1
  <2>4. SumFunctionOnSet(lanes, T) \in Int
    BY <2>2, <2>3, SumIsInt
  <2>5. SumFunctionOnSet(Far(lanes, m), T) \in Nat
    BY <2>2, <2>3, SumIsNat
  <2> QED
    BY <2>1, <2>2, <2>4, <2>5 DEF T
<1>3. 0 \in Q
  <2>1. Beyond(0) = Slots(m)
    BY DEF Slots
  <2> QED
    BY <2>1
<1>4. ASSUME NEW j \in Nat, j \in Q PROVE j + 1 \in Q
  <2> SUFFICES ASSUME j + 1 <= m
               PROVE  merged[j + 1] \in State
                      /\ Ending(merged[j + 1], rest(j + 1), far(j + 1), bag, later)
    OBVIOUS
  <2>1. /\ j + 1 \in 1 .. m /\ j + 1 \in Slots(m) /\ (j + 1) - 1 = j /\ j <= m
        /\ Beyond(j) = Beyond(j + 1) \cup {j + 1} /\ j + 1 \in Slots(m) \ Beyond(j + 1)
    BY DEF Slots
  <2>2. merged[j] \in State /\ Ending(merged[j], rest(j), far(j), bag, later)
    BY <1>4, <2>1
  <2>3. merged[j + 1] = Add(merged[j], lanes[j + 1], 0)
    BY <2>1
  <2>4. /\ rest(j) \in Int /\ rest(j + 1) \in Int /\ far(j) \in Nat /\ far(j + 1) \in Nat
        /\ Beyond(j + 1) \in SUBSET Slots(m)
    <3>1. j + 1 \in Nat
      OBVIOUS
    <3> HIDE DEF rest, far, Beyond
    <3> QED
      BY <1>2, <3>1
  <2>5. rest(j) = rest(j + 1) + lanes[j + 1]
    <3> DEFINE T == Beyond(j + 1)
    <3>1. T \in SUBSET Slots(m) /\ j + 1 \in Slots(m) \ T
      BY <2>1, <2>4
    <3> HIDE DEF T
    <3>2. SumFunctionOnSet(lanes, T \cup {j + 1}) = SumFunctionOnSet(lanes, T) + lanes[j + 1]
      BY <1>1, <3>1, SumWithOneMore
    <3> QED
      BY <2>1, <3>2 DEF T
  <2>6. far(j) = far(j + 1) + Abs(lanes[j + 1])
    <3> DEFINE T == Beyond(j + 1)
               f == Far(lanes, m)
    <3>1. T \in SUBSET Slots(m) /\ j + 1 \in Slots(m) \ T
      BY <2>1, <2>4
    <3>2. f[j + 1] = Abs(lanes[j + 1]) /\ \A k \in Slots(m) : f[k] \in Int
      BY <1>1, <2>1
    <3> HIDE DEF T, f
    <3>3. SumFunctionOnSet(f, T \cup {j + 1}) = SumFunctionOnSet(f, T) + f[j + 1]
      BY <1>1, <3>1, <3>2, SumWithOneMore
    <3> QED
      BY <2>1, <3>2, <3>3 DEF T, f
  <2>7. lanes[j + 1] \in Int
    BY <1>1, <2>1
  <2> HIDE DEF rest, far, Beyond, Q
  <2>8. /\ Add(merged[j], lanes[j + 1], 0) \in State
        /\ Ending(Add(merged[j], lanes[j + 1], 0), rest(j) - lanes[j + 1], far(j + 1), bag, later)
    <3>1. later = later + 0
      OBVIOUS
    <3> QED
      BY <2>2, <2>4, <2>6, <2>7, <3>1, TakesUp
  <2>9. rest(j + 1) = rest(j) - lanes[j + 1]
    BY <2>4, <2>5, <2>7
  <2> QED
    BY <2>3, <2>8, <2>9
<1>5. m \in Q
  <2> HIDE DEF Q
  <2> QED
    BY <1>3, <1>4, NumbersBySteps
<1>6. Beyond(m) = {}
  BY DEF Slots
<1>7. rest(m) = 0 /\ far(m) = 0
  BY <1>6, SumOfNothing
<1> QED
  BY <1>5, <1>7


-----------------------------------------------------------------------------
(***************************************************************************)
(* add_batch: a good state is one for the rows of the batch as well.       *)
(***************************************************************************)
LEMMA InLaneTyped ==
    ASSUME NEW m \in Nat, NEW x \in Laned(m), NEW k \in Slots(m), NEW v \in Input, NEW n \in Nat
    PROVE  InLane(x, k, v, n) \in Laned(m)
<1>1. /\ x.state \in State /\ x.lanes \in [Slots(m) -> Lane] /\ x.rows \in Nat
      /\ x.lanes[k] \in Lane /\ x.lanes[k] \in Int /\ v \in Lane /\ x.rows + n \in Nat
  <2>1. x.state \in State /\ x.lanes \in [Slots(m) -> Lane] /\ x.rows \in Nat
    BY DEF Laned
  <2>2. x.lanes[k] \in Lane /\ v \in Lane
    BY <2>1, Widths
  <2>3. x.lanes[k] \in Int
    BY <2>2, Widths
  <2>4. x.rows + n \in Nat
    BY <2>1
  <2> QED
    BY <2>1, <2>2, <2>3, <2>4
<1>2. CASE x.lanes[k] + v \in Lane
  <2>1. [x.lanes EXCEPT ![k] = x.lanes[k] + v] \in [Slots(m) -> Lane]
    BY <1>1, <1>2
  <2>2. InLane(x, k, v, n)
          = [x EXCEPT !.lanes = [x.lanes EXCEPT ![k] = x.lanes[k] + v], !.rows = x.rows + n]
    BY <1>1, <1>2 DEF InLane, Laned
  <2> QED
    BY <1>1, <2>1, <2>2 DEF Laned
<1>3. CASE x.lanes[k] + v \notin Lane
  <2>1. [x.lanes EXCEPT ![k] = v] \in [Slots(m) -> Lane]
    BY <1>1
  <2>2. Add(x.state, x.lanes[k], x.rows) \in State
    BY <1>1, AddTyped
  <2>3. InLane(x, k, v, n)
          = [x EXCEPT !.state = Add(x.state, x.lanes[k], x.rows),
                      !.lanes = [x.lanes EXCEPT ![k] = v], !.rows = n]
    BY <1>1, <1>3 DEF InLane, Laned
  <2> QED
    BY <1>1, <2>1, <2>2, <2>3 DEF Laned
<1> QED
  BY <1>2, <1>3

LEMMA AddSparseIsGood ==
    ASSUME NEW s \in State, NEW bag \in Bag, Good(s, bag), NEW batch \in Rowed
    PROVE  /\ AddSparse(s, batch) \in State
           /\ Good(AddSparse(s, batch), Upto(bag, batch, Len(batch)))
<1> DEFINE N == Len(batch)
           start == Started(s, 1)
           whole(f) == [i \in 0 .. N |->
               IF i = 0 THEN start
               ELSE IF batch[i] = Null THEN f[i - 1] ELSE InLane(f[i - 1], 1, batch[i], 1)]
           after == CHOOSE f : f = whole(f)
           step == [p \in (1 .. N) \X Laned(1) |->
               IF batch[p[1]] = Null THEN p[2] ELSE InLane(p[2], 1, batch[p[1]], 1)]
<1>1. /\ N \in Nat /\ Null \notin Input /\ 1 \in Slots(1)
      /\ \A i \in 1 .. N : batch[i] \in Input \cup {Null}
  BY Widths DEF Rowed, Slots
<1>2. start \in Laned(1) /\ Carried(start, 1, bag, 0)
  BY StartedCarries
<1> HIDE DEF start
<1>3. step \in [(1 .. N) \X Laned(1) -> Laned(1)]
  <2>1. \A p \in (1 .. N) \X Laned(1) :
           batch[p[1]] # Null => InLane(p[2], 1, batch[p[1]], 1) \in Laned(1)
    BY <1>1, InLaneTyped
  <2> QED
    BY <2>1
<1>4. PICK fl \in [0 .. N -> Laned(1)] : Follows(fl, N, start, step)
  <2> HIDE DEF step, N
  <2> QED
    BY <1>1, <1>2, <1>3, StepsExist
<1>5. ASSUME NEW i \in 1 .. N
      PROVE  fl[i] = IF batch[i] = Null THEN fl[i - 1] ELSE InLane(fl[i - 1], 1, batch[i], 1)
  <2>1. i - 1 \in 0 .. N
    BY <1>1
  <2>2. fl[i] = step[<<i, fl[i - 1]>>] /\ <<i, fl[i - 1]>> \in (1 .. N) \X Laned(1)
    BY <1>4, <2>1 DEF Follows
  <2> QED
    BY <2>2
<1>6. PICK found : found = [i \in 0 .. N |-> fl[i]]
  OBVIOUS
<1>7. found = whole(found)
  <2>1. \A i \in 0 .. N : i # 0 => i \in 1 .. N /\ i - 1 \in 0 .. N
    BY <1>1
  <2>2. fl[0] = start
    BY <1>4 DEF Follows
  <2> HIDE DEF step, N
  <2> QED
    BY <1>5, <1>6, <2>1, <2>2
<1>8. after = whole(after)
  <2> HIDE DEF whole
  <2> QED
    BY <1>7
<1>9. AddSparse(s, batch) = Add(after[N].state, after[N].lanes[1], after[N].rows)
  BY DEF AddSparse, start
<1> HIDE DEF after
<1>10. /\ after[0] = start
       /\ \A i \in 1 .. N : after[i] = IF batch[i] = Null THEN after[i - 1]
                                       ELSE InLane(after[i - 1], 1, batch[i], 1)
  <2>1. 0 \in 0 .. N /\ \A i \in 1 .. N : i \in 0 .. N /\ i # 0
    BY <1>1
  <2> QED
    BY <1>8, <2>1
<1> HIDE DEF whole, step
<1> DEFINE Q == {i \in Nat : i <= N =>
                    after[i] \in Laned(1) /\ Carried(after[i], 1, Upto(bag, batch, i), 0)}
<1>11. 0 \in Q
  BY <1>2, <1>10, UptoSteps
<1>12. ASSUME NEW i \in Nat, i \in Q PROVE i + 1 \in Q
  <2> SUFFICES ASSUME i + 1 <= N
               PROVE  /\ after[i + 1] \in Laned(1)
                      /\ Carried(after[i + 1], 1, Upto(bag, batch, i + 1), 0)
    OBVIOUS
  <2>1. i + 1 \in 1 .. N /\ (i + 1) - 1 = i /\ i <= N
    BY <1>1
  <2>2. after[i] \in Laned(1) /\ Carried(after[i], 1, Upto(bag, batch, i), 0)
        /\ Upto(bag, batch, i) \in Bag
    BY <1>12, <2>1, UptoTyped
  <2>3. CASE batch[i + 1] = Null
    <3>1. after[i + 1] = after[i] /\ Upto(bag, batch, i + 1) = Upto(bag, batch, i)
      BY <1>1, <1>10, <2>1, <2>3, UptoSteps
    <3> QED
      BY <2>2, <3>1
  <2>4. CASE batch[i + 1] \in Input
    <3>1. /\ after[i + 1] = InLane(after[i], 1, batch[i + 1], 1)
          /\ Upto(bag, batch, i + 1) = With(Upto(bag, batch, i), batch[i + 1])
      BY <1>1, <1>10, <2>1, <2>4, UptoSteps
    <3> QED
      BY <1>1, <2>2, <2>4, <3>1, InLaneCarries
  <2> QED
    BY <1>1, <2>1, <2>3, <2>4
<1>13. N \in Q
  <2> HIDE DEF Q
  <2> QED
    BY <1>1, <1>11, <1>12, NumbersBySteps
<1>14. PICK x : x = after[N]
  OBVIOUS
<1>15. PICK more : more = Upto(bag, batch, N)
  OBVIOUS
<1>16. x \in Laned(1) /\ Carried(x, 1, more, 0) /\ more \in Bag
  BY <1>1, <1>13, <1>14, <1>15, UptoTyped
<1>17. x.state \in State /\ x.lanes \in [Slots(1) -> Lane] /\ x.rows \in Nat
  BY <1>16 DEF Laned
<1> HIDE DEF N, Q
<1>18. /\ SumFunctionOnSet(x.lanes, Slots(1)) = x.lanes[1] /\ x.lanes[1] \in Int
       /\ SumFunctionOnSet(Far(x.lanes, 1), Slots(1)) = Abs(x.lanes[1])
  <2> DEFINE f == x.lanes
             g == Far(x.lanes, 1)
  <2>1. Slots(1) = {1}
    BY DEF Slots
  <2>2. /\ f[1] \in Int /\ g[1] \in Int
    BY <1>1, <1>17, LanesTyped
  <2>3. g[1] = Abs(f[1])
    BY <1>1 DEF Far
  <2> HIDE DEF f, g
  <2>4. SumFunctionOnSet(f, {1}) = f[1] /\ SumFunctionOnSet(g, {1}) = g[1]
    BY <2>2, SumOfOne
  <2> QED
    BY <2>1, <2>2, <2>3, <2>4 DEF f, g
<1>19. Ending(x.state, x.lanes[1], Abs(x.lanes[1]), more, x.rows)
  <2>1. Ending(x.state, x.lanes[1], Abs(x.lanes[1]), more, x.rows + 0)
    BY <1>16, <1>18, CarriedEnds
  <2> QED
    BY <1>17, <2>1
<1>20. /\ Add(x.state, x.lanes[1], x.rows) \in State
       /\ Ending(Add(x.state, x.lanes[1], x.rows), x.lanes[1] - x.lanes[1], 0, more, 0)
  <2>1. Abs(x.lanes[1]) \in Nat /\ Abs(x.lanes[1]) = 0 + Abs(x.lanes[1]) /\ x.rows = 0 + x.rows
    BY <1>17, <1>18 DEF Abs
  <2> QED
    BY <1>16, <1>17, <1>18, <1>19, <2>1, TakesUp
<1>21. x.lanes[1] - x.lanes[1] = 0
  BY <1>18
<1> QED
  BY <1>9, <1>14, <1>15, <1>16, <1>20, <1>21, EndsGood DEF N

LEMMA AddFullIsGood ==
    ASSUME NEW s \in State, NEW bag \in Bag, Good(s, bag), NEW batch \in Seq(Input)
    PROVE  /\ AddFull(s, batch) \in State
           /\ Good(AddFull(s, batch), Upto(bag, batch, Len(batch)))
<1> DEFINE N == Len(batch)
           start == Started(s, Lanes)
           at(i) == LaneOf(i, N)
           whole(f) == [i \in 0 .. N |->
               IF i = 0 THEN start ELSE InLane(f[i - 1], LaneOf(i, N), batch[i], 0)]
           after == CHOOSE f : f = whole(f)
           step == [p \in (1 .. N) \X Laned(Lanes) |-> InLane(p[2], at(p[1]), batch[p[1]], 0)]
<1>1. N \in Nat /\ Lanes \in Nat \ {0} /\ batch \in Rowed /\ \A i \in 1 .. N : batch[i] \in Input
  BY Widths DEF Rowed
<1>2. start \in Laned(Lanes) /\ Carried(start, Lanes, bag, 0) /\ start.rows = 0
  <2>1. start.rows = 0
    BY DEF Started
  <2> QED
    BY <1>1, <2>1, StartedCarries
<1> HIDE DEF start
<1>3. ASSUME NEW i \in 1 .. N PROVE at(i) \in Slots(Lanes)
  <2>1. i - 1 \in Nat
    OBVIOUS
  <2>2. (i - 1) % Lanes \in 0 .. Lanes - 1
    BY <1>1, <2>1
  <2>3. LaneOf(i, N) = ((i - 1) % Lanes) + 1 \/ LaneOf(i, N) = 1
    BY DEF LaneOf
  <2> QED
    BY <1>1, <2>2, <2>3 DEF Slots
<1> HIDE DEF at
<1>4. step \in [(1 .. N) \X Laned(Lanes) -> Laned(Lanes)]
  <2>1. \A p \in (1 .. N) \X Laned(Lanes) :
           InLane(p[2], at(p[1]), batch[p[1]], 0) \in Laned(Lanes)
    BY <1>1, <1>3, InLaneTyped
  <2> QED
    BY <2>1
<1>5. PICK fl \in [0 .. N -> Laned(Lanes)] : Follows(fl, N, start, step)
  <2> HIDE DEF step, N
  <2> QED
    BY <1>1, <1>2, <1>4, StepsExist
<1>6. ASSUME NEW i \in 1 .. N PROVE fl[i] = InLane(fl[i - 1], LaneOf(i, N), batch[i], 0)
  <2>1. i - 1 \in 0 .. N
    BY <1>1
  <2>2. fl[i] = step[<<i, fl[i - 1]>>] /\ <<i, fl[i - 1]>> \in (1 .. N) \X Laned(Lanes)
    BY <1>5, <2>1 DEF Follows
  <2> QED
    BY <2>2 DEF at
<1>7. PICK found : found = [i \in 0 .. N |-> fl[i]]
  OBVIOUS
<1>8. found = whole(found)
  <2>1. \A i \in 0 .. N : i # 0 => i \in 1 .. N /\ i - 1 \in 0 .. N
    BY <1>1
  <2>2. fl[0] = start
    BY <1>5 DEF Follows
  <2> HIDE DEF step, N
  <2> QED
    BY <1>6, <1>7, <2>1, <2>2
<1>9. after = whole(after)
  <2> HIDE DEF whole
  <2> QED
    BY <1>8
<1> DEFINE end == after[N]
           merging(g) == [k \in 0 .. Lanes |->
               IF k = 0 THEN end.state ELSE Add(g[k - 1], end.lanes[k], 0)]
           merged == CHOOSE g : g = merging(g)
<1>10. AddFull(s, batch) = Add(merged[Lanes], 0, N)
  BY DEF AddFull, start
<1> HIDE DEF after
<1>11. /\ after[0] = start
       /\ \A i \in 1 .. N : after[i] = InLane(after[i - 1], at(i), batch[i], 0)
  <2>1. 0 \in 0 .. N /\ \A i \in 1 .. N : i \in 0 .. N /\ i # 0
    BY <1>1
  <2> QED
    BY <1>9, <2>1 DEF at
<1> HIDE DEF whole, step
<1> DEFINE Q == {i \in Nat : i <= N => /\ after[i] \in Laned(Lanes) /\ after[i].rows = 0
                                       /\ Carried(after[i], Lanes, Upto(bag, batch, i), i)}
<1>12. 0 \in Q
  BY <1>1, <1>2, <1>11, UptoSteps
<1>13. ASSUME NEW i \in Nat, i \in Q PROVE i + 1 \in Q
  <2> SUFFICES ASSUME i + 1 <= N
               PROVE  /\ after[i + 1] \in Laned(Lanes) /\ after[i + 1].rows = 0
                      /\ Carried(after[i + 1], Lanes, Upto(bag, batch, i + 1), i + 1)
    OBVIOUS
  <2>1. i + 1 \in 1 .. N /\ (i + 1) - 1 = i /\ i <= N /\ i + 1 \in Nat /\ i + 1 = (i + 1) + 0
    BY <1>1
  <2>2. /\ after[i] \in Laned(Lanes) /\ Carried(after[i], Lanes, Upto(bag, batch, i), i)
        /\ Upto(bag, batch, i) \in Bag /\ after[i].rows = 0
    BY <1>13, <2>1, UptoTyped
  <2>3. batch[i + 1] \in Input /\ at(i + 1) \in Slots(Lanes)
    BY <1>1, <1>3, <2>1
  <2>4. /\ after[i + 1] = InLane(after[i], at(i + 1), batch[i + 1], 0)
        /\ Upto(bag, batch, i + 1) = With(Upto(bag, batch, i), batch[i + 1])
    BY <1>1, <1>11, <2>1, <2>3, UptoSteps
  <2> HIDE DEF N
  <2> QED
    BY <1>1, <2>1, <2>2, <2>3, <2>4, InLaneCarries
<1>14. N \in Q
  <2> HIDE DEF Q
  <2> QED
    BY <1>1, <1>12, <1>13, NumbersBySteps
<1>15. PICK more : more = Upto(bag, batch, N)
  OBVIOUS
<1>16. end \in Laned(Lanes) /\ end.rows = 0 /\ Carried(end, Lanes, more, N) /\ more \in Bag
  BY <1>1, <1>14, <1>15, UptoTyped
<1> HIDE DEF end, Q, N
<1>17. end.state \in State /\ end.lanes \in [Slots(Lanes) -> Lane]
  BY <1>16 DEF Laned
<1>18. Ending(end.state, SumFunctionOnSet(end.lanes, Slots(Lanes)),
              SumFunctionOnSet(Far(end.lanes, Lanes), Slots(Lanes)), more, N)
  <2>1. end.rows + N = N
    BY <1>1, <1>16
  <2> QED
    BY <1>1, <1>16, <2>1, CarriedEnds
<1> DEFINE take == [p \in (1 .. Lanes) \X State |-> Add(p[2], end.lanes[p[1]], 0)]
<1>19. take \in [(1 .. Lanes) \X State -> State]
  <2>1. \A k \in 1 .. Lanes : end.lanes[k] \in Int
    BY <1>1, <1>17, LanesTyped DEF Slots
  <2>2. \A p \in (1 .. Lanes) \X State : Add(p[2], end.lanes[p[1]], 0) \in State
    BY <2>1, AddTyped
  <2> QED
    BY <2>2
<1>20. PICK ml \in [0 .. Lanes -> State] : Follows(ml, Lanes, end.state, take)
  <2> HIDE DEF take
  <2> QED
    BY <1>1, <1>17, <1>19, StepsExist
<1>21. ASSUME NEW k \in 1 .. Lanes PROVE ml[k] = Add(ml[k - 1], end.lanes[k], 0)
  <2>1. k - 1 \in 0 .. Lanes
    BY <1>1
  <2>2. ml[k] = take[<<k, ml[k - 1]>>] /\ <<k, ml[k - 1]>> \in (1 .. Lanes) \X State
    BY <1>20, <2>1 DEF Follows
  <2> QED
    BY <2>2
<1>22. PICK all : all = [k \in 0 .. Lanes |-> ml[k]]
  OBVIOUS
<1>23. all = merging(all)
  <2>1. \A k \in 0 .. Lanes : k # 0 => k \in 1 .. Lanes /\ k - 1 \in 0 .. Lanes
    BY <1>1
  <2>2. ml[0] = end.state
    BY <1>20 DEF Follows
  <2> HIDE DEF take
  <2> QED
    BY <1>21, <1>22, <2>1, <2>2
<1>24. merged = merging(merged)
  <2> HIDE DEF merging
  <2> QED
    BY <1>23
<1> HIDE DEF merged, take
<1>25. /\ merged[0] = end.state
       /\ \A k \in 1 .. Lanes : merged[k] = Add(merged[k - 1], end.lanes[k], 0)
  <2>1. 0 \in 0 .. Lanes /\ \A k \in 1 .. Lanes : k \in 0 .. Lanes /\ k # 0
    BY <1>1
  <2> QED
    BY <1>24, <2>1
<1> HIDE DEF merging
<1>26. merged[Lanes] \in State /\ Ending(merged[Lanes], 0, 0, more, N)
  BY <1>1, <1>16, <1>17, <1>18, <1>25, TakesUpAll
<1>27. /\ Add(merged[Lanes], 0, N) \in State
       /\ Ending(Add(merged[Lanes], 0, N), 0 - 0, 0, more, 0)
  <2>1. N = 0 + N /\ Abs(0) = 0 /\ 0 = 0 + Abs(0)
    BY <1>1 DEF Abs
  <2> QED
    BY <1>1, <1>16, <1>26, <2>1, TakesUp
<1> QED
  BY <1>10, <1>15, <1>16, <1>27, EndsGood DEF N

LEMMA AddBatchIsGood ==
    ASSUME NEW s \in State, NEW bag \in Bag, Good(s, bag), NEW batch \in Rowed
    PROVE  /\ AddBatch(s, batch) \in State
           /\ Good(AddBatch(s, batch), Upto(bag, batch, Len(batch)))
<1>1. CASE \E i \in 1 .. Len(batch) : batch[i] = Null
  BY <1>1, AddSparseIsGood DEF AddBatch
<1>2. CASE ~\E i \in 1 .. Len(batch) : batch[i] = Null
  <2>1. batch \in Seq(Input)
    <3>1. Len(batch) \in Nat /\ \A i \in 1 .. Len(batch) : batch[i] \in Input
      BY <1>2 DEF Rowed
    <3> QED
      BY <3>1 DEF Rowed
  <2> QED
    BY <1>2, <2>1, AddFullIsGood DEF AddBatch
<1> QED
  BY <1>1, <1>2

-----------------------------------------------------------------------------
(***************************************************************************)
(* SUM(DISTINCT ...): an accumulator's set is the bag it was given, and    *)
(* its state is good for each value once.                                  *)
(***************************************************************************)
Counter == [state : State, set : Bag]

GoodOnce(c) == Good(c.state, Once(c.set))

LEMMA OnceWith ==
    ASSUME NEW bag \in Bag, NEW v \in Input
    PROVE  /\ Once(bag) \in Bag
           /\ bag[v] > 0 => Once(With(bag, v)) = Once(bag)
           /\ bag[v] = 0 => Once(With(bag, v)) = With(Once(bag), v)
<1>1. /\ With(bag, v)[v] = bag[v] + 1 /\ bag[v] \in Nat
      /\ \A w \in Input : w # v => With(bag, v)[w] = bag[w]
  BY DEF With, Bag
<1>2. Once(bag) \in Bag
  BY DEF Once, Bag
<1>3. ASSUME bag[v] > 0 PROVE Once(With(bag, v)) = Once(bag)
  <2>1. \A w \in Input : With(bag, v)[w] > 0 <=> bag[w] > 0
    BY <1>1, <1>3
  <2> QED
    BY <2>1 DEF Once
<1>4. ASSUME bag[v] = 0 PROVE Once(With(bag, v)) = With(Once(bag), v)
  <2>1. /\ With(bag, v)[v] > 0 /\ ~(bag[v] > 0)
        /\ \A w \in Input : w # v => (With(bag, v)[w] > 0 <=> bag[w] > 0)
    BY <1>1, <1>4
  <2> DEFINE one == Once(bag)
             more == Once(With(bag, v))
  <2>2. one[v] = 0 /\ more[v] = 1 /\ \A w \in Input : w # v => more[w] = one[w]
    BY <2>1 DEF Once
  <2>3. /\ one = [w \in Input |-> one[w]] /\ more = [w \in Input |-> more[w]]
    BY DEF Once
  <2> HIDE DEF one, more
  <2>4. more = [one EXCEPT ![v] = @ + 1]
    BY <2>2, <2>3
  <2> QED
    BY <2>4 DEF one, more, With
<1> QED
  BY <1>2, <1>3, <1>4

LEMMA InsertIsGood ==
    ASSUME NEW c \in Counter, NEW v \in Input
    PROVE  /\ Insert(c, v) \in Counter /\ Insert(c, v).set = With(c.set, v)
           /\ GoodOnce(c) => GoodOnce(Insert(c, v))
<1>1. c.state \in State /\ c.set \in Bag /\ c.set[v] \in Nat /\ v \in Int
  BY Widths DEF Counter, Bag
<1>2. With(c.set, v) \in Bag
  BY <1>1, WithOne
<1> DEFINE known == [c EXCEPT !.set = With(c.set, v)]
<1>3. known = [c EXCEPT !.set[v] = @ + 1]
  BY <1>1 DEF With, Counter
<1>4. CASE c.set[v] > 0
  <2>1. Insert(c, v) = known
    BY <1>3, <1>4 DEF Insert
  <2>2. Insert(c, v) \in Counter /\ Insert(c, v).set = With(c.set, v) /\ Insert(c, v).state = c.state
    BY <1>1, <1>2, <2>1 DEF Counter
  <2>3. Once(With(c.set, v)) = Once(c.set)
    BY <1>1, <1>4, OnceWith
  <2> QED
    BY <2>2, <2>3 DEF GoodOnce
<1>5. CASE ~(c.set[v] > 0)
  <2>1. Insert(c, v) = [known EXCEPT !.state = Add(known.state, v, 1)]
    BY <1>3, <1>5 DEF Insert
  <2>2. known.state = c.state /\ known \in Counter /\ known.set = With(c.set, v)
    BY <1>1, <1>2 DEF Counter
  <2>3. Add(c.state, v, 1) \in State
    BY <1>1, AddTyped
  <2> HIDE DEF known
  <2>4. /\ Insert(c, v) \in Counter /\ Insert(c, v).set = With(c.set, v)
        /\ Insert(c, v).state = Add(c.state, v, 1)
    BY <2>1, <2>2, <2>3 DEF Counter
  <2>5. ASSUME Good(c.state, Once(c.set)) PROVE Good(Add(c.state, v, 1), Once(With(c.set, v)))
    <3> DEFINE one == Once(c.set)
               more == Once(With(c.set, v))
    <3>1. one \in Bag /\ more = With(one, v)
      BY <1>1, <1>5, OnceWith
    <3>2. Good(c.state, one)
      BY <2>5
    <3> HIDE DEF one, more
    <3>3. /\ more \in Bag /\ Sum(more) = Sum(one) + v /\ Rows(more) = Rows(one) + 1
          /\ Magnitude(more) = Magnitude(one) + Abs(v)
      BY <3>1, WithOne
    <3>4. Magnitude(one) <= Magnitude(more)
      BY <1>1, <3>1, <3>3, BagTyped DEF Abs
    <3>5. Good(Add(c.state, v, 1), more)
      BY <1>1, <3>1, <3>2, <3>3, <3>4, AddIsGood
    <3> QED
      BY <3>5 DEF more
  <2> QED
    BY <2>4, <2>5 DEF GoodOnce
<1> QED
  BY <1>4, <1>5

LEMMA InsertAllIsGood ==
    ASSUME NEW c \in Counter, GoodOnce(c), NEW batch \in Rowed
    PROVE  /\ InsertAll(c, batch) \in Counter /\ GoodOnce(InsertAll(c, batch))
           /\ InsertAll(c, batch).set = Upto(c.set, batch, Len(batch))
<1> DEFINE N == Len(batch)
           whole(f) == [i \in 0 .. N |->
               IF i = 0 THEN c
               ELSE IF batch[i] = Null THEN f[i - 1] ELSE Insert(f[i - 1], batch[i])]
           after == CHOOSE f : f = whole(f)
           step == [p \in (1 .. N) \X Counter |->
               IF batch[p[1]] = Null THEN p[2] ELSE Insert(p[2], batch[p[1]])]
<1>1. /\ N \in Nat /\ Null \notin Input /\ c.set \in Bag
      /\ \A i \in 1 .. N : batch[i] \in Input \cup {Null}
  BY Widths DEF Rowed, Counter
<1>2. step \in [(1 .. N) \X Counter -> Counter]
  <2>1. \A p \in (1 .. N) \X Counter :
           batch[p[1]] # Null => Insert(p[2], batch[p[1]]) \in Counter
    BY <1>1, InsertIsGood
  <2> QED
    BY <2>1
<1>3. PICK fl \in [0 .. N -> Counter] : Follows(fl, N, c, step)
  <2> HIDE DEF step, N
  <2> QED
    BY <1>1, <1>2, StepsExist
<1>4. ASSUME NEW i \in 1 .. N
      PROVE  fl[i] = IF batch[i] = Null THEN fl[i - 1] ELSE Insert(fl[i - 1], batch[i])
  <2>1. i - 1 \in 0 .. N
    BY <1>1
  <2>2. fl[i] = step[<<i, fl[i - 1]>>] /\ <<i, fl[i - 1]>> \in (1 .. N) \X Counter
    BY <1>3, <2>1 DEF Follows
  <2> QED
    BY <2>2
<1>5. PICK found : found = [i \in 0 .. N |-> fl[i]]
  OBVIOUS
<1>6. found = whole(found)
  <2>1. \A i \in 0 .. N : i # 0 => i \in 1 .. N /\ i - 1 \in 0 .. N
    BY <1>1
  <2>2. fl[0] = c
    BY <1>3 DEF Follows
  <2> HIDE DEF step, N
  <2> QED
    BY <1>4, <1>5, <2>1, <2>2
<1>7. after = whole(after)
  <2> HIDE DEF whole
  <2> QED
    BY <1>6
<1>8. InsertAll(c, batch) = after[N]
  BY DEF InsertAll
<1> HIDE DEF after
<1>9. /\ after[0] = c
      /\ \A i \in 1 .. N : after[i] = IF batch[i] = Null THEN after[i - 1]
                                      ELSE Insert(after[i - 1], batch[i])
  <2>1. 0 \in 0 .. N /\ \A i \in 1 .. N : i \in 0 .. N /\ i # 0
    BY <1>1
  <2> QED
    BY <1>7, <2>1
<1> HIDE DEF whole, step
<1> DEFINE Q == {i \in Nat : i <= N => /\ after[i] \in Counter /\ GoodOnce(after[i])
                                       /\ after[i].set = Upto(c.set, batch, i)}
<1>10. 0 \in Q
  BY <1>1, <1>9, UptoSteps
<1>11. ASSUME NEW i \in Nat, i \in Q PROVE i + 1 \in Q
  <2> SUFFICES ASSUME i + 1 <= N
               PROVE  /\ after[i + 1] \in Counter /\ GoodOnce(after[i + 1])
                      /\ after[i + 1].set = Upto(c.set, batch, i + 1)
    OBVIOUS
  <2>1. i + 1 \in 1 .. N /\ (i + 1) - 1 = i /\ i <= N
    BY <1>1
  <2>2. after[i] \in Counter /\ GoodOnce(after[i]) /\ after[i].set = Upto(c.set, batch, i)
    BY <1>11, <2>1
  <2>3. CASE batch[i + 1] = Null
    <3>1. after[i + 1] = after[i] /\ Upto(c.set, batch, i + 1) = Upto(c.set, batch, i)
      BY <1>1, <1>9, <2>1, <2>3, UptoSteps
    <3> QED
      BY <2>2, <3>1
  <2>4. CASE batch[i + 1] \in Input
    <3>1. /\ after[i + 1] = Insert(after[i], batch[i + 1])
          /\ Upto(c.set, batch, i + 1) = With(Upto(c.set, batch, i), batch[i + 1])
      BY <1>1, <1>9, <2>1, <2>4, UptoSteps
    <3> QED
      BY <2>2, <2>4, <3>1, InsertIsGood
  <2> QED
    BY <1>1, <2>1, <2>3, <2>4
<1>12. N \in Q
  <2> HIDE DEF Q
  <2> QED
    BY <1>1, <1>10, <1>11, NumbersBySteps
<1> QED
  BY <1>1, <1>8, <1>12

\* An order of values has each of them once.
LEMMA OrderHasEach ==
    ASSUME NEW S \in SUBSET Input, NEW order \in SetToSeqs(S)
    PROVE  /\ order \in Rowed
           /\ \A v \in Input : Cardinality(Places(order, Len(order), v)) = IF v \in S THEN 1 ELSE 0
<1> DEFINE n == Cardinality(S)
<1>1. IsFiniteSet(S) /\ n \in Nat
  BY Widths, FS_Subset, FS_CardinalityType
<1>2. order \in [1 .. n -> S] /\ \A i, j \in 1 .. n : i # j => order[i] # order[j]
  BY DEF SetToSeqs
<1>3. order \in Injection(1 .. n, S)
  BY <1>2 DEF Injection, IsInjective
<1>4. IsFiniteSet(1 .. n) /\ Cardinality(1 .. n) = n
  BY <1>1, FS_Interval
<1>5. order \in Surjection(1 .. n, S)
  BY <1>1, <1>3, <1>4, FS_Injection
<1>6. \A v \in S : \E i \in 1 .. n : order[i] = v
  BY <1>5 DEF Surjection
<1> HIDE DEF n
<1>7. order \in Rowed /\ Len(order) = n
  BY <1>1, <1>2 DEF Rowed
<1>8. ASSUME NEW v \in Input
      PROVE  Cardinality(Places(order, n, v)) = IF v \in S THEN 1 ELSE 0
  <2>1. CASE v \in S
    <3>1. PICK i \in 1 .. n : order[i] = v
      BY <1>6, <2>1
    <3>2. Places(order, n, v) = {i}
      BY <1>2, <3>1 DEF Places
    <3> QED
      BY <2>1, <3>2, FS_Singleton
  <2>2. CASE v \notin S
    <3>1. Places(order, n, v) = {}
      BY <1>2, <2>2 DEF Places
    <3> QED
      BY <2>2, <3>1, FS_EmptySet
  <2> QED
    BY <2>1, <2>2
<1> QED
  BY <1>7, <1>8

-----------------------------------------------------------------------------
(***************************************************************************)
(* The invariant.  A distinct accumulator has the bag it was given, and    *)
(* each state is good for what it stands for.                              *)
(***************************************************************************)
TypeOK ==
    /\ acc \in [Accs -> Counter] /\ given \in [Accs -> Bag]
    /\ groups \in [Grouped -> [1 .. Groups -> State]] /\ held \in [Grouped -> [1 .. Groups -> Bag]]

\* What an accumulator has to sum.
Summed(a) == IF Distinct THEN Once(given[a]) ELSE given[a]

GoodAcc(a) == Good(acc[a].state, Summed(a)) /\ (Distinct => acc[a].set = given[a])

IInv ==
    /\ TypeOK
    /\ \A a \in Accs : GoodAcc(a)
    /\ \A g \in Grouped : \A k \in 1 .. Groups : Good(groups[g][k], held[g][k])

\* A step of an accumulator keeps the invariant when the new one is good and
\* nothing else changes.
LEMMA OneAccumulator ==
    ASSUME IInv, NEW a \in Accs, NEW c \in Counter, NEW bag \in Bag,
           UNCHANGED <<form, groups, held>>,
           acc' = [acc EXCEPT ![a] = c], given' = [given EXCEPT ![a] = bag],
           Good(c.state, IF Distinct THEN Once(bag) ELSE bag), Distinct => c.set = bag
    PROVE  IInv'
<1>1. /\ acc' \in [Accs -> Counter] /\ given' \in [Accs -> Bag] /\ Distinct' = Distinct
      /\ acc'[a] = c /\ given'[a] = bag
      /\ \A b \in Accs : b # a => acc'[b] = acc[b] /\ given'[b] = given[b]
  BY DEF IInv, TypeOK, Distinct
<1>2. ASSUME NEW b \in Accs PROVE GoodAcc(b)'
  <2>1. CASE b = a
    BY <1>1, <2>1 DEF GoodAcc, Summed
  <2>2. CASE b # a
    <3>1. GoodAcc(b)
      BY DEF IInv
    <3> QED
      BY <1>1, <2>2, <3>1 DEF GoodAcc, Summed
  <2> QED
    BY <2>1, <2>2
<1>3. \A g \in Grouped : \A k \in 1 .. Groups : Good(groups[g][k], held[g][k])'
  BY DEF IInv
<1>4. TypeOK'
  BY <1>1 DEF IInv, TypeOK
<1> QED
  BY <1>2, <1>3, <1>4 DEF IInv

LEMMA Initially == Init => IInv
<1> SUFFICES ASSUME Init PROVE IInv
  OBVIOUS
<1>1. Zero \in State /\ Good(Zero, None) /\ None \in Bag /\ Once(None) = None
  <2>1. Once(None) = None
    BY DEF Once, None
  <2> QED
    BY <2>1, ZeroIsGood, NoneIsEmpty
<1> HIDE DEF Zero, None
<1>2. TypeOK
  BY <1>1 DEF Init, TypeOK, Counter
<1>3. \A a \in Accs : GoodAcc(a)
  BY <1>1 DEF Init, GoodAcc, Summed
<1>4. \A g \in Grouped : \A k \in 1 .. Groups : Good(groups[g][k], held[g][k])
  BY <1>1 DEF Init
<1> QED
  BY <1>2, <1>3, <1>4 DEF IInv

LEMMA BatchesTyped == \A batch \in Batches : batch \in Rowed
<1>1. ASSUME NEW n \in 1 .. MaxBatch, NEW batch \in [1 .. n -> Input \cup {Null}]
      PROVE  batch \in Rowed
  BY <1>1, BoundAssumption DEF Rowed, BoundAssumption
<1> QED
  BY <1>1 DEF Batches

LEMMA UpdateKeeps == ASSUME IInv, NEW a \in Accs, Update(a) PROVE IInv'
<1>1. /\ acc[a] \in Counter /\ acc[a].state \in State /\ acc[a].set \in Bag /\ given[a] \in Bag
      /\ GoodAcc(a) /\ acc \in [Accs -> Counter] /\ given \in [Accs -> Bag]
  BY DEF IInv, TypeOK, Counter
<1>2. PICK batch \in Batches :
          /\ acc' = [acc EXCEPT ![a] = TakeIn(@, batch)]
          /\ given' = [given EXCEPT ![a] = [v \in Input |-> @[v] + Of(v, batch)]]
  BY DEF Update
<1>3. UNCHANGED <<form, groups, held>>
  BY DEF Update
<1> DEFINE bag == Upto(given[a], batch, Len(batch))
<1>4. batch \in Rowed /\ Len(batch) \in Nat
  BY BatchesTyped DEF Rowed
<1>5. bag \in Bag /\ [v \in Input |-> given[a][v] + Of(v, batch)] = bag
  BY <1>1, <1>4, UptoTyped, BatchIsUpto
<1> HIDE DEF bag
<1>6. given' = [given EXCEPT ![a] = bag]
  BY <1>1, <1>2, <1>5
<1>7. CASE Distinct
  <2> DEFINE c == InsertAll(acc[a], batch)
  <2>1. GoodOnce(acc[a]) /\ acc[a].set = given[a]
    BY <1>1, <1>7 DEF GoodAcc, GoodOnce, Summed
  <2>2. c \in Counter /\ GoodOnce(c) /\ c.set = bag
    BY <1>1, <1>4, <2>1, InsertAllIsGood DEF bag
  <2>3. acc' = [acc EXCEPT ![a] = c]
    BY <1>2, <1>7 DEF TakeIn
  <2> HIDE DEF c
  <2>4. Good(c.state, IF Distinct THEN Once(bag) ELSE bag)
    BY <1>7, <2>2 DEF GoodOnce
  <2> QED
    BY <1>3, <1>5, <1>6, <2>2, <2>3, <2>4, OneAccumulator
<1>8. CASE ~Distinct
  <2> DEFINE s == AddBatch(acc[a].state, batch)
             c == [acc[a] EXCEPT !.state = s]
  <2>1. Good(acc[a].state, given[a])
    BY <1>1, <1>8 DEF GoodAcc, Summed
  <2>2. s \in State /\ Good(s, bag)
    BY <1>1, <1>4, <2>1, AddBatchIsGood DEF bag
  <2>3. acc' = [acc EXCEPT ![a] = c]
    <3>1. TakeIn(acc[a], batch) = c
      BY <1>8 DEF TakeIn
    <3> QED
      BY <1>2, <3>1
  <2> HIDE DEF s
  <2>4. c \in Counter /\ c.state = s
    BY <1>1, <2>2 DEF Counter
  <2> HIDE DEF c
  <2>5. Good(c.state, IF Distinct THEN Once(bag) ELSE bag)
    BY <1>8, <2>2, <2>4
  <2> QED
    BY <1>3, <1>5, <1>6, <1>8, <2>3, <2>4, <2>5, OneAccumulator
<1> QED
  BY <1>7, <1>8

LEMMA RetractKeeps == ASSUME IInv, NEW a \in Accs, Retract(a) PROVE IInv'
<1>1. /\ acc[a] \in Counter /\ acc[a].state \in State /\ acc[a].set \in Bag /\ given[a] \in Bag
      /\ GoodAcc(a) /\ acc \in [Accs -> Counter] /\ given \in [Accs -> Bag]
  BY DEF IInv, TypeOK, Counter
<1>2. PICK v \in Input : /\ given[a][v] > 0
                         /\ acc' = [acc EXCEPT ![a] = TakeOut(@, v)]
                         /\ given' = [given EXCEPT ![a][v] = @ - 1]
  BY DEF Retract
<1>3. UNCHANGED <<form, groups, held>> /\ acc[a].state.ok
  BY DEF Retract, Running
<1> DEFINE less == [given[a] EXCEPT ![v] = given[a][v] - 1]
           s == Subtract(acc[a].state, v)
<1>4. /\ less \in Bag /\ given[a] = With(less, v) /\ less[v] = given[a][v] - 1
      /\ given' = [given EXCEPT ![a] = less]
  <2>1. given[a][v] \in Nat /\ given[a][v] - 1 \in Nat
    BY <1>1, <1>2 DEF Bag
  <2>2. less \in Bag /\ less[v] = given[a][v] - 1 /\ [less EXCEPT ![v] = less[v] + 1] = given[a]
    <3> DEFINE bag == given[a]
               again == [less EXCEPT ![v] = less[v] + 1]
    <3>1. bag \in [Input -> Nat] /\ bag = given[a]
      BY <1>1 DEF Bag
    <3>2. /\ less \in [Input -> Nat] /\ less[v] = bag[v] - 1
          /\ \A w \in Input : w # v => less[w] = bag[w]
      BY <2>1, <3>1
    <3> HIDE DEF bag, less
    <3>3. /\ again \in [Input -> Nat] /\ again[v] = bag[v]
          /\ \A w \in Input : w # v => again[w] = bag[w]
      BY <2>1, <3>1, <3>2
    <3>4. again = bag
      BY <3>1, <3>3
    <3> QED
      BY <3>1, <3>2, <3>4 DEF Bag
  <2>3. given' = [given EXCEPT ![a] = less]
    BY <1>1, <1>2
  <2> QED
    BY <2>2, <2>3 DEF With
<1>5. v \in Int
  BY Widths
<1> HIDE DEF less
\* a state that is good for a bag, with a row taken out
<1>6. ASSUME NEW bag \in Bag, NEW more \in Bag, more = With(bag, v), Good(acc[a].state, more)
      PROVE  s \in State /\ Good(s, bag)
  <2>1. Sum(more) = Sum(bag) + v /\ Rows(more) = Rows(bag) + 1
    BY <1>6, WithOne
  <2>2. Sum(bag) = Sum(more) - v /\ Rows(bag) = Rows(more) - 1
    BY <1>5, <2>1, BagTyped
  <2> QED
    BY <1>1, <1>3, <1>5, <1>6, <2>2, SubtractIsGood
<1> HIDE DEF s
<1>7. CASE ~Distinct
  <2> DEFINE c == [acc[a] EXCEPT !.state = s]
  <2>1. s \in State /\ Good(s, less)
    BY <1>1, <1>4, <1>6, <1>7 DEF GoodAcc, Summed
  <2>2. acc' = [acc EXCEPT ![a] = c]
    BY <1>2, <1>7 DEF TakeOut, s
  <2>3. c \in Counter /\ c.state = s
    BY <1>1, <2>1 DEF Counter
  <2> HIDE DEF c
  <2> QED
    BY <1>3, <1>4, <1>7, <2>1, <2>2, <2>3, OneAccumulator
<1>8. CASE Distinct /\ given[a][v] > 1
  <2> DEFINE c == [acc[a] EXCEPT !.set = less]
  <2>1. acc[a].set = given[a] /\ Good(acc[a].state, Once(given[a]))
    BY <1>1, <1>8 DEF GoodAcc, Summed
  <2>2. TakeOut(acc[a], v) = c
    <3>1. TakeOut(acc[a], v) = [acc[a] EXCEPT !.set[v] = @ - 1]
      BY <1>8, <2>1 DEF TakeOut
    <3> QED
      BY <1>1, <2>1, <3>1 DEF less, Counter
  <2>3. Once(given[a]) = Once(less)
    <3>1. less[v] > 0
      BY <1>1, <1>4, <1>8 DEF Bag
    <3> QED
      BY <1>4, <3>1, OnceWith
  <2>4. acc' = [acc EXCEPT ![a] = c]
    BY <1>2, <2>2
  <2>5. c \in Counter /\ c.state = acc[a].state /\ c.set = less
    BY <1>1, <1>4 DEF Counter
  <2> HIDE DEF c
  <2>6. Good(c.state, IF Distinct THEN Once(less) ELSE less)
    BY <1>8, <2>1, <2>3, <2>5
  <2> QED
    BY <1>3, <1>4, <2>4, <2>5, <2>6, OneAccumulator
<1>9. CASE Distinct /\ ~(given[a][v] > 1)
  <2> DEFINE c == [acc[a] EXCEPT !.set = less, !.state = s]
  <2>1. acc[a].set = given[a] /\ Good(acc[a].state, Once(given[a]))
    BY <1>1, <1>9 DEF GoodAcc, Summed
  <2>2. given[a][v] = 1 /\ less[v] = 0
    BY <1>1, <1>2, <1>4, <1>9 DEF Bag
  <2>3. TakeOut(acc[a], v) = c
    <3>1. TakeOut(acc[a], v) = [acc[a] EXCEPT !.set[v] = 0, !.state = Subtract(@, v)]
      BY <1>9, <2>1 DEF TakeOut
    <3>2. less = [given[a] EXCEPT ![v] = 0]
      BY <2>2 DEF less
    <3> QED
      BY <1>1, <2>1, <3>1, <3>2 DEF s, Counter
  <2>4. /\ Once(given[a]) = With(Once(less), v) /\ Once(less) \in Bag /\ Once(given[a]) \in Bag
    BY <1>1, <1>4, <2>2, OnceWith
  <2>5. s \in State /\ Good(s, Once(less))
    BY <1>6, <2>1, <2>4
  <2>6. acc' = [acc EXCEPT ![a] = c]
    BY <1>2, <2>3
  <2>7. c \in Counter /\ c.state = s /\ c.set = less
    BY <1>1, <1>4, <2>5 DEF Counter
  <2> HIDE DEF c
  <2>8. Good(c.state, IF Distinct THEN Once(less) ELSE less)
    BY <1>9, <2>5, <2>7
  <2> QED
    BY <1>3, <1>4, <2>6, <2>7, <2>8, OneAccumulator
<1> QED
  BY <1>7, <1>8, <1>9

\* The same for two of them, of which one starts again.
LEMMA TwoAccumulators ==
    ASSUME IInv, NEW a \in Accs, NEW b \in Accs, a # b, NEW c \in Counter, NEW bag \in Bag,
           UNCHANGED <<form, groups, held>>,
           acc' = [acc EXCEPT ![a] = c, ![b] = [state |-> Zero, set |-> None]],
           given' = [given EXCEPT ![a] = bag, ![b] = None],
           Good(c.state, IF Distinct THEN Once(bag) ELSE bag), Distinct => c.set = bag
    PROVE  IInv'
<1> DEFINE fresh == [state |-> Zero, set |-> None]
<1>1. /\ fresh \in Counter /\ None \in Bag /\ Good(fresh.state, None) /\ Once(None) = None
      /\ fresh.set = None
  <2>1. Once(None) = None
    BY DEF Once, None
  <2> HIDE DEF Zero, None
  <2> QED
    BY <2>1, ZeroIsGood, NoneIsEmpty DEF Counter
<1> HIDE DEF fresh, None
<1>2. acc' = [acc EXCEPT ![a] = c, ![b] = fresh]
  BY DEF fresh
<1>3. /\ acc' \in [Accs -> Counter] /\ given' \in [Accs -> Bag] /\ Distinct' = Distinct
      /\ acc'[a] = c /\ given'[a] = bag /\ acc'[b] = fresh /\ given'[b] = None
      /\ \A d \in Accs : d # a /\ d # b => acc'[d] = acc[d] /\ given'[d] = given[d]
  BY <1>1, <1>2 DEF IInv, TypeOK, Distinct
<1>4. ASSUME NEW d \in Accs PROVE GoodAcc(d)'
  <2>1. CASE d = a
    BY <1>3, <2>1 DEF GoodAcc, Summed
  <2>2. CASE d = b
    BY <1>1, <1>3, <2>2 DEF GoodAcc, Summed
  <2>3. CASE d # a /\ d # b
    <3>1. GoodAcc(d)
      BY DEF IInv
    <3> QED
      BY <1>3, <2>3, <3>1 DEF GoodAcc, Summed
  <2> QED
    BY <2>1, <2>2, <2>3
<1>5. \A g \in Grouped : \A k \in 1 .. Groups : Good(groups[g][k], held[g][k])'
  BY DEF IInv
<1>6. TypeOK'
  BY <1>3 DEF IInv, TypeOK
<1> QED
  BY <1>4, <1>5, <1>6 DEF IInv

LEMMA MergeKeeps == ASSUME IInv, NEW a \in Accs, NEW b \in Accs, Merge(a, b) PROVE IInv'
<1>1. /\ \A d \in {a, b} : /\ acc[d] \in Counter /\ acc[d].state \in State /\ acc[d].set \in Bag
                           /\ given[d] \in Bag /\ GoodAcc(d)
      /\ acc \in [Accs -> Counter] /\ given \in [Accs -> Bag]
  BY DEF IInv, TypeOK, Counter
<1>2. a # b /\ acc[b].state.ok /\ UNCHANGED <<form, groups, held>>
  BY DEF Merge, Running
<1>3. CASE Distinct
  <2> DEFINE S == {v \in Input : acc[b].set[v] > 0}
  <2>1. PICK order \in SetToSeqs(S) :
           acc' = [acc EXCEPT ![a] = InsertAll(@, order), ![b] = [state |-> Zero, set |-> None]]
    BY <1>3 DEF Merge
  <2> DEFINE c == InsertAll(acc[a], order)
             bag == Upto(given[a], order, Len(order))
  <2>2. /\ GoodOnce(acc[a]) /\ acc[a].set = given[a] /\ acc[b].set = given[b]
    BY <1>1, <1>3 DEF GoodAcc, GoodOnce, Summed
  <2>3. order \in Rowed /\ Len(order) \in Nat
        /\ \A v \in Input : Cardinality(Places(order, Len(order), v))
                              = IF given[b][v] > 0 THEN 1 ELSE 0
    <3>1. S \in SUBSET Input /\ \A v \in Input : v \in S <=> given[b][v] > 0
      BY <2>2
    <3> HIDE DEF S
    <3>2. /\ order \in Rowed
          /\ \A v \in Input : Cardinality(Places(order, Len(order), v)) = IF v \in S THEN 1 ELSE 0
      BY <3>1, OrderHasEach
    <3> QED
      BY <3>1, <3>2 DEF Rowed
  <2>4. c \in Counter /\ GoodOnce(c) /\ c.set = bag
    BY <1>1, <2>2, <2>3, InsertAllIsGood
  <2>5. bag \in Bag
    BY <1>1, <2>3, UptoTyped
  <2>6. [v \in Input |-> given[a][v] + IF given[b][v] > 0 THEN 1 ELSE 0] = bag
    BY <2>3 DEF Upto
  <2>7. given' = [given EXCEPT ![a] = bag, ![b] = None]
    <3> HIDE DEF bag, None
    <3>1. given' = [given EXCEPT
             ![a] = [v \in Input |-> given[a][v] + IF Distinct THEN
                                  IF given[b][v] > 0 THEN 1 ELSE 0 ELSE given[b][v]],
             ![b] = None]
      BY DEF Merge
    <3> QED
      BY <1>3, <2>6, <3>1
  <2>8. acc' = [acc EXCEPT ![a] = c, ![b] = [state |-> Zero, set |-> None]]
    BY <2>1
  <2> HIDE DEF c, bag
  <2>9. Good(c.state, IF Distinct THEN Once(bag) ELSE bag)
    BY <1>3, <2>4 DEF GoodOnce
  <2> QED
    BY <1>2, <2>4, <2>5, <2>7, <2>8, <2>9, TwoAccumulators
<1>4. CASE ~Distinct
  <2> DEFINE s == Add(acc[a].state, acc[b].state.sum, acc[b].state.count)
             c == [acc[a] EXCEPT !.state = s]
             bag == Both(given[a], given[b])
  <2>1. /\ Good(acc[a].state, given[a]) /\ acc[b].state.sum = Sum(given[b])
        /\ acc[b].state.count = Rows(given[b])
    BY <1>1, <1>2, <1>4 DEF GoodAcc, Summed, Good
  <2>2. s \in State /\ Good(s, bag) /\ bag \in Bag
    <3>1. /\ bag \in Bag /\ Rows(bag) = Rows(given[a]) + Rows(given[b])
          /\ Sum(bag) = Sum(given[a]) + Sum(given[b])
          /\ Magnitude(bag) = Magnitude(given[a]) + Magnitude(given[b])
      BY <1>1, BothTogether
    <3>2. /\ Magnitude(given[a]) \in Nat /\ Magnitude(given[b]) \in Nat
          /\ Sum(given[b]) \in Int /\ Rows(given[b]) \in Nat
      BY <1>1, BagTyped
    <3> HIDE DEF bag
    <3>3. Magnitude(given[a]) <= Magnitude(bag)
      BY <3>1, <3>2
    <3> QED
      BY <1>1, <2>1, <3>1, <3>2, <3>3, AddIsGood
  <2>3. given' = [given EXCEPT ![a] = bag, ![b] = None]
    <3> HIDE DEF None
    <3>1. given' = [given EXCEPT
             ![a] = [v \in Input |-> given[a][v] + IF Distinct THEN
                                  IF given[b][v] > 0 THEN 1 ELSE 0 ELSE given[b][v]],
             ![b] = None]
      BY DEF Merge
    <3> QED
      BY <1>4, <3>1 DEF Both
  <2>4. acc' = [acc EXCEPT ![a] = c, ![b] = [state |-> Zero, set |-> None]]
    <3> HIDE DEF None, Zero
    <3>1. acc' = [acc EXCEPT ![a].state = Add(@, acc[b].state.sum, acc[b].state.count),
                             ![b] = [state |-> Zero, set |-> None]]
      BY <1>4 DEF Merge
    <3> QED
      BY <1>2, <3>1
  <2> HIDE DEF s, bag
  <2>5. c \in Counter /\ c.state = s
    BY <1>1, <2>2 DEF Counter
  <2> HIDE DEF c
  <2> QED
    BY <1>2, <1>4, <2>2, <2>3, <2>4, <2>5, TwoAccumulators
<1> QED
  BY <1>3, <1>4

\* A group takes up a value or nothing.
LEMMA OneGroup ==
    ASSUME IInv, NEW g \in Grouped, NEW k \in 1 .. Groups, NEW s \in State, NEW bag \in Bag,
           UNCHANGED <<form, acc, given>>, Good(s, bag),
           groups' = [groups EXCEPT ![g][k] = s], held' = [held EXCEPT ![g][k] = bag]
    PROVE  IInv'
<1>1. /\ groups \in [Grouped -> [1 .. Groups -> State]]
      /\ held \in [Grouped -> [1 .. Groups -> Bag]]
  BY DEF IInv, TypeOK
<1>2. /\ groups' \in [Grouped -> [1 .. Groups -> State]]
      /\ held' \in [Grouped -> [1 .. Groups -> Bag]]
  BY <1>1
<1>3. ASSUME NEW h \in Grouped, NEW j \in 1 .. Groups PROVE Good(groups'[h][j], held'[h][j])
  <2>1. CASE h = g /\ j = k
    BY <1>1, <2>1
  <2>2. CASE ~(h = g /\ j = k)
    <3>1. groups'[h][j] = groups[h][j] /\ held'[h][j] = held[h][j]
      BY <1>1, <2>2
    <3> QED
      BY <3>1 DEF IInv
  <2> QED
    BY <2>1, <2>2
<1>4. \A a \in Accs : GoodAcc(a)'
  BY DEF IInv, GoodAcc, Summed, Distinct
<1>5. TypeOK'
  BY <1>2 DEF IInv, TypeOK
<1> QED
  BY <1>3, <1>4, <1>5 DEF IInv

LEMMA GroupTyped ==
    ASSUME IInv, NEW g \in Grouped, NEW k \in 1 .. Groups
    PROVE  groups[g][k] \in State /\ held[g][k] \in Bag /\ Good(groups[g][k], held[g][k])
BY DEF IInv, TypeOK

LEMMA UpdateGroupKeeps ==
    ASSUME IInv, NEW g \in Grouped, NEW k \in 1 .. Groups, UpdateGroup(g, k) PROVE IInv'
<1>1. PICK v \in Input \cup {Null}, pass \in BOOLEAN :
          /\ groups' = IF pass /\ v # Null THEN [groups EXCEPT ![g][k] = Add(@, v, 1)] ELSE groups
          /\ Hold(g, k, v, pass)
  BY DEF UpdateGroup
<1>2. UNCHANGED <<form, acc, given>>
  BY DEF UpdateGroup
<1> DEFINE counts == pass /\ v # Null
<1>3. CASE counts
  <2> DEFINE s == Add(groups[g][k], v, 1)
             bag == With(held[g][k], v)
  <2>1. v \in Input /\ v \in Int /\ Abs(v) \in Nat
    BY <1>3, Widths DEF Abs
  <2>2. groups' = [groups EXCEPT ![g][k] = s] /\ held' = [held EXCEPT ![g][k] = bag]
    BY <1>1, <1>3 DEF Hold, With
  <2>3. s \in State /\ Good(s, bag) /\ bag \in Bag
    <3>1. /\ bag \in Bag /\ Sum(bag) = Sum(held[g][k]) + v /\ Rows(bag) = Rows(held[g][k]) + 1
          /\ Magnitude(bag) = Magnitude(held[g][k]) + Abs(v)
      BY <2>1, GroupTyped, WithOne
    <3> HIDE DEF bag
    <3>2. Magnitude(held[g][k]) <= Magnitude(bag)
      BY <2>1, <3>1, GroupTyped, BagTyped
    <3> QED
      BY <2>1, <3>1, <3>2, GroupTyped, AddIsGood
  <2> HIDE DEF s, bag
  <2> QED
    BY <1>2, <2>2, <2>3, OneGroup
<1>4. CASE ~counts
  <2>1. groups' = groups /\ held' = held
    BY <1>1, <1>4 DEF Hold
  <2> QED
    BY <1>2, <2>1 DEF IInv, TypeOK, GoodAcc, Summed, Distinct
<1> QED
  BY <1>3, <1>4

LEMMA MergeRowKeeps ==
    ASSUME IInv, NEW g \in Grouped, NEW k \in 1 .. Groups, MergeRow(g, k) PROVE IInv'
<1>1. PICK v \in Input \cup {Null}, pass \in BOOLEAN :
          /\ groups' = [groups EXCEPT ![g][k] =
                           Add(@, RowState(v, pass).sum, RowState(v, pass).count)]
          /\ Hold(g, k, v, pass)
  BY DEF MergeRow
<1>2. UNCHANGED <<form, acc, given>>
  BY DEF MergeRow
<1> DEFINE counts == pass /\ v # Null
<1>3. CASE counts
  <2> DEFINE s == Add(groups[g][k], v, 1)
             bag == With(held[g][k], v)
  <2>1. v \in Input /\ v \in Int /\ Abs(v) \in Nat
    BY <1>3, Widths DEF Abs
  <2>2. groups' = [groups EXCEPT ![g][k] = s] /\ held' = [held EXCEPT ![g][k] = bag]
    <3>1. RowState(v, pass).sum = v /\ RowState(v, pass).count = 1
      BY <1>3 DEF RowState
    <3> QED
      BY <1>1, <1>3, <3>1 DEF Hold, With
  <2>3. s \in State /\ Good(s, bag) /\ bag \in Bag
    <3>1. /\ bag \in Bag /\ Sum(bag) = Sum(held[g][k]) + v /\ Rows(bag) = Rows(held[g][k]) + 1
          /\ Magnitude(bag) = Magnitude(held[g][k]) + Abs(v)
      BY <2>1, GroupTyped, WithOne
    <3> HIDE DEF bag
    <3>2. Magnitude(held[g][k]) <= Magnitude(bag)
      BY <2>1, <3>1, GroupTyped, BagTyped
    <3> QED
      BY <2>1, <3>1, <3>2, GroupTyped, AddIsGood
  <2> HIDE DEF s, bag
  <2> QED
    BY <1>2, <2>2, <2>3, OneGroup
<1>4. CASE ~counts
  <2> DEFINE s == Add(groups[g][k], 0, 0)
             bag == held[g][k]
  <2>1. groups' = [groups EXCEPT ![g][k] = s] /\ held' = [held EXCEPT ![g][k] = bag]
    <3>1. RowState(v, pass).sum = 0 /\ RowState(v, pass).count = 0
      BY <1>4 DEF RowState
    <3>2. held' = held /\ held \in [Grouped -> [1 .. Groups -> Bag]]
      BY <1>1, <1>4 DEF Hold, IInv, TypeOK
    <3>3. held = [held EXCEPT ![g][k] = bag]
      BY <3>2
    <3>4. groups' = [groups EXCEPT ![g][k] = s]
      BY <1>1, <3>1
    <3> QED
      BY <3>2, <3>3, <3>4
  <2>2. s \in State /\ Good(s, bag) /\ bag \in Bag
    <3>1. /\ bag \in Bag /\ Sum(bag) = Sum(bag) + 0 /\ Rows(bag) = Rows(bag) + 0
          /\ Magnitude(bag) <= Magnitude(bag)
      BY GroupTyped, BagTyped
    <3> HIDE DEF bag
    <3> QED
      BY <3>1, GroupTyped, AddIsGood DEF bag
  <2> HIDE DEF s, bag
  <2> QED
    BY <1>2, <2>1, <2>2, OneGroup
<1> QED
  BY <1>3, <1>4

LEMMA MergeGroupsKeeps ==
    ASSUME IInv, NEW g \in Grouped, NEW h \in Grouped, MergeGroups(g, h) PROVE IInv'
<1> DEFINE states == [k \in 1 .. Groups |->
                         Add(groups[g][k], groups[h][k].sum, groups[h][k].count)]
           bags == [k \in 1 .. Groups |-> Both(held[g][k], held[h][k])]
           zeros == [k \in 1 .. Groups |-> Zero]
           nones == [k \in 1 .. Groups |-> None]
<1>1. /\ g # h /\ UNCHANGED <<form, acc, given>> /\ \A k \in 1 .. Groups : groups[h][k].ok
  BY DEF MergeGroups, Healthy
<1>2. groups' = [groups EXCEPT ![g] = states, ![h] = zeros]
  BY DEF MergeGroups
<1>3. held' = [held EXCEPT ![g] = bags, ![h] = nones]
  BY DEF MergeGroups, Both
<1>4. ASSUME NEW k \in 1 .. Groups
      PROVE  states[k] \in State /\ bags[k] \in Bag /\ Good(states[k], bags[k])
  <2> DEFINE s == groups[g][k]
             t == groups[h][k]
             one == held[g][k]
             other == held[h][k]
  <2>1. s \in State /\ t \in State /\ one \in Bag /\ other \in Bag /\ Good(s, one)
        /\ t.sum = Sum(other) /\ t.count = Rows(other)
    BY <1>1, GroupTyped DEF Good
  <2>2. states[k] = Add(s, t.sum, t.count) /\ bags[k] = Both(one, other)
    OBVIOUS
  <2> HIDE DEF s, t, one, other, states, bags
  <2>3. /\ bags[k] \in Bag /\ Rows(bags[k]) = Rows(one) + Rows(other)
        /\ Sum(bags[k]) = Sum(one) + Sum(other)
        /\ Magnitude(bags[k]) = Magnitude(one) + Magnitude(other)
    BY <2>1, <2>2, BothTogether
  <2>4. /\ Magnitude(one) \in Nat /\ Magnitude(other) \in Nat
        /\ Sum(other) \in Int /\ Rows(other) \in Nat
    BY <2>1, BagTyped
  <2>5. Magnitude(one) <= Magnitude(bags[k])
    BY <2>3, <2>4
  <2> QED
    BY <2>1, <2>2, <2>3, <2>4, <2>5, AddIsGood
<1>5. ASSUME NEW k \in 1 .. Groups
      PROVE  zeros[k] \in State /\ nones[k] \in Bag /\ Good(zeros[k], nones[k])
  <2>1. zeros[k] = Zero /\ nones[k] = None
    OBVIOUS
  <2> HIDE DEF zeros, nones, Zero, None
  <2> QED
    BY <2>1, ZeroIsGood, NoneIsEmpty
<1>6. /\ groups \in [Grouped -> [1 .. Groups -> State]]
      /\ held \in [Grouped -> [1 .. Groups -> Bag]]
  BY DEF IInv, TypeOK
<1>7. /\ states \in [1 .. Groups -> State] /\ zeros \in [1 .. Groups -> State]
      /\ bags \in [1 .. Groups -> Bag] /\ nones \in [1 .. Groups -> Bag]
  <2> HIDE DEF None, Zero, Bag, State
  <2> QED
    BY <1>4, <1>5
<1> HIDE DEF states, zeros, bags, nones
<1>8. /\ groups' \in [Grouped -> [1 .. Groups -> State]]
      /\ held' \in [Grouped -> [1 .. Groups -> Bag]]
  BY <1>2, <1>3, <1>6, <1>7
<1>9. ASSUME NEW i \in Grouped, NEW k \in 1 .. Groups PROVE Good(groups'[i][k], held'[i][k])
  <2>1. CASE i = g
    BY <1>1, <1>2, <1>3, <1>4, <1>6, <2>1
  <2>2. CASE i = h
    BY <1>2, <1>3, <1>5, <1>6, <2>2
  <2>3. CASE i # g /\ i # h
    <3>1. groups'[i] = groups[i] /\ held'[i] = held[i]
      BY <1>2, <1>3, <1>6, <2>3
    <3> QED
      BY <3>1, GroupTyped
  <2> QED
    BY <2>1, <2>2, <2>3
<1>10. \A a \in Accs : GoodAcc(a)'
  BY <1>1 DEF IInv, GoodAcc, Summed, Distinct
<1>11. TypeOK'
  BY <1>1, <1>8 DEF IInv, TypeOK
<1> QED
  BY <1>9, <1>10, <1>11 DEF IInv

LEMMA Inductive == IInv /\ [Next]_vars => IInv'
<1> SUFFICES ASSUME IInv, [Next]_vars PROVE IInv'
  OBVIOUS
<1>1. ASSUME NEW a \in Accs, Update(a) PROVE IInv'
  BY <1>1, UpdateKeeps
<1>2. ASSUME NEW a \in Accs, Retract(a) PROVE IInv'
  BY <1>2, RetractKeeps
<1>3. ASSUME NEW a \in Accs, NEW b \in Accs, Merge(a, b) PROVE IInv'
  BY <1>3, MergeKeeps
<1>4. ASSUME NEW g \in Grouped, NEW k \in 1 .. Groups, UpdateGroup(g, k) PROVE IInv'
  BY <1>4, UpdateGroupKeeps
<1>5. ASSUME NEW g \in Grouped, NEW k \in 1 .. Groups, MergeRow(g, k) PROVE IInv'
  BY <1>5, MergeRowKeeps
<1>6. ASSUME NEW g \in Grouped, NEW h \in Grouped, MergeGroups(g, h) PROVE IInv'
  BY <1>6, MergeGroupsKeeps
<1>7. CASE UNCHANGED vars
  BY <1>7 DEF vars, IInv, TypeOK, GoodAcc, Summed, Distinct
<1> QED
  BY <1>1, <1>2, <1>3, <1>4, <1>5, <1>6, <1>7 DEF Next, Accumulating, Grouping

LEMMA Implied == IInv => SumIsExact
<1> SUFFICES ASSUME IInv PROVE SumIsExact
  OBVIOUS
<1>1. ASSUME NEW a \in Accs
      PROVE  Correct(acc[a].state, IF Distinct THEN Once(given[a]) ELSE given[a])
  <2>1. acc[a].state \in State /\ given[a] \in Bag /\ Good(acc[a].state, Summed(a))
    BY DEF IInv, TypeOK, Counter, GoodAcc
  <2>2. Summed(a) \in Bag
    BY <2>1 DEF Summed, Once, Bag
  <2> QED
    BY <2>1, <2>2, GoodIsCorrect DEF Summed
<1>2. ASSUME NEW g \in Grouped, NEW k \in 1 .. Groups PROVE Correct(groups[g][k], held[g][k])
  BY GroupTyped, GoodIsCorrect
<1> QED
  BY <1>1, <1>2 DEF SumIsExact

(* What a state holds, at any time, is what its rows come to, or the error *)
(* they lead to (State, CheckedAccumulator, CheckedGroups).                *)
THEOREM SumInductive == Spec => []IInv
BY Initially, Inductive, PTL DEF Spec

(* Every batch, partition, merge and retraction of a SUM keeps it exact:   *)
(* it is the sum of its rows, NULL of no rows, or an error outside the     *)
(* declared range, and an intermediate sum fails only for values that      *)
(* reach the bound of i256 (CheckedAccumulator, CheckedGroups).            *)
THEOREM SumIsKeptExact == Spec => []SumIsExact
BY SumInductive, Implied, PTL
=============================================================================
