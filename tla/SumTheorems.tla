---------------------------- MODULE SumTheorems ----------------------------
(***************************************************************************)
(* Induction over natural numbers and finite sets, stated about sets so    *)
(* that it can be cited for any property of their members, and what it     *)
(* gives about sums over finite sets (SumFunctionOnSet).                   *)
(***************************************************************************)
EXTENDS Integers, FiniteSets, Functions, FiniteSetTheorems, WellFoundedInduction, TLAPS

\* Every set of natural numbers has a least one.
LEMMA LeastNumber ==
    ASSUME NEW Q \in SUBSET Nat, Q # {}
    PROVE  \E n \in Q : \A m \in Q : n <= m
<1>1. IsWellFoundedOn(OpToRel(<, Nat), Nat)
  BY NatLessThanWellFounded
<1> DEFINE R == {ss \in Nat \X Nat : ss[1] < ss[2]}
<1>2. IsWellFoundedOn(R, Nat)
  BY <1>1 DEF OpToRel
<1>3. \E n \in Q : \A m \in Q : ~(<<m, n>> \in R)
  <2> HIDE DEF R
  <2> QED
    BY <1>2, WFMin
<1>4. \A n \in Q, m \in Q : ~(<<m, n>> \in R) => n <= m
  <2>1. \A n \in Q, m \in Q : <<m, n>> \in Nat \X Nat
    OBVIOUS
  <2>2. \A n \in Nat, m \in Nat : ~(m < n) => n <= m
    OBVIOUS
  <2> QED
    BY <2>1, <2>2
<1> QED
  BY <1>3, <1>4

\* A set that has 0 and with a number the next one has every number.
LEMMA NumbersBySteps ==
    ASSUME NEW Q, 0 \in Q, \A n \in Nat : n \in Q => n + 1 \in Q
    PROVE  \A n \in Nat : n \in Q
<1>1. SUFFICES ASSUME Nat \ Q # {} PROVE FALSE
  OBVIOUS
<1>2. PICK n \in Nat \ Q : \A m \in Nat \ Q : n <= m
  BY <1>1, LeastNumber
<1>3. n # 0 /\ n - 1 \in Nat
  BY <1>2
<1>4. n - 1 \in Q
  BY <1>2, <1>3
<1> QED
  BY <1>2, <1>3, <1>4

\* A family of subsets that has the empty one and with a subset all that have
\* one element more has the whole set, when it is finite.
LEMMA SubsetsBySteps ==
    ASSUME NEW S, IsFiniteSet(S), NEW Q, {} \in Q,
           \A T \in SUBSET S : \A x \in S \ T : T \in Q => T \cup {x} \in Q
    PROVE  S \in Q
<1> DEFINE G == {n \in Nat : \A T \in SUBSET S : IsFiniteSet(T) /\ Cardinality(T) = n => T \in Q}
<1>1. 0 \in G
  BY FS_EmptySet
<1>2. ASSUME NEW n \in Nat, n \in G PROVE n + 1 \in G
  <2>1. ASSUME NEW T \in SUBSET S, IsFiniteSet(T), Cardinality(T) = n + 1 PROVE T \in Q
    <3>1. T # {}
      BY <2>1, FS_EmptySet
    <3>2. PICK x \in T : TRUE
      BY <3>1
    <3>3. IsFiniteSet(T \ {x}) /\ Cardinality(T \ {x}) = Cardinality(T) - 1
      BY <2>1, <3>2, FS_RemoveElement
    <3>4. T \ {x} \in Q
      BY <1>2, <2>1, <3>3
    <3> QED
      BY <3>4, (T \ {x}) \cup {x} = T
  <2> QED
    BY <2>1
<1>3. \A n \in Nat : n \in G
  <2> HIDE DEF G
  <2> QED
    BY <1>1, <1>2, NumbersBySteps
<1> QED
  BY <1>3, FS_CardinalityType

-----------------------------------------------------------------------------
(* Sums.  SumFunctionOnSet is defined by a function on subsets; there is   *)
(* one that satisfies its recursion, and it does not matter which element  *)
(* is chosen first.                                                        *)

Picked(s) == CHOOSE x \in s : TRUE
Recursion(f, g, D) == [s \in D |-> IF s = {} THEN 0 ELSE f[Picked(s)] + g[s \ {Picked(s)}]]
Small(S, n) == {s \in SUBSET S : Cardinality(s) <= n}

LEMMA PickedIsIn == \A s : s # {} => Picked(s) \in s
BY DEF Picked

LEMMA SumUnfolds ==
    ASSUME NEW f, NEW S
    PROVE  SumFunctionOnSet(f, S) = (CHOOSE g : g = Recursion(f, g, SUBSET S))[S]
BY DEF SumFunctionOnSet, FoldFunctionOnSet, MapThenFoldSet, Recursion, Picked

LEMMA SmallerRest ==
    ASSUME NEW S, IsFiniteSet(S), NEW n \in Nat, NEW s \in Small(S, n + 1), s # {}
    PROVE  s \ {Picked(s)} \in Small(S, n)
<1>1. Picked(s) \in s /\ IsFiniteSet(s) /\ Cardinality(s) \in Nat /\ Cardinality(s) <= n + 1
  BY PickedIsIn, FS_Subset, FS_CardinalityType DEF Small
<1>2. Cardinality(s \ {Picked(s)}) = Cardinality(s) - 1
  BY <1>1, FS_RemoveElement
<1> QED
  BY <1>1, <1>2 DEF Small

LEMMA RecursionExists ==
    ASSUME NEW S, IsFiniteSet(S), NEW f
    PROVE  \E g : g = Recursion(f, g, SUBSET S)
<1> DEFINE Q == {n \in Nat : \E g : g = Recursion(f, g, Small(S, n))}
<1>1. 0 \in Q
  <2> DEFINE g == [s \in Small(S, 0) |-> 0]
  <2>1. \A s \in Small(S, 0) : s = {}
    BY FS_Subset, FS_EmptySet, FS_CardinalityType DEF Small
  <2>2. g = Recursion(f, g, Small(S, 0))
    BY <2>1 DEF Recursion
  <2> QED
    BY <2>2
<1>2. ASSUME NEW n \in Nat, n \in Q PROVE n + 1 \in Q
  <2>1. PICK g : g = Recursion(f, g, Small(S, n))
    BY <1>2
  <2> DEFINE h == Recursion(f, g, Small(S, n + 1))
  <2>2. ASSUME NEW s \in Small(S, n) PROVE h[s] = g[s]
    <3>1. s \in Small(S, n + 1)
      BY FS_Subset, FS_CardinalityType DEF Small
    <3> QED
      BY <2>1, <3>1 DEF Recursion
  <2>3. ASSUME NEW s \in Small(S, n + 1)
        PROVE  h[s] = IF s = {} THEN 0 ELSE f[Picked(s)] + h[s \ {Picked(s)}]
    <3>1. CASE s = {}
      BY <3>1 DEF Recursion
    <3>2. CASE s # {}
      <4>1. h[s] = f[Picked(s)] + g[s \ {Picked(s)}]
        BY <3>2 DEF Recursion
      <4> QED
        BY <4>1, <3>2, <2>2, SmallerRest
    <3> QED
      BY <3>1, <3>2
  <2>4. h = Recursion(f, h, Small(S, n + 1))
    <3>1. h = [s \in Small(S, n + 1) |-> h[s]]
      BY DEF Recursion
    <3> HIDE DEF h
    <3> QED
      BY <3>1, <2>3 DEF Recursion
  <2> QED
    BY <2>4
<1>3. Cardinality(S) \in Q
  <2>1. \A n \in Nat : n \in Q
    <3> HIDE DEF Q
    <3> QED
      BY <1>1, <1>2, NumbersBySteps
  <2> QED
    BY <2>1, FS_CardinalityType
<1>4. Small(S, Cardinality(S)) = SUBSET S
  BY FS_Subset DEF Small
<1> QED
  BY <1>3, <1>4

LEMMA RecursionFor ==
    ASSUME NEW S, IsFiniteSet(S), NEW f
    PROVE  \E g : /\ \A s \in SUBSET S :
                        g[s] = IF s = {} THEN 0 ELSE f[Picked(s)] + g[s \ {Picked(s)}]
                  /\ g[S] = SumFunctionOnSet(f, S)
<1> DEFINE g == CHOOSE h : h = Recursion(f, h, SUBSET S)
<1>1. g = Recursion(f, g, SUBSET S)
  BY RecursionExists
<1>2. \A s \in SUBSET S : g[s] = IF s = {} THEN 0 ELSE f[Picked(s)] + g[s \ {Picked(s)}]
  <2> HIDE DEF g
  <2> QED
    BY <1>1 DEF Recursion
<1>3. g[S] = SumFunctionOnSet(f, S)
  BY SumUnfolds
<1> QED
  BY <1>2, <1>3

LEMMA SumRecursion ==
    ASSUME NEW S, IsFiniteSet(S), NEW f
    PROVE  SumFunctionOnSet(f, S) =
              IF S = {} THEN 0 ELSE f[Picked(S)] + SumFunctionOnSet(f, S \ {Picked(S)})
<1>1. PICK g : /\ \A s \in SUBSET S : g[s] = IF s = {} THEN 0 ELSE f[Picked(s)] + g[s \ {Picked(s)}]
               /\ g[S] = SumFunctionOnSet(f, S)
  BY RecursionFor
<1>2. ASSUME S # {}
      PROVE  g[S \ {Picked(S)}] = SumFunctionOnSet(f, S \ {Picked(S)})
  <2> DEFINE T == S \ {Picked(S)}
  <2>1. IsFiniteSet(T) /\ T \subseteq S
    BY FS_Subset
  <2>2. PICK h : /\ \A s \in SUBSET T :
                       h[s] = IF s = {} THEN 0 ELSE f[Picked(s)] + h[s \ {Picked(s)}]
                 /\ h[T] = SumFunctionOnSet(f, T)
    BY <2>1, RecursionFor
  <2> HIDE DEF T
  <2> DEFINE Q == {n \in Nat : \A s \in Small(T, n) : h[s] = g[s]}
  <2>3. 0 \in Q
    <3>1. \A s \in Small(T, 0) : s = {}
      BY <2>1, FS_Subset, FS_EmptySet, FS_CardinalityType DEF Small
    <3> QED
      BY <3>1, <1>1, <2>2, <2>1
  <2>4. ASSUME NEW n \in Nat, n \in Q PROVE n + 1 \in Q
    <3>1. ASSUME NEW s \in Small(T, n + 1) PROVE h[s] = g[s]
      <4>1. s \in SUBSET T /\ s \in SUBSET S
        BY <2>1 DEF Small
      <4>2. s # {} => s \ {Picked(s)} \in Small(T, n)
        BY <2>1, SmallerRest
      <4> QED
        BY <4>1, <4>2, <1>1, <2>2, <2>4
    <3> QED
      BY <3>1
  <2>5. \A n \in Nat : n \in Q
    <3> HIDE DEF Q
    <3> QED
      BY <2>3, <2>4, NumbersBySteps
  <2>6. T \in Small(T, Cardinality(T)) /\ Cardinality(T) \in Nat
    BY <2>1, FS_CardinalityType DEF Small
  <2>7. h[T] = g[T]
    BY <2>5, <2>6
  <2> QED
    BY <2>2, <2>7 DEF T
<1> QED
  BY <1>1, <1>2

\* A sum over a set is a number, and any element may be taken first.
Adds(f, S) ==
    /\ SumFunctionOnSet(f, S) \in Int
    /\ \A x \in S : SumFunctionOnSet(f, S) = f[x] + SumFunctionOnSet(f, S \ {x})

LEMMA SumAdds ==
    ASSUME NEW D, IsFiniteSet(D), NEW f, \A x \in D : f[x] \in Int
    PROVE  \A S \in SUBSET D : Adds(f, S)
<1> DEFINE Q == {n \in Nat : \A S \in SUBSET D : Cardinality(S) <= n => Adds(f, S)}
<1>1. 0 \in Q
  <2>1. ASSUME NEW S \in SUBSET D, Cardinality(S) <= 0 PROVE Adds(f, S)
    <3>1. S = {} /\ IsFiniteSet(S)
      BY <2>1, FS_Subset, FS_EmptySet, FS_CardinalityType
    <3> QED
      BY <3>1, SumRecursion DEF Adds
  <2> QED
    BY <2>1
<1>2. ASSUME NEW n \in Nat, n \in Q PROVE n + 1 \in Q
  <2>1. ASSUME NEW S \in SUBSET D, Cardinality(S) <= n + 1, S # {} PROVE Adds(f, S)
    <3> DEFINE c == Picked(S)
               Rest(x) == S \ {x}
    <3>1. IsFiniteSet(S) /\ Cardinality(S) \in Nat /\ c \in S
      BY <2>1, FS_Subset, FS_CardinalityType, PickedIsIn
    <3>2. SumFunctionOnSet(f, S) = f[c] + SumFunctionOnSet(f, Rest(c))
      BY <3>1, <2>1, SumRecursion
    <3>3. \A x \in S : Adds(f, Rest(x))
      <4>1. ASSUME NEW x \in S PROVE Rest(x) \in SUBSET D /\ Cardinality(Rest(x)) <= n
        <5>1. Cardinality(S \ {x}) = Cardinality(S) - 1
          BY <3>1, FS_RemoveElement
        <5> QED
          BY <5>1, <3>1, <2>1
      <4> QED
        BY <4>1, <1>2
    <3>4. f[c] \in Int /\ SumFunctionOnSet(f, Rest(c)) \in Int
      BY <3>1, <3>3 DEF Adds
    <3>5. ASSUME NEW x \in S, x # c
          PROVE  SumFunctionOnSet(f, S) = f[x] + SumFunctionOnSet(f, Rest(x))
      <4>1. x \in Rest(c) /\ c \in Rest(x) /\ Rest(c) \ {x} = Rest(x) \ {c}
        BY <3>1, <3>5
      <4> DEFINE rest == SumFunctionOnSet(f, Rest(c) \ {x})
      <4>2. SumFunctionOnSet(f, Rest(c)) = f[x] + rest /\ SumFunctionOnSet(f, Rest(x)) = f[c] + rest
        BY <4>1, <3>3, <3>1 DEF Adds
      <4>3. rest \in Int
        <5>1. Rest(c) \ {x} \in SUBSET D /\ Cardinality(Rest(c) \ {x}) <= n
          <6>1. IsFiniteSet(Rest(c)) /\ Cardinality(Rest(c)) = Cardinality(S) - 1
            BY <3>1, FS_RemoveElement
          <6>2. Cardinality(Rest(c) \ {x}) = Cardinality(Rest(c)) - 1
            BY <6>1, <4>1, FS_RemoveElement
          <6> QED
            BY <6>1, <6>2, <3>1, <2>1
        <5> QED
          BY <5>1, <1>2 DEF Adds
      <4>4. f[x] \in Int
        BY <3>5
      <4> HIDE DEF rest, Rest, c
      <4> QED
        BY <4>2, <4>3, <4>4, <3>2, <3>4
    <3>6. SumFunctionOnSet(f, S) \in Int
      <4> HIDE DEF c, Rest
      <4> QED
        BY <3>2, <3>4
    <3> QED
      BY <3>2, <3>5, <3>6 DEF Adds
  <2>2. ASSUME NEW S \in SUBSET D, S = {} PROVE Adds(f, S)
    BY <1>1, <2>2, FS_EmptySet
  <2> QED
    BY <2>1, <2>2
<1>3. \A n \in Nat : n \in Q
  <2> HIDE DEF Q
  <2> QED
    BY <1>1, <1>2, NumbersBySteps
<1>4. ASSUME NEW S \in SUBSET D PROVE Cardinality(S) \in Nat
  BY FS_Subset, FS_CardinalityType
<1> QED
  BY <1>3, <1>4

LEMMA SumOfNothing == \A f : SumFunctionOnSet(f, {}) = 0
BY SumRecursion, FS_EmptySet

LEMMA SumIsInt ==
    ASSUME NEW S, IsFiniteSet(S), NEW f, \A x \in S : f[x] \in Int
    PROVE  SumFunctionOnSet(f, S) \in Int
BY SumAdds DEF Adds

LEMMA SumWithOneMore ==
    ASSUME NEW D, IsFiniteSet(D), NEW f, \A x \in D : f[x] \in Int,
           NEW T \in SUBSET D, NEW x \in D \ T
    PROVE  /\ SumFunctionOnSet(f, T \cup {x}) = SumFunctionOnSet(f, T) + f[x]
           /\ SumFunctionOnSet(f, T) \in Int
<1>1. Adds(f, T) /\ Adds(f, T \cup {x})
  BY SumAdds
<1>2. (T \cup {x}) \ {x} = T
  OBVIOUS
<1> QED
  BY <1>1, <1>2 DEF Adds

LEMMA SumIsNat ==
    ASSUME NEW S, IsFiniteSet(S), NEW f, \A x \in S : f[x] \in Nat
    PROVE  SumFunctionOnSet(f, S) \in Nat
<1> DEFINE Q == {T \in SUBSET S : SumFunctionOnSet(f, T) \in Nat}
<1>1. {} \in Q
  BY SumOfNothing
<1>2. ASSUME NEW T \in SUBSET S, NEW x \in S \ T, T \in Q PROVE T \cup {x} \in Q
  BY <1>2, SumWithOneMore
<1>3. S \in Q
  <2> HIDE DEF Q
  <2> QED
    BY <1>1, <1>2, SubsetsBySteps
<1> QED
  BY <1>3

\* Functions that agree have the same sum, and larger ones a larger one.
LEMMA SumMonotone ==
    ASSUME NEW S, IsFiniteSet(S), NEW f, NEW g,
           \A x \in S : f[x] \in Int /\ g[x] \in Int /\ f[x] <= g[x]
    PROVE  SumFunctionOnSet(f, S) <= SumFunctionOnSet(g, S)
<1> DEFINE Q == {T \in SUBSET S : SumFunctionOnSet(f, T) <= SumFunctionOnSet(g, T)}
<1>1. {} \in Q
  BY SumOfNothing
<1>2. ASSUME NEW T \in SUBSET S, NEW x \in S \ T, T \in Q PROVE T \cup {x} \in Q
  <2>1. /\ SumFunctionOnSet(f, T \cup {x}) = SumFunctionOnSet(f, T) + f[x]
        /\ SumFunctionOnSet(g, T \cup {x}) = SumFunctionOnSet(g, T) + g[x]
        /\ SumFunctionOnSet(f, T) \in Int /\ SumFunctionOnSet(g, T) \in Int
    BY <1>2, SumWithOneMore
  <2> QED
    BY <1>2, <2>1
<1>3. S \in Q
  <2> HIDE DEF Q
  <2> QED
    BY <1>1, <1>2, SubsetsBySteps
<1> QED
  BY <1>3

LEMMA SumSame ==
    ASSUME NEW S, IsFiniteSet(S), NEW f, NEW g, \A x \in S : f[x] \in Int /\ g[x] = f[x]
    PROVE  SumFunctionOnSet(f, S) = SumFunctionOnSet(g, S)
<1>1. /\ SumFunctionOnSet(f, S) <= SumFunctionOnSet(g, S)
      /\ SumFunctionOnSet(g, S) <= SumFunctionOnSet(f, S)
  BY SumMonotone
<1>2. SumFunctionOnSet(f, S) \in Int /\ SumFunctionOnSet(g, S) \in Int
  BY SumIsInt
<1> QED
  BY <1>1, <1>2

\* What one element's value changes.
LEMMA SumChanged ==
    ASSUME NEW S, IsFiniteSet(S), NEW f, NEW g, NEW x \in S,
           \A y \in S : f[y] \in Int /\ g[y] \in Int /\ (y # x => g[y] = f[y])
    PROVE  SumFunctionOnSet(g, S) = SumFunctionOnSet(f, S) - f[x] + g[x]
<1> DEFINE T == S \ {x}
<1>1. IsFiniteSet(T) /\ T \in SUBSET S /\ T \cup {x} = S /\ x \in S \ T
  BY FS_Subset
<1>2. SumFunctionOnSet(f, T) = SumFunctionOnSet(g, T)
  BY <1>1, SumSame
<1> HIDE DEF T
<1>3. /\ SumFunctionOnSet(f, T \cup {x}) = SumFunctionOnSet(f, T) + f[x]
      /\ SumFunctionOnSet(g, T \cup {x}) = SumFunctionOnSet(g, T) + g[x]
      /\ SumFunctionOnSet(f, T) \in Int
  BY <1>1, SumWithOneMore
<1>4. f[x] \in Int /\ g[x] \in Int
  OBVIOUS
<1>5. /\ SumFunctionOnSet(f, S) = SumFunctionOnSet(f, T) + f[x]
      /\ SumFunctionOnSet(g, S) = SumFunctionOnSet(f, T) + g[x]
  BY <1>1, <1>2, <1>3
<1> QED
  BY <1>3, <1>4, <1>5

\* The sum of two functions.
LEMMA SumOfSums ==
    ASSUME NEW S, IsFiniteSet(S), NEW f, NEW g, NEW h,
           \A x \in S : f[x] \in Int /\ g[x] \in Int /\ h[x] = f[x] + g[x]
    PROVE  SumFunctionOnSet(h, S) = SumFunctionOnSet(f, S) + SumFunctionOnSet(g, S)
<1> DEFINE Q == {T \in SUBSET S :
                   SumFunctionOnSet(h, T) = SumFunctionOnSet(f, T) + SumFunctionOnSet(g, T)}
<1>1. {} \in Q
  BY SumOfNothing
<1>2. ASSUME NEW T \in SUBSET S, NEW x \in S \ T, T \in Q PROVE T \cup {x} \in Q
  <2>1. /\ SumFunctionOnSet(f, T \cup {x}) = SumFunctionOnSet(f, T) + f[x]
        /\ SumFunctionOnSet(g, T \cup {x}) = SumFunctionOnSet(g, T) + g[x]
        /\ SumFunctionOnSet(f, T) \in Int /\ SumFunctionOnSet(g, T) \in Int
    BY <1>2, SumWithOneMore
  <2>2. \A y \in S : h[y] \in Int
    OBVIOUS
  <2>3. SumFunctionOnSet(h, T \cup {x}) = SumFunctionOnSet(h, T) + h[x]
    BY <1>2, <2>2, SumWithOneMore
  <2>4. h[x] = f[x] + g[x] /\ f[x] \in Int /\ g[x] \in Int
    BY <1>2
  <2> QED
    BY <1>2, <2>1, <2>3, <2>4
<1>3. S \in Q
  <2> HIDE DEF Q
  <2> QED
    BY <1>1, <1>2, SubsetsBySteps
<1> QED
  BY <1>3

LEMMA SumOfZeros ==
    ASSUME NEW S, IsFiniteSet(S), NEW f, \A x \in S : f[x] = 0
    PROVE  SumFunctionOnSet(f, S) = 0
<1> DEFINE Q == {T \in SUBSET S : SumFunctionOnSet(f, T) = 0}
<1>1. {} \in Q
  BY SumOfNothing
<1>2. ASSUME NEW T \in SUBSET S, NEW x \in S \ T, T \in Q PROVE T \cup {x} \in Q
  <2>1. \A y \in S : f[y] \in Int
    OBVIOUS
  <2>2. SumFunctionOnSet(f, T \cup {x}) = SumFunctionOnSet(f, T) + f[x]
    BY <1>2, <2>1, SumWithOneMore
  <2>3. SumFunctionOnSet(f, T) = 0 /\ f[x] = 0
    BY <1>2
  <2> QED
    BY <1>2, <2>2, <2>3
<1>3. S \in Q
  <2> HIDE DEF Q
  <2> QED
    BY <1>1, <1>2, SubsetsBySteps
<1> QED
  BY <1>3

LEMMA SumOfOne ==
    ASSUME NEW x, NEW h, h[x] \in Int
    PROVE  SumFunctionOnSet(h, {x}) = h[x]
<1>1. PICK T : T = {}
  OBVIOUS
<1>2. PICK D : D = {x}
  OBVIOUS
<1>3. IsFiniteSet(D) /\ T \in SUBSET D /\ x \in D \ T /\ T \cup {x} = D /\ \A j \in D : h[j] \in Int
  BY <1>1, <1>2, FS_Singleton
<1>4. SumFunctionOnSet(h, T \cup {x}) = SumFunctionOnSet(h, T) + h[x]
  BY <1>3, SumWithOneMore
<1>5. SumFunctionOnSet(h, T) = 0
  BY <1>1, SumOfNothing
<1>6. SumFunctionOnSet(h, D) = 0 + h[x]
  BY <1>3, <1>4, <1>5
<1> QED
  BY <1>2, <1>6

-----------------------------------------------------------------------------
(* A function that is defined step by step exists.                         *)

Follows(fl, n, base, step) ==
    fl[0] = base /\ \A i \in 1 .. n : fl[i] = step[<<i, fl[i - 1]>>]

LEMMA StepsExist ==
    ASSUME NEW D, NEW base \in D, NEW n \in Nat, NEW step \in [(1 .. n) \X D -> D]
    PROVE  \E fl \in [0 .. n -> D] : Follows(fl, n, base, step)
<1> DEFINE Q == {m \in Nat : m <= n => \E fl \in [0 .. m -> D] : Follows(fl, m, base, step)}
<1>1. 0 \in Q
  <2>1. [i \in 0 .. 0 |-> base] \in [0 .. 0 -> D] /\ Follows([i \in 0 .. 0 |-> base], 0, base, step)
    BY DEF Follows
  <2> QED
    BY <2>1
<1>2. ASSUME NEW m \in Nat, m \in Q PROVE m + 1 \in Q
  <2> SUFFICES ASSUME m + 1 <= n
               PROVE  \E fl \in [0 .. m + 1 -> D] : Follows(fl, m + 1, base, step)
    OBVIOUS
  <2>1. PICK fl \in [0 .. m -> D] : Follows(fl, m, base, step)
    BY <1>2
  <2> DEFINE more == [i \in 0 .. m + 1 |-> IF i = m + 1 THEN step[<<m + 1, fl[m]>>] ELSE fl[i]]
  <2>2. <<m + 1, fl[m]>> \in (1 .. n) \X D
    BY <2>1
  <2>3. step[<<m + 1, fl[m]>>] \in D
    BY <2>2
  <2>4. more \in [0 .. m + 1 -> D]
    BY <2>1, <2>3
  <2>5. more[m + 1] = step[<<m + 1, fl[m]>>] /\ \A i \in 0 .. m : more[i] = fl[i]
    OBVIOUS
  <2>6. ASSUME NEW i \in 1 .. m + 1 PROVE more[i] = step[<<i, more[i - 1]>>]
    <3>1. CASE i = m + 1
      <4>1. i - 1 = m /\ m \in 0 .. m
        BY <3>1
      <4> HIDE DEF more
      <4> QED
        BY <3>1, <4>1, <2>5
    <3>2. CASE i # m + 1
      <4>1. i \in 1 .. m /\ i \in 0 .. m /\ i - 1 \in 0 .. m
        BY <3>2
      <4> HIDE DEF more
      <4> QED
        BY <4>1, <2>1, <2>5 DEF Follows
    <3> QED
      BY <3>1, <3>2
  <2>7. more[0] = base
    BY <2>1 DEF Follows
  <2> HIDE DEF more
  <2> QED
    BY <2>4, <2>6, <2>7 DEF Follows
<1>3. \A m \in Nat : m \in Q
  <2> HIDE DEF Q
  <2> QED
    BY <1>1, <1>2, NumbersBySteps
<1> QED
  BY <1>3
=============================================================================
