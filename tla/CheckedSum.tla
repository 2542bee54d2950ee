----------------------------- MODULE CheckedSum -----------------------------
(***************************************************************************)
(* SUM as queries compute it: partitions of a table are summed batch by    *)
(* batch, their states merged, and the rows that leave a window taken out  *)
(* again, in whatever order the plan has them.  The sum is exact or fails. *)
(*                                                                         *)
(* Sources: crates/runtime/src/numeric.rs.                                 *)
(*                                                                         *)
(* A batch adds up in lanes of i128 that spill into an i256 state; the     *)
(* declared type bounds only the value that is shown.  The widths are      *)
(* constants here.  Counts of rows (u64) do not overflow.                  *)
(***************************************************************************)
EXTENDS Integers, Sequences, FiniteSets, FiniteSetsExt, SequencesExt

CONSTANTS
    Null,
    OutOfRange,  \* ARITHMETIC_OVERFLOW where a sum is asked for
    Input,       \* values of a column
    Lanes,       \* sums a batch without NULL is added up in
    LaneTop,     \* a lane is in -LaneTop .. LaneTop - 1 (i128)
    WideTop,     \* and a state in -WideTop .. WideTop - 1 (i256)
    Least, Most, \* the declared type
    Accs,        \* accumulators of one SUM: of partitions, or of a window
    Grouped,     \* group accumulators of one SUM ... GROUP BY
    Groups,      \* number of groups
    MaxBatch,    \* bound: rows of a batch
    MaxRows      \* bound: rows of all

ASSUME WidthAssumption ==
    /\ {Lanes, LaneTop} \subseteq Nat \ {0} /\ WideTop \in Nat /\ LaneTop <= WideTop
    /\ Input \subseteq -LaneTop .. LaneTop - 1 /\ Null \notin Input
    /\ Least \in Int /\ Most \in Int
ASSUME BoundAssumption == Groups \in Nat /\ MaxBatch \in Nat /\ MaxRows \in Nat

VARIABLES
    form,      \* "all" for SUM, "distinct" for SUM(DISTINCT ...), "grouped"
    acc,       \* State, and how often a distinct accumulator has a value
    groups,    \* State of each group
    given,     \* values each accumulator stands for, with their number
    held       \* the same for each group

vars == <<form, acc, groups, given, held>>

Distinct == form = "distinct"
Zero == [sum |-> 0, count |-> 0, ok |-> TRUE]
None == [v \in Input |-> 0]

Init ==
    /\ form \in {"all", "distinct", "grouped"}
    /\ acc = [a \in Accs |-> [state |-> Zero, set |-> None]]
    /\ groups = [g \in Grouped |-> [k \in 1 .. Groups |-> Zero]]
    /\ given = [a \in Accs |-> None]
    /\ held = [g \in Grouped |-> [k \in 1 .. Groups |-> None]]

(***************************************************************************)
(* State::add and subtract.  A state that failed fails the query.          *)
(***************************************************************************)
Wide == -WideTop .. WideTop - 1
Lane == -LaneTop .. LaneTop - 1

Add(s, v, n) ==
    IF s.ok /\ s.sum + v \in Wide THEN [s EXCEPT !.sum = @ + v, !.count = @ + n]
                                  ELSE [s EXCEPT !.ok = FALSE]
Subtract(s, v) ==
    IF s.ok /\ s.sum - v \in Wide /\ s.count > 0
    THEN [s EXCEPT !.sum = @ - v, !.count = @ - 1] ELSE [s EXCEPT !.ok = FALSE]

\* What is shown of a state (Range::scalar).
Scalar(s) ==
    IF s.count = 0 THEN Null ELSE IF s.sum \in Least .. Most THEN s.sum ELSE OutOfRange

(***************************************************************************)
(* add_batch.  Without NULL, whole chunks go to a lane per position and    *)
(* what remains to the first.  A lane that would overflow is added to the  *)
(* state and starts again with the value.                                  *)
(***************************************************************************)
LaneOf(i, length) == IF i <= length - (length % Lanes) THEN ((i - 1) % Lanes) + 1 ELSE 1

InLane(s, k, v, n) ==
    IF s.lanes[k] + v \in Lane
    THEN [s EXCEPT !.lanes[k] = @ + v, !.rows = @ + n]
    ELSE [s EXCEPT !.state = Add(@, s.lanes[k], s.rows), !.lanes[k] = v, !.rows = n]

Started(state, lanes) == [state |-> state, lanes |-> [k \in 1 .. lanes |-> 0], rows |-> 0]

AddFull(state, batch) ==
    LET after[i \in 0 .. Len(batch)] ==
            IF i = 0 THEN Started(state, Lanes)
            ELSE InLane(after[i - 1], LaneOf(i, Len(batch)), batch[i], 0)
        end == after[Len(batch)]
        merged[k \in 0 .. Lanes] ==
            IF k = 0 THEN end.state ELSE Add(merged[k - 1], end.lanes[k], 0)
    IN  Add(merged[Lanes], 0, Len(batch))

AddSparse(state, batch) ==
    LET after[i \in 0 .. Len(batch)] ==
            IF i = 0 THEN Started(state, 1)
            ELSE IF batch[i] = Null THEN after[i - 1] ELSE InLane(after[i - 1], 1, batch[i], 1)
        end == after[Len(batch)]
    IN  Add(end.state, end.lanes[1], end.rows)

AddBatch(state, batch) ==
    IF \E i \in 1 .. Len(batch) : batch[i] = Null
    THEN AddSparse(state, batch) ELSE AddFull(state, batch)

(***************************************************************************)
(* CheckedAccumulator.  SUM(DISTINCT ...) adds a value when it comes and   *)
(* subtracts it when the last one goes.                                    *)
(***************************************************************************)
Insert(c, v) ==
    LET known == [c EXCEPT !.set[v] = @ + 1]
    IN  IF c.set[v] > 0 THEN known ELSE [known EXCEPT !.state = Add(@, v, 1)]
InsertAll(c, batch) ==
    LET after[i \in 0 .. Len(batch)] ==
            IF i = 0 THEN c
            ELSE IF batch[i] = Null THEN after[i - 1] ELSE Insert(after[i - 1], batch[i])
    IN  after[Len(batch)]

\* update_batch and retract_batch, of one accumulator.
TakeIn(c, batch) ==
    IF Distinct THEN InsertAll(c, batch) ELSE [c EXCEPT !.state = AddBatch(@, batch)]

\* A mistake retract_batch does not make: a value goes with the first of its rows.
TakeOutFirst(c, v) ==
    IF ~Distinct THEN [c EXCEPT !.state = Subtract(@, v)]
    ELSE [c EXCEPT !.set[v] = 0, !.state = Subtract(@, v)]

TakeOut(c, v) ==
    IF ~Distinct THEN [c EXCEPT !.state = Subtract(@, v)]
    ELSE IF c.set[v] > 1 THEN [c EXCEPT !.set[v] = @ - 1]
    ELSE [c EXCEPT !.set[v] = 0, !.state = Subtract(@, v)]

Rows(bag) == SumFunctionOnSet(bag, Input)
Used ==
    MapThenSumSet(LAMBDA a : Rows(given[a]), Accs)
      + MapThenSumSet(LAMBDA c : Rows(held[c[1]][c[2]]), Grouped \X (1 .. Groups))
Batches ==
    LET room == MaxRows - Used
    IN  UNION {[1 .. n -> Input \cup {Null}] : n \in {n \in 1 .. MaxBatch : n <= room}}
Of(v, batch) == Cardinality({i \in 1 .. Len(batch) : batch[i] = v})

Running(a) == form # "grouped" /\ acc[a].state.ok

Update(a) ==
    /\ Running(a)
    /\ \E batch \in Batches :
          /\ acc' = [acc EXCEPT ![a] = TakeIn(@, batch)]
          /\ given' = [given EXCEPT ![a] = [v \in Input |-> @[v] + Of(v, batch)]]
    /\ UNCHANGED <<form, groups, held>>

\* A row leaves the window.
Retract(a) ==
    /\ Running(a)
    /\ \E v \in Input :
          /\ given[a][v] > 0
          /\ acc' = [acc EXCEPT ![a] = TakeOut(@, v)]
          /\ given' = [given EXCEPT ![a][v] = @ - 1]
    /\ UNCHANGED <<form, groups, held>>

\* state of one accumulator, merge_batch of another: its sum and its count, or
\* the values it has seen, in any order and each of them once.
Merge(a, b) ==
    /\ a # b /\ Running(a) /\ Running(b)
    /\ IF Distinct
       THEN \E order \in SetToSeqs({v \in Input : acc[b].set[v] > 0}) :
               acc' = [acc EXCEPT ![a] = InsertAll(@, order),
                                  ![b] = [state |-> Zero, set |-> None]]
       ELSE acc' = [acc EXCEPT ![a].state = Add(@, acc[b].state.sum, acc[b].state.count),
                               ![b] = [state |-> Zero, set |-> None]]
    /\ given' = [given EXCEPT ![a] = [v \in Input |-> @[v] + IF Distinct
                                 THEN IF given[b][v] > 0 THEN 1 ELSE 0 ELSE given[b][v]],
                              ![b] = None]
    /\ UNCHANGED <<form, groups, held>>

(***************************************************************************)
(* CheckedGroups.  A batch is taken row by row; a row without a value, or  *)
(* that its filter does not pass, does not count.                          *)
(***************************************************************************)
Healthy(g) == form = "grouped" /\ \A k \in 1 .. Groups : groups[g][k].ok
Hold(g, k, v, pass) ==
    held' = IF pass /\ v # Null THEN [held EXCEPT ![g][k][v] = @ + 1] ELSE held

UpdateGroup(g, k) ==
    /\ Healthy(g) /\ Used < MaxRows
    /\ \E v \in Input \cup {Null}, pass \in BOOLEAN :
          /\ groups' = IF pass /\ v # Null THEN [groups EXCEPT ![g][k] = Add(@, v, 1)] ELSE groups
          /\ Hold(g, k, v, pass)
    /\ UNCHANGED <<form, acc, given>>

\* convert_to_state: a row is a state of its own, also one that does not count.
RowState(v, pass) ==
    IF pass /\ v # Null THEN [sum |-> v, count |-> 1] ELSE [sum |-> 0, count |-> 0]

\* When partial groups do not pay off, rows go to the next stage as states.
MergeRow(g, k) ==
    /\ Healthy(g) /\ Used < MaxRows
    /\ \E v \in Input \cup {Null}, pass \in BOOLEAN :
          /\ groups' = [groups EXCEPT ![g][k] =
                           Add(@, RowState(v, pass).sum, RowState(v, pass).count)]
          /\ Hold(g, k, v, pass)
    /\ UNCHANGED <<form, acc, given>>

MergeGroups(g, h) ==
    /\ g # h /\ Healthy(g) /\ Healthy(h)
    /\ groups' = [groups EXCEPT
          ![g] = [k \in 1 .. Groups |-> Add(@[k], groups[h][k].sum, groups[h][k].count)],
          ![h] = [k \in 1 .. Groups |-> Zero]]
    /\ held' = [held EXCEPT
          ![g] = [k \in 1 .. Groups |-> [v \in Input |-> @[k][v] + held[h][k][v]]],
          ![h] = [k \in 1 .. Groups |-> None]]
    /\ UNCHANGED <<form, acc, given>>

Accumulating ==
    \E a \in Accs : Update(a) \/ Retract(a) \/ \E b \in Accs : Merge(a, b)

Grouping ==
    \E g \in Grouped :
       \/ \E k \in 1 .. Groups : UpdateGroup(g, k) \/ MergeRow(g, k)
       \/ \E h \in Grouped : MergeGroups(g, h)

Next == Accumulating \/ Grouping

Spec == Init /\ [][Next]_vars

(***************************************************************************)
(* Properties.                                                             *)
(***************************************************************************)
Abs(v) == IF v < 0 THEN -v ELSE v
Sum(bag) == SumFunctionOnSet([v \in Input |-> v * bag[v]], Input)
Magnitude(bag) == SumFunctionOnSet([v \in Input |-> Abs(v) * bag[v]], Input)
Once(bag) == [v \in Input |-> IF bag[v] > 0 THEN 1 ELSE 0]

\* What SUM of these rows is.
Exactly(bag) ==
    IF Rows(bag) = 0 THEN Null ELSE IF Sum(bag) \in Least .. Most THEN Sum(bag) ELSE OutOfRange

Correct(s, bag) == IF s.ok THEN Scalar(s) = Exactly(bag) ELSE Magnitude(bag) >= WideTop

(* Whatever the batches, partitions, merges and retractions, a sum is the  *)
(* exact sum of its rows, NULL of no rows, or an error when it is not in   *)
(* the declared range; an intermediate sum fails for no lesser values than *)
(* reach the bound of i256 (CheckedAccumulator, CheckedGroups).            *)
SumIsExact ==
    /\ \A a \in Accs : Correct(acc[a].state, IF Distinct THEN Once(given[a]) ELSE given[a])
    /\ \A g \in Grouped, k \in 1 .. Groups : Correct(groups[g][k], held[g][k])

=============================================================================
