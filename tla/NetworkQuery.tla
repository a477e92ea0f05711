---------------------------- MODULE NetworkQuery ----------------------------
(***************************************************************************)
(* From a neural network to the query that Reluplex solves: the numbering  *)
(* of variables, the bounds and the equations that the drivers under       *)
(* check_properties/ write, and Reluplex::initialize, which derives finite *)
(* bounds from them and may already merge or split pairs.                  *)
(*                                                                         *)
(* A query is a record, and an operation of Reluplex a function on it.  The*)
(* domains of its bounds are the variables whose bound is finite.          *)
(* Weights, inputs and bounds are integers; the drivers' conversion to the *)
(* network's normalised inputs and outputs is left out, so that they are   *)
(* the normalised ones.  All levels are 0.                                 *)
(***************************************************************************)
EXTENDS DotProduct

CONSTANTS
  LastLayer,   \* getNumLayers(): layer 0 holds the inputs, this one the outputs
  LayerSize    \* getLayerSize

ASSUME LayersAssumption ==
  /\ LastLayer \in Nat \ {0}
  /\ LayerSize \in [0 .. LastLayer -> Nat \ {0}]

Node(i) == 0 .. LayerSize[i] - 1
Inputs == Node(0)
Outputs == Node(LastLayer)
Hidden == 1 .. LastLayer - 1
Relu(x) == IF x < 0 THEN 0 ELSE x

(***************************************************************************)
(* evaluate_network: the values of a layer's nodes, after their ReLU but   *)
(* for the outputs.  The shipped networks are not symmetric.               *)
(***************************************************************************)
WeightedSum(net, i, target, values) ==
  net.bias[i][target]
    + Dot([s \in Node(i - 1) |-> net.weight[i][s][target]], values, Node(i - 1))

\* Mutant: the outputs are cut at 0 too.
EvaluateCut(net, x) ==
  LET value[i \in 0 .. LastLayer] ==
        IF i = 0 THEN x
        ELSE [j \in Node(i) |-> Relu(WeightedSum(net, i, j, value[i - 1]))]
  IN value[LastLayer]

Evaluate(net, x) ==
  LET value[i \in 0 .. LastLayer] ==
        IF i = 0 THEN x
        ELSE [j \in Node(i) |->
                IF i = LastLayer THEN WeightedSum(net, i, j, value[i - 1])
                ELSE Relu(WeightedSum(net, i, j, value[i - 1]))]
  IN value[LastLayer]

-----------------------------------------------------------------------------
(***************************************************************************)
(* Variables.  By layers: the f's of the layer before, then the b's and the*)
(* auxiliary variables of this one; inputs are f's, outputs b's.           *)
(***************************************************************************)
Start[i \in 1 .. LastLayer + 1] ==
  IF i = 1 THEN 0 ELSE Start[i - 1] + LayerSize[i - 2] + 2 * LayerSize[i - 1]

F(i, j) == Start[i + 1] + j
B(i, j) == Start[i] + LayerSize[i - 1] + j
Aux(i, j) == Start[i] + LayerSize[i - 1] + LayerSize[i] + j
NumNodes == Start[LastLayer + 1]

(***************************************************************************)
(* A question compares the target output with others: the slack variable   *)
(* target - other is bounded by 0 from one side.  Or it bounds output 0    *)
(* from below (property 1), and has no others.                             *)
(***************************************************************************)
Question(target, others, side, constantFirst, threshold) ==
  [target |-> target, others |-> others, side |-> side,
   constantFirst |-> constantFirst, threshold |-> threshold]

Constant(qu) == IF qu.constantFirst THEN NumNodes ELSE NumNodes + Cardinality(qu.others)
Slack(qu, o) ==
  NumNodes + (IF qu.constantFirst THEN 1 ELSE 0) + Cardinality({p \in qu.others : p < o})

\* numReluNodes, of the first layers
ReluNodes[i \in 0 .. LastLayer - 1] ==
  IF i = 0 THEN 0 ELSE ReluNodes[i - 1] + LayerSize[i]

\* "Total size of the tableau", as the drivers compute it for the constructor
NumVariables(qu) ==
  LayerSize[0] + 3 * ReluNodes[LastLayer - 1] + 2 * LayerSize[LastLayer]
    + Cardinality(qu.others) + 1

Pairs == UNION {{<<B(i, j), F(i, j)>> : j \in Node(i)} : i \in Hidden}
AuxVars == UNION {{Aux(i, j) : j \in Node(i)} : i \in 1 .. LastLayer}
SlackVars(qu) == {Slack(qu, o) : o \in qu.others}
Basics(qu) == AuxVars \union SlackVars(qu)
Var(qu) == 0 .. NumVariables(qu) - 1

-----------------------------------------------------------------------------
(***************************************************************************)
(* The query the driver writes: initializeCell, setLowerBound, ...         *)
(***************************************************************************)
\* A row has cells for the variables of its equation.
\* -aux - b + sum of weight * f + bias = 0, for node j of layer i
NodeRow(net, qu, i, j) ==
  [v \in {Aux(i, j), B(i, j), Constant(qu)} \union {F(i - 1, s) : s \in Node(i - 1)} |->
     IF v \in {Aux(i, j), B(i, j)} THEN -1
     ELSE IF v = Constant(qu) THEN net.bias[i][j]
     ELSE net.weight[i][v - F(i - 1, 0)][j]]

\* Mutant: other - target.
SlackRowSwapped(qu, o) ==
  [v \in {B(LastLayer, qu.target), Slack(qu, o), B(LastLayer, o)} |->
     IF v = B(LastLayer, o) THEN 1 ELSE -1]

SlackRow(qu, o) ==
  [v \in {B(LastLayer, qu.target), Slack(qu, o), B(LastLayer, o)} |->
     IF v = B(LastLayer, qu.target) THEN 1 ELSE -1]

BuildRows(net, qu) ==
  [y \in Basics(qu) |->
     IF y \in AuxVars
     THEN LET i == CHOOSE k \in 1 .. LastLayer : \E j \in Node(k) : y = Aux(k, j)
              j == CHOOSE k \in Node(i) : y = Aux(i, k)
          IN NodeRow(net, qu, i, j)
     ELSE SlackRow(qu, CHOOSE o \in qu.others : y = Slack(qu, o))]

BuildLower(qu, box) ==
  [v \in {Constant(qu)} \union Inputs \union AuxVars \union {p[2] : p \in Pairs}
           \union (IF qu.side = "lower" THEN SlackVars(qu) ELSE {})
           \union (IF qu.side = "output" THEN {B(LastLayer, 0)} ELSE {}) |->
     IF v = Constant(qu) THEN 1
     ELSE IF v \in Inputs THEN box[v].lower
     ELSE IF v = B(LastLayer, 0) THEN qu.threshold
     ELSE 0]

BuildUpper(qu, box) ==
  [v \in {Constant(qu)} \union Inputs \union AuxVars
           \union (IF qu.side = "upper" THEN SlackVars(qu) ELSE {}) |->
     IF v = Constant(qu) THEN 1
     ELSE IF v \in Inputs THEN box[v].upper
     ELSE 0]

Build(net, qu, box) ==
  [rows |-> BuildRows(net, qu),
   lower |-> BuildLower(qu, box),
   upper |-> BuildUpper(qu, box),
   assignment |-> [v \in Var(qu) |-> 0],
   dissolved |-> [p \in Pairs |-> "no"],
   consistent |-> TRUE]

-----------------------------------------------------------------------------
(***************************************************************************)
(* Reluplex::initialize.  The basic variables are the auxiliary and slack  *)
(* ones throughout: a merge finds its b and f non-basic.                   *)
(***************************************************************************)
Vars(q) == DOMAIN q.assignment
NonBasic(q, v) == v \notin DOMAIN q.rows
Finite(q, v) == v \in DOMAIN q.lower /\ v \in DOMAIN q.upper
BoundInvariantHolds(q, v) == Finite(q, v) => q.lower[v] <= q.upper[v]
TooLow(q, v) == v \in DOMAIN q.lower /\ q.assignment[v] < q.lower[v]
TooHigh(q, v) == v \in DOMAIN q.upper /\ q.assignment[v] > q.upper[v]
OutOfBounds(q, v) == TooLow(q, v) \/ TooHigh(q, v)

IsRelu(v) == \E p \in Pairs : v \in {p[1], p[2]}
PairOf(v) == CHOOSE p \in Pairs : v \in {p[1], p[2]}
Active(q, v) == IsRelu(v) /\ q.dissolved[PairOf(v)] = "no"
PairBroken(q, p) == q.assignment[p[2]] # Relu(q.assignment[p[1]])

\* update, with ignoreRelu: a non-basic variable and the rows it occurs in
Update(q, v, value) ==
  LET delta == value - q.assignment[v] IN
  [q EXCEPT !.assignment =
     [x \in Vars(q) |->
        IF x = v THEN value
        ELSE IF x \in DOMAIN q.rows /\ v \in DOMAIN q.rows[x]
        THEN q.assignment[x] + delta * q.rows[x][v]
        ELSE q.assignment[x]]]

\* update: the partner of an active pair follows, both being non-basic.
UpdateBoth(q, v, value) ==
  LET u == Update(q, v, value)
      p == PairOf(v)
  IN IF ~Active(q, v) \/ ~PairBroken(u, p) THEN u
     ELSE IF v = p[2] THEN Update(u, p[1], value)
     ELSE Update(u, p[2], Relu(value))

\* A non-basic variable is moved to the new bound if it is out of bounds.
MoveTo(q, v, bound) ==
  IF NonBasic(q, v) /\ OutOfBounds(q, v) THEN Update(q, v, bound) ELSE q

\* The outcome next of an update that gave vs their bounds in q, unless an
\* InvariantViolationError ends the initialization.
Checked(q, vs, next) ==
  IF \E v \in vs : ~BoundInvariantHolds(q, v) THEN [q EXCEPT !.consistent = FALSE]
  ELSE next

SetUpper(q, vs, bound) ==
  [q EXCEPT !.upper = [x \in vs \union DOMAIN q.upper |->
                         IF x \in vs THEN bound ELSE q.upper[x]]]
SetLower(q, vs, bound) ==
  [q EXCEPT !.lower = [x \in vs \union DOMAIN q.lower |->
                         IF x \in vs THEN bound ELSE q.lower[x]]]

\* A variable without an active pair is moved by update.
MoveAlone(q, v, bound) ==
  IF NonBasic(q, v) /\ OutOfBounds(q, v) THEN UpdateBoth(q, v, bound) ELSE q

\* Mutant: a positive bound is not set for the partner.
UpdateUpperBoundAlone(q, v, bound) ==
  LET alone == SetUpper(q, {v}, bound) IN Checked(alone, {v}, MoveTo(alone, v, bound))

UpdateUpperBound(q, v, bound) ==
  LET p == PairOf(v)
      b == p[1]
      f == p[2]
      alone == SetUpper(q, {v}, bound)
      pair == SetUpper(q, {b, f}, bound)
      split == [SetUpper(SetUpper(q, {b}, bound), {f}, 0) EXCEPT !.dissolved[p] = "split"]
  IN
  IF ~Active(q, v) THEN Checked(alone, {v}, MoveAlone(alone, v, bound))
  ELSE IF bound > 0
  THEN Checked(pair, {b, f}, MoveTo(MoveTo(pair, b, bound), f, bound))
  ELSE IF bound < 0 /\ v = f THEN [alone EXCEPT !.consistent = FALSE]
  ELSE Checked(split, {b, f}, MoveTo(MoveTo(split, b, bound), f, 0))

\* addColumnEraseSource, in one row
ColumnAdded(row, b, f) ==
  IF b \notin DOMAIN row THEN row
  ELSE [c \in (DOMAIN row \ {b}) \union {f} |->
          IF c # f THEN row[c] ELSE row[b] + (IF f \in DOMAIN row THEN row[f] ELSE 0)]

\* Mutant: the pair is not marked as dissolved.
UnifyReluPairUnmarked(q, p) ==
  IF \A y \in DOMAIN q.rows : p[1] \notin DOMAIN q.rows[y] THEN q
  ELSE [Update(q, p[1], q.assignment[p[2]]) EXCEPT
          !.rows = [y \in DOMAIN q.rows |-> ColumnAdded(q.rows[y], p[1], p[2])]]

\* unifyReluPair: the column of b is added to that of f.
UnifyReluPair(q, p) ==
  LET inBounds == IF TooLow(q, p[2]) THEN Update(q, p[2], q.lower[p[2]])
                  ELSE IF TooHigh(q, p[2]) THEN Update(q, p[2], q.upper[p[2]])
                  ELSE q
      equal == Update(inBounds, p[1], inBounds.assignment[p[2]])
  IN
  IF \A y \in DOMAIN q.rows : p[1] \notin DOMAIN q.rows[y] THEN q
  ELSE [equal EXCEPT
          !.rows = [y \in DOMAIN q.rows |-> ColumnAdded(q.rows[y], p[1], p[2])],
          !.dissolved[p] = "merge"]

UpdateLowerBound(q, v, bound) ==
  LET p == PairOf(v)
      b == p[1]
      f == p[2]
      alone == SetLower(q, {v}, bound)
      pair == SetLower(q, {b, f}, bound)
  IN
  IF ~Active(q, v) THEN Checked(alone, {v}, MoveAlone(alone, v, bound))
  ELSE IF bound >= 0
  THEN Checked(pair, {b, f},
               UnifyReluPair(MoveTo(MoveTo(pair, b, bound), f, bound), p))
  ELSE Checked(alone, {v}, MoveTo(alone, v, bound))

\* Bounds first, then every non-basic variable is moved within its own.
InitialUpdate(q) ==
  LET Moved(v) == IF TooLow(q, v) THEN q.lower[v]
                  ELSE IF TooHigh(q, v) THEN q.upper[v]
                  ELSE q.assignment[v]
      delta == [v \in Vars(q) |-> Moved(v) - q.assignment[v]]
  IN
  IF \E v \in Vars(q) : ~BoundInvariantHolds(q, v) THEN [q EXCEPT !.consistent = FALSE]
  ELSE [q EXCEPT
          !.consistent = TRUE,
          !.assignment =
             [v \in Vars(q) |->
                IF NonBasic(q, v) THEN Moved(v)
                ELSE q.assignment[v]
                       + Dot(q.rows[v], delta, DOMAIN q.rows[v] \ DOMAIN q.rows)]]

\* makeAllBoundsFiniteOnRow
InfiniteOnRow(q, y) == {c \in DOMAIN q.rows[y] : ~Finite(q, c)}

\* Mutant: a coefficient's sign is taken for the bound's.
RowBoundUnsigned(q, y, v, upper) ==
  LET others == DOMAIN q.rows[y] \ {v}
  IN Dot([c \in others |-> -(q.rows[y][c] * q.rows[y][v])],
         [c \in others |-> IF upper THEN q.upper[c] ELSE q.lower[c]], others)

\* The largest, or smallest, value that the others leave for variable v, whose
\* coefficient is 1 or -1.
RowBound(q, y, v, upper) ==
  LET others == DOMAIN q.rows[y] \ {v}
      coefficient == [c \in others |-> -(q.rows[y][c] * q.rows[y][v])]
      bound == [c \in others |-> IF (coefficient[c] > 0) = upper THEN q.upper[c]
                                 ELSE q.lower[c]]
  IN Dot(coefficient, bound, others)

MakeBoundsFiniteOnRow(q, y) ==
  LET v == CHOOSE c \in InfiniteOnRow(q, y) : TRUE
      max == RowBound(q, y, v, TRUE)
      min == RowBound(q, y, v, FALSE)
      above == IF v \notin DOMAIN q.upper \/ max < q.upper[v]
               THEN UpdateUpperBound(q, v, max) ELSE q
      both == IF above.consistent /\ (v \notin DOMAIN above.lower \/ min > above.lower[v])
              THEN UpdateLowerBound(above, v, min) ELSE above
  IN
  IF InfiniteOnRow(q, y) = {} THEN q
  ELSE IF both.consistent /\ NonBasic(both, v) /\ OutOfBounds(both, v)
  THEN UpdateBoth(both, v, both.lower[v])
  ELSE both
=============================================================================
