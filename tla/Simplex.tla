------------------------------ MODULE Simplex ------------------------------
(***************************************************************************)
(* The tableau, the basis and the assignment of Reluplex, and what works on*)
(* them: pivots, updates, the merging of pairs, the repair of broken pairs,*)
(* the elimination of auxiliary variables, the LP solver's answers and the *)
(* restoration of the tableau.                                             *)
(*                                                                         *)
(* A row of a basic variable y is a vector with -1 at y, and y is the sum  *)
(* of the others.  Entries are -1, 0 or 1, so that all values are integers:*)
(* a pivot on another entry, by which the code would divide, is left out,  *)
(* and TableauForm shows that no such entry comes up.                      *)
(* Levels and decisions are left out: a decision is an update of a bound,  *)
(* and a pop brings back a state that was reached before, so that a run    *)
(* ends where the code pops.  Of several entries of a row or column that   *)
(* serve, the code takes the first in the order of its lists, where that is*)
(* not too small; here it may take any.                                    *)
(***************************************************************************)
EXTENDS Integers, FiniteSets, SequencesExt, DotProduct

CONSTANTS
  NumVariables,    \* _numVariables
  F, B,            \* the f variables, and the b of each
  Aux,             \* auxiliary variables, one for each equation, basic at first
  Equations,       \* the row of each auxiliary variable
  Queries,         \* bounds to begin with: records of lower and upper
  Updates,         \* bound updates considered: variable, side and value
  KeepBasics       \* the values of keepCurrentBasicVariables considered

Var == 0..NumVariables - 1
Active == "ACTIVE"

ASSUME SimplexAssumption ==
  /\ NumVariables \in Nat \ {0}
  /\ F \subseteq Var
  /\ B \in [F -> Var \ F]
  /\ \A f, g \in F : B[f] = B[g] => f = g
  /\ Aux \subseteq Var
  /\ \A f \in F : f \notin Aux /\ B[f] \notin Aux
  /\ Equations \in [Aux -> [Var -> {-1, 0, 1}]]
  /\ \A y \in Aux : Equations[y][y] = -1 /\ \A z \in Aux \ {y} : Equations[y][z] = 0
  /\ Queries \subseteq [lower : [Var -> Int], upper : [Var -> Int]]
  /\ \A q \in Queries, f \in F :
       q.lower[f] = 0 /\ q.lower[B[f]] <= 0 /\ q.upper[f] = q.upper[B[f]]
  /\ Updates \subseteq [var : Var, side : {"lower", "upper"}, val : Int]
  /\ KeepBasics \subseteq BOOLEAN

VARIABLES
  st,            \* tableau, assignment, bounds, dissolved pairs
  preprocessed,  \* the same as stored before the main loop
  eliminated,    \* _eliminatedVars
  lp,            \* the LP solver's table, the pairs with a slack variable, and
                 \* whether the LP has a solution
  backup,        \* bounds, dissolved pairs and basis when a restoration began
  index,         \* the variable that an initial loop or restoration has come to
  pc

vars == <<st, preprocessed, eliminated, lp, backup, index, pc>>

-----------------------------------------------------------------------------
(***************************************************************************)
(* Reading a state.                                                        *)
(***************************************************************************)
Basic(s) == DOMAIN s.tableau
NonBasic(s, x) == x \notin Basic(s)
ColumnEmpty(s, x) == \A y \in Basic(s) : s.tableau[y][x] = 0

TooLow(s, x) == s.assignment[x] < s.lower[x]
TooHigh(s, x) == s.assignment[x] > s.upper[x]
OutOfBounds(s, x) == TooLow(s, x) \/ TooHigh(s, x)
CanIncrease(s, x) == s.assignment[x] < s.upper[x]
CanDecrease(s, x) == s.assignment[x] > s.lower[x]

IsB(x) == \E f \in F : B[f] = x
IsRelu(x) == x \in F \/ IsB(x)
PairOf(x) == IF x \in F THEN x ELSE CHOOSE f \in F : B[f] = x
Partner(x) == IF x \in F THEN B[x] ELSE PairOf(x)
ActiveRelu(s, x) == IsRelu(x) /\ s.dissolved[PairOf(x)] = Active

\* Mutant: a positive f is compared with a positive b only.
ReluPairIsBrokenNarrow(s, f) ==
  \/ s.assignment[f] = 0 /\ s.assignment[B[f]] > 0
  \/ s.assignment[f] > 0 /\ s.assignment[B[f]] > 0 /\ s.assignment[f] # s.assignment[B[f]]

\* A negative f does not count as broken.
ReluPairIsBroken(s, f) ==
  \/ s.assignment[f] = 0 /\ s.assignment[B[f]] > 0
  \/ s.assignment[f] > 0 /\ s.assignment[f] # s.assignment[B[f]]

Broken(s, f) == s.dissolved[f] = Active /\ ReluPairIsBroken(s, f)

AllVarsWithinBounds(s) == \A y \in Basic(s) : ~OutOfBounds(s, y)
AllRelusHold(s) == \A f \in F : ~Broken(s, f)

-----------------------------------------------------------------------------
(***************************************************************************)
(* Pivots and updates.                                                     *)
(***************************************************************************)
Sum(r, q, k) == [x \in DOMAIN r |-> r[x] + k * q[x]]
Scaled(r, k) == [x \in DOMAIN r |-> k * r[x]]

\* The entries on which a pivot divides by one.
UnitAt(s, y, x) == s.tableau[y][x] \in {-1, 1}

\* Mutant: the entering column stays in the other rows.
PivotOneRow(s, x, y) ==
  LET entering == Scaled(s.tableau[y], -s.tableau[y][x])
  IN  [s EXCEPT !.tableau =
        [z \in (Basic(s) \ {y}) \cup {x} |->
           IF z = x THEN entering ELSE s.tableau[z]]]

\* x enters the basis and y leaves it.
Pivot(s, x, y) ==
  LET entering == Scaled(s.tableau[y], -s.tableau[y][x])
  IN  [s EXCEPT !.tableau =
        [z \in (Basic(s) \ {y}) \cup {x} |->
           IF z = x THEN entering
           ELSE Sum(s.tableau[z], entering, s.tableau[z][x])]]

\* update(), without a look at the partner.
Update(s, x, v) ==
  [s EXCEPT !.assignment =
     [z \in Var |-> IF z = x THEN v
                    ELSE IF z \in Basic(s)
                    THEN @[z] + (v - @[x]) * s.tableau[z][x]
                    ELSE @[z]]]

\* update(), which also repairs the pair when both its variables are non-basic.
UpdateBoth(s, x, v) ==
  LET t == Update(s, x, v)
  IN  IF v # s.assignment[x] /\ IsRelu(x) /\ NonBasic(s, Partner(x)) /\ Broken(t, PairOf(x))
      THEN Update(t, Partner(x), IF x \notin F /\ v < 0 THEN 0 ELSE v)
      ELSE t

\* A non-basic variable follows its bound.
Follow(s, x, v) == IF NonBasic(s, x) /\ OutOfBounds(s, x) THEN Update(s, x, v) ELSE s

\* Mutant: the sign of the coefficient is not looked at.
PivotCandidatesUnsigned(s, y, increase) ==
  {x \in Var \ {y} : s.tableau[y][x] # 0 /\ IF increase THEN CanIncrease(s, x) ELSE CanDecrease(s, x)}

PivotCandidates(s, y, increase) ==
  {x \in Var \ {y} :
     LET positive == s.tableau[y][x] > 0
     IN  /\ s.tableau[y][x] # 0
         /\ IF increase = positive THEN CanIncrease(s, x) ELSE CanDecrease(s, x)}

-----------------------------------------------------------------------------
(***************************************************************************)
(* Updates of bounds.  An outcome is a state and the exception thrown.     *)
(***************************************************************************)
Ok(s) == [state |-> s, thrown |-> "NONE"]
Violation(s) == [state |-> s, thrown |-> "VIOLATION"]
CantMakeNonBasic(s) == [state |-> s, thrown |-> "ERROR"]
Contradictory(s, X) == \E x \in X : s.lower[x] > s.upper[x]

MadeNonBasic(s, y, forbidden) ==
  IF NonBasic(s, y) THEN {s}
  ELSE {Pivot(s, x, y) : x \in {z \in Var \ {y, forbidden} : UnitAt(s, y, z)}}

Within(s, x) ==
  IF TooLow(s, x) THEN Update(s, x, s.lower[x])
  ELSE IF TooHigh(s, x) THEN Update(s, x, s.upper[x]) ELSE s

\* Mutant: the column of b is erased, not added.
MergeColumnsErasing(s, f) ==
  LET t == Update(s, B[f], s.assignment[f])
  IN  [t EXCEPT !.tableau = [y \in Basic(t) |-> [t.tableau[y] EXCEPT ![B[f]] = 0]],
                !.dissolved[f] = "MERGE"]

\* Mutant: the column of b stays.
MergeColumnsKeepingB(s, f) ==
  LET t == Update(s, B[f], s.assignment[f])
  IN  [t EXCEPT
        !.tableau = [y \in Basic(t) |-> [t.tableau[y] EXCEPT ![f] = @ + t.tableau[y][B[f]]]],
        !.dissolved[f] = "MERGE"]

\* b takes the value of f, and its column is added to that of f.
MergeColumns(s, f) ==
  LET t == Update(s, B[f], s.assignment[f])
  IN  [t EXCEPT
        !.tableau = [y \in Basic(t) |->
           [t.tableau[y] EXCEPT ![f] = @ + t.tableau[y][B[f]], ![B[f]] = 0]],
        !.dissolved[f] = "MERGE"]

\* Mutant: f keeps a value out of its bounds when it leaves the basis.
MergeNonBasicAnywhere(s, f) == MergeColumns(s, f)

\* b and f are non-basic, f possibly out of its bounds.
MergeNonBasic(s, f) == MergeColumns(Within(s, f), f)

\* First b, then f is made non-basic.
UnifyReluPair(s, f) ==
  IF ColumnEmpty(s, B[f]) THEN {Ok(s)}
  ELSE LET withoutB == MadeNonBasic(s, B[f], f)
           merged(t) == LET apart == MadeNonBasic(t, f, B[f])
                        IN  IF apart = {} THEN {CantMakeNonBasic(t)}
                            ELSE {Ok(MergeNonBasic(u, f)) : u \in apart}
       IN  IF withoutB = {} THEN {CantMakeNonBasic(s)}
           ELSE UNION {merged(t) : t \in withoutB}

UpdateUpperBound(s, x, v) ==
  LET f == PairOf(x)
  IN  IF ~ActiveRelu(s, x) \/ (v < 0 /\ x \in F)
      THEN LET t == [s EXCEPT !.upper[x] = v]
           IN  IF Contradictory(t, {x}) THEN {Violation(t)} ELSE {Ok(Follow(t, x, v))}
      ELSE IF v > 0
      THEN LET t == [s EXCEPT !.upper[x] = v, !.upper[Partner(x)] = v]
           IN  IF Contradictory(t, {x, Partner(x)}) THEN {Violation(t)}
               ELSE {Ok(Follow(Follow(t, x, v), Partner(x), v))}
      ELSE LET t == [s EXCEPT !.upper[f] = 0, !.upper[B[f]] = v, !.dissolved[f] = "SPLIT"]
           IN  IF Contradictory(t, {f, B[f]}) THEN {Violation(t)}
               ELSE {Ok(Follow(Follow(t, B[f], v), f, 0))}

UpdateLowerBound(s, x, v) ==
  IF ~ActiveRelu(s, x) \/ v < 0
  THEN LET t == [s EXCEPT !.lower[x] = v]
       IN  IF Contradictory(t, {x}) THEN {Violation(t)} ELSE {Ok(Follow(t, x, v))}
  ELSE LET t == [s EXCEPT !.lower[x] = v, !.lower[Partner(x)] = v]
       IN  IF Contradictory(t, {x, Partner(x)}) THEN {Violation(t)}
           ELSE UnifyReluPair(Follow(Follow(t, x, v), Partner(x), v), PairOf(x))

-----------------------------------------------------------------------------
(***************************************************************************)
(* Initialization and the elimination of auxiliary variables.              *)
(***************************************************************************)
NoBackup == [keep |-> FALSE]
NoLp == [slacks |-> {}]
LastVariable == index = NumVariables - 1
NextIndex == index' = IF LastVariable THEN 0 ELSE index + 1

Init ==
  /\ \E q \in Queries :
       st = [tableau |-> Equations, assignment |-> [x \in Var |-> 0],
             lower |-> q.lower, upper |-> q.upper, dissolved |-> [f \in F |-> Active]]
  /\ preprocessed = st
  /\ eliminated = {}
  /\ lp = NoLp
  /\ backup = NoBackup
  /\ index = 0
  /\ pc = "initializing"

InitialUpdate ==
  /\ pc = "initializing"
  /\ IF Contradictory(st, {index})
     THEN pc' = "conflict" /\ UNCHANGED <<st, index>>
     ELSE /\ st' = IF NonBasic(st, index) /\ OutOfBounds(st, index)
                   THEN UpdateBoth(st, index, Within(st, index).assignment[index])
                   ELSE st
          /\ NextIndex
          /\ pc' = IF LastVariable THEN "eliminating" ELSE pc
  /\ UNCHANGED <<preprocessed, eliminated, lp, backup>>

FixedAtZero(s, y) == s.lower[y] = 0 /\ s.upper[y] = 0

EraseColumn(s, x) == [s EXCEPT !.tableau = [y \in Basic(s) |-> [@[y] EXCEPT ![x] = 0]]]

\* The states to which the elimination of y may lead.
Eliminated(s, y) ==
  LET increase   == TooLow(s, y)
      target     == IF increase THEN s.lower[y] ELSE s.upper[y]
      candidates == PivotCandidates(s, y, increase)
      moved(x)   == Update(Pivot(s, x, y), y, target)
  IN  IF candidates = {} THEN {s}
      ELSE {IF FixedAtZero(s, y) THEN EraseColumn(moved(x), y) ELSE moved(x) :
              x \in {z \in candidates : UnitAt(s, y, z)}}

\* The last variable is followed by storePreprocessedMatrix().
EliminateAux ==
  /\ pc = "eliminating"
  /\ st' \in IF index \in Aux THEN Eliminated(st, index) ELSE {st}
  /\ eliminated' = IF index \in Aux /\ NonBasic(st', index) /\ FixedAtZero(st', index)
                   THEN eliminated \cup {index} ELSE eliminated
  /\ NextIndex
  /\ IF LastVariable THEN preprocessed' = st' /\ pc' = "loop" ELSE UNCHANGED <<preprocessed, pc>>
  /\ UNCHANGED <<lp, backup>>

-----------------------------------------------------------------------------
(***************************************************************************)
(* The main loop.                                                          *)
(***************************************************************************)
After(o, next) == IF o.thrown = "NONE" THEN next
                  ELSE IF o.thrown = "VIOLATION" THEN "conflict" ELSE "error"

MergedB(s, x) == IsB(x) /\ s.dissolved[PairOf(x)] = "MERGE"

Tighter(s, x, side, v) == IF side = "lower" THEN v > s.lower[x] ELSE v < s.upper[x]
SetBound(s, x, side, v) ==
  IF side = "lower" THEN UpdateLowerBound(s, x, v) ELSE UpdateUpperBound(s, x, v)

\* A decision, a bound found on a row or one that the LP solver left.
UpdateBound ==
  /\ pc = "loop"
  /\ \E u \in Updates :
       /\ Tighter(st, u.var, u.side, u.val) /\ ~MergedB(st, u.var)
       /\ \E o \in SetBound(st, u.var, u.side, u.val) :
            st' = o.state /\ pc' = After(o, "loop")
  /\ UNCHANGED <<preprocessed, eliminated, lp, backup, index>>

SatFound ==
  /\ pc = "loop" /\ AllVarsWithinBounds(st) /\ AllRelusHold(st)
  /\ pc' = "sat"
  /\ UNCHANGED <<st, preprocessed, eliminated, lp, backup, index>>

Movable(s, x, v) == NonBasic(s, x) \/ PivotCandidates(s, x, v > s.assignment[x]) # {}

\* The states in which x has been given the value v.
FixBrokenReluVariable(s, x, v) ==
  IF NonBasic(s, x) THEN {Update(s, x, v)}
  ELSE {Update(Pivot(s, z, x), x, v) :
          z \in {w \in PivotCandidates(s, x, v > s.assignment[x]) : UnitAt(s, x, w)}}

\* What f should be.
ReluOf(s, f) == IF s.assignment[B[f]] > 0 THEN s.assignment[B[f]] ELSE 0

\* b first, and f only if b cannot be moved.
FixBrokenRelu(f) ==
  /\ pc = "loop" /\ AllVarsWithinBounds(st) /\ Broken(st, f)
  /\ IF Movable(st, B[f], st.assignment[f])
     THEN st' \in FixBrokenReluVariable(st, B[f], st.assignment[f]) /\ UNCHANGED pc
     ELSE IF Movable(st, f, ReluOf(st, f))
     THEN st' \in FixBrokenReluVariable(st, f, ReluOf(st, f)) /\ UNCHANGED pc
     ELSE pc' = "infeasible" /\ UNCHANGED st
  /\ UNCHANGED <<preprocessed, eliminated, lp, backup, index>>

-----------------------------------------------------------------------------
(***************************************************************************)
(* The LP that GlpkWrapper::run() states, and what is taken from its       *)
(* answer.  Each row of the tableau is one of the LP; for each active pair *)
(* there is one more, of a slack variable for f - b, unless two failures   *)
(* in a row have given them up for this time.  The solver works on a table *)
(* of its own; only the basis and the values of a solution come back.      *)
(***************************************************************************)
ActivePairs(s) == {f \in F : s.dissolved[f] = Active}
MergedPairs(s) == {f \in F : s.dissolved[f] = "MERGE"}
Slack(f) == NumVariables + f
LpVar == Var \cup {Slack(f) : f \in F}

\* The variables that addColumns() gives a column to.
LpColumns(s) == {x \in Var \ eliminated : NonBasic(s, x) /\ ~MergedB(s, x)}

\* x in terms of the columns, or its own column if it has one.
InColumns(s, x) ==
  [z \in LpVar |-> IF NonBasic(s, x) THEN IF z = x THEN 1 ELSE 0
                   ELSE IF z \in Var \ {x} THEN s.tableau[x][z] ELSE 0]

Unit(x) == [z \in LpVar |-> IF z = x THEN 1 ELSE 0]
Solved(r, x) == Sum(r, Unit(x), -1)
SlackRow(s, f) == Solved(Sum(InColumns(s, f), InColumns(s, B[f]), -1), Slack(f))

LpTable(s, slacks) ==
  [y \in Basic(s) \cup {Slack(f) : f \in slacks} |->
     IF y \in Var THEN Solved(InColumns(s, y), y) ELSE SlackRow(s, y - NumVariables)]

LpLower(z) == IF z \in Var THEN st.lower[z] ELSE 0

\* Mutant: the slack is bounded by the upper bound of b.
LpUpperOfB(z) == IF z \in Var THEN st.upper[z]
                 ELSE LET f == z - NumVariables IN st.upper[f] - st.upper[B[f]]

LpUpper(z) == IF z \in Var THEN st.upper[z]
              ELSE LET f == z - NumVariables IN st.upper[f] - st.lower[B[f]]

Calculated(s) ==
  [s EXCEPT !.assignment =
     [x \in DOMAIN @ |-> IF x \in Basic(s)
                         THEN Dot(s.tableau[x], @, DOMAIN @ \ {x}) ELSE @[x]]]

\* The assignments within the bounds that satisfy the rows; the integers decide
\* whether there are any, as coefficients are units and bounds are integers.
Feasible(s) ==
  LET free  == {x \in LpColumns(s) : s.lower[x] < s.upper[x]}
      range == UNION {s.lower[x]..s.upper[x] : x \in free}
      boxes == {a \in [free -> range] : \A x \in free : a[x] \in s.lower[x]..s.upper[x]}
      assigned(a) == Calculated([s EXCEPT !.assignment =
        [x \in Var |-> IF x \in free THEN a[x]
                       ELSE IF x \in LpColumns(s) THEN s.lower[x] ELSE @[x]]])
  IN  {t \in {assigned(a) : a \in boxes} : AllVarsWithinBounds(t)}

SlacksHold(t, slacks) ==
  \A f \in slacks :
    t.assignment[f] - t.assignment[B[f]] \in LpLower(Slack(f))..LpUpper(Slack(f))

FixOutOfBounds ==
  /\ pc = "loop" /\ ~AllVarsWithinBounds(st)
  /\ pc' = "solving"
  /\ \E slacks \in {{}, ActivePairs(st)} :
       lp' = [slacks |-> slacks, tableau |-> LpTable(st, slacks),
              feasible |-> \E t \in Feasible(st) : SlacksHold(t, slacks)]
  /\ UNCHANGED <<st, preprocessed, eliminated, backup, index>>

LpVariables == LpColumns(st) \cup Basic(st) \cup {Slack(f) : f \in lp.slacks}

LpPivot ==
  /\ pc = "solving"
  /\ \E y \in Basic(lp), x \in LpVariables :
       x # y /\ UnitAt(lp, y, x) /\ lp' = Pivot(lp, x, y)
  /\ UNCHANGED <<st, preprocessed, eliminated, backup, index, pc>>

\* The solutions that the solver may end with: non-basic variables of the LP,
\* slack variables included, are at a bound.
LpSolutions ==
  LET free == {z \in LpVariables : NonBasic(lp, z) /\ LpLower(z) < LpUpper(z)}
      at(high) == Calculated([tableau |-> lp.tableau, assignment |->
                    [z \in LpVariables |-> IF z \in high THEN LpUpper(z) ELSE LpLower(z)]])
  IN  {a \in {at(high).assignment : high \in SUBSET free} :
         \A z \in LpVariables : a[z] \in LpLower(z)..LpUpper(z)}

\* The variables that may leave the basis for x.
Leaving(s, x, basics) ==
  IF x \in basics \ Basic(s) THEN {y \in Basic(s) \ basics : UnitAt(s, y, x)} ELSE {}

\* The LP has more basic variables than the tableau has rows, so that some
\* find no variable to leave for them and stay non-basic, between their bounds.
AdjustedTo(s, basics) ==
  LET enter(states, x) ==
        UNION {IF Leaving(t, x, basics) = {} THEN {t}
               ELSE {Pivot(t, x, y) : y \in Leaving(t, x, basics)} : t \in states}
  IN  FoldLeft(enter, {s}, [i \in 1..NumVariables |-> i - 1])

\* Mutant: the values of variables that have been basic are not taken over.
ExtractedColumns(a) ==
  {Calculated([t EXCEPT !.assignment =
     [x \in Var |-> IF x \in LpColumns(st) THEN a[x] ELSE @[x]]]) :
       t \in AdjustedTo(st, Basic(lp) \cap Var)}

Extracted(a) ==
  {Calculated([t EXCEPT !.assignment =
     [x \in Var |-> IF x \in LpVariables THEN a[x] ELSE @[x]]]) :
       t \in AdjustedTo(st, Basic(lp) \cap Var)}

LpSolutionFound ==
  /\ pc = "solving"
  /\ \E a \in LpSolutions : st' \in Extracted(a)
  /\ pc' = IF AllVarsWithinBounds(st') THEN "loop" ELSE "rejected"
  /\ lp' = NoLp
  /\ UNCHANGED <<preprocessed, eliminated, backup, index>>

LpNoSolution ==
  /\ pc = "solving" /\ ~lp.feasible
  /\ pc' = "refuted"
  /\ lp' = NoLp
  /\ UNCHANGED <<st, preprocessed, eliminated, backup, index>>

-----------------------------------------------------------------------------
(***************************************************************************)
(* The restoration: the stored tableau, then the current bounds asserted   *)
(* one by one, then, if asked for, the current basis.                      *)
(***************************************************************************)
\* The LP solver failed, or its solution is out of bounds; or, at the head of
\* progress(), the degradation is too large.
Restore ==
  /\ pc \in {"loop", "solving", "rejected"}
  /\ \E keep \in KeepBasics :
       /\ pc = "loop" => keep
       /\ backup' = [keep |-> keep, basics |-> Basic(st), lower |-> st.lower,
                     upper |-> st.upper, dissolved |-> st.dissolved]
  /\ st' = preprocessed
  /\ lp' = NoLp
  /\ index' = 0
  /\ pc' = "restoring"
  /\ UNCHANGED <<preprocessed, eliminated>>

\* The backup's bound of x on this side, asserted where nothing was thrown.
Asserted(outcomes, x, side) ==
  LET v == IF side = "lower" THEN backup.lower[x] ELSE backup.upper[x]
  IN  UNION {IF o.thrown = "NONE" /\ Tighter(o.state, x, side, v)
             THEN SetBound(o.state, x, side, v) ELSE {o} : o \in outcomes}

Reasserted(s, x) ==
  IF ~ActiveRelu(s, x) THEN Asserted(Asserted({Ok(s)}, x, "lower"), x, "upper")
  ELSE IF x \notin F THEN {Ok(s)}
  ELSE CASE backup.dissolved[x] = Active ->
              Asserted(Asserted({Ok(s)}, x, "upper"), B[x], "lower")
         [] backup.dissolved[x] = "SPLIT" ->
              Asserted(Asserted({Ok(s)}, B[x], "upper"), B[x], "lower")
         [] OTHER ->
              Asserted(Asserted(Asserted({Ok(s)}, B[x], "lower"), x, "lower"), x, "upper")

Reassert ==
  /\ pc = "restoring"
  /\ \E o \in Reasserted(st, index) :
       LET next == IF ~LastVariable THEN "restoring" ELSE IF backup.keep THEN "adjusting" ELSE "loop"
       IN  st' = o.state /\ pc' = After(o, next)
  /\ NextIndex
  /\ backup' = IF pc' \in {"restoring", "adjusting"} THEN backup ELSE NoBackup
  /\ UNCHANGED <<preprocessed, eliminated, lp>>

\* The variable that left the basis is brought within its bounds, and its pair
\* repaired if both are non-basic.  The index of b is tested, not its value.
Enforced(s, x) ==
  LET t == Within(s, x)
      f == PairOf(x)
  IN  IF ActiveRelu(t, x) /\ Broken(t, f) /\ NonBasic(t, f) /\ NonBasic(t, B[f])
      THEN Update(t, f, IF B[f] > 0 THEN t.assignment[B[f]] ELSE 0)
      ELSE t

AdjustBasic ==
  /\ pc = "adjusting"
  /\ IF Leaving(st, index, backup.basics) = {} THEN UNCHANGED st
     ELSE \E y \in Leaving(st, index, backup.basics) : st' = Enforced(Pivot(st, index, y), y)
  /\ NextIndex
  /\ IF LastVariable THEN pc' = "loop" /\ backup' = NoBackup ELSE UNCHANGED <<pc, backup>>
  /\ UNCHANGED <<preprocessed, eliminated, lp>>

Next ==
  \/ InitialUpdate \/ EliminateAux
  \/ UpdateBound \/ SatFound
  \/ \E f \in F : FixBrokenRelu(f)
  \/ FixOutOfBounds \/ LpPivot \/ LpSolutionFound \/ LpNoSolution
  \/ Restore \/ Reassert \/ AdjustBasic

Spec == Init /\ [][Next]_vars

-----------------------------------------------------------------------------
(***************************************************************************)
(* Properties.                                                             *)
(***************************************************************************)
\* A merged b is read as its f.
Value(s, x) == IF MergedB(s, x) THEN s.assignment[PairOf(x)] ELSE s.assignment[x]

\* The tableau is in tableau form: a basic variable has its own row, -1 there
\* and no other entry in its column; all entries are -1, 0 or 1.
TableauForm ==
  \A s \in {st, preprocessed} :
    /\ \A y \in Basic(s) :
         /\ s.tableau[y] \in [Var -> {-1, 0, 1}]
         /\ \A z \in Basic(s) : s.tableau[z][y] = IF z = y THEN -1 ELSE 0
    /\ s.assignment \in [Var -> Int]
    /\ s.dissolved \in [F -> {Active, "SPLIT", "MERGE"}]

\* Every pivot, update, merge, elimination, LP solution and restoration leaves
\* an assignment that satisfies the rows of the tableau and the equations that
\* the query began with.
EquationsHold ==
  /\ \A y \in Basic(st) : Dot(st.tableau[y], st.assignment, Var) = 0
  /\ \A y \in Aux : Dot(Equations[y], [x \in Var |-> Value(st, x)], Var) = 0

\* Only basic variables can be out of bounds: what allVarsWithinBounds() and
\* findOutOfBounds() rely on when they look at no others.  It holds between the
\* steps of a restoration as well, but not for a basis of the LP solver before
\* its assignment is taken over, nor after an error.
NonBasicInBounds ==
  pc \notin {"initializing", "solving", "conflict", "error"} =>
    \A x \in Var : NonBasic(st, x) => ~OutOfBounds(st, x)

\* What solve() accepts as SAT is a solution: every variable is within its
\* bounds, every pair holds, the dissolved ones too, and so do the equations.
AcceptedIsSolution ==
  pc = "sat" =>
    /\ \A x \in Var : Value(st, x) \in st.lower[x]..st.upper[x]
    /\ \A f \in F : Value(st, f) = IF Value(st, B[f]) > 0 THEN Value(st, B[f]) ELSE 0
    /\ EquationsHold

\* What fixBrokenRelu() or the LP solver, with or without slack variables, gives
\* up has no solution: no assignment within the bounds that satisfies the rows
\* repairs the pair that could not be moved, or satisfies all active pairs.
RefutationsRight ==
  LET holds(t, f) == t.assignment[f] = ReluOf(t, f)
  IN  /\ pc = "infeasible" =>
           \E f \in F : Broken(st, f) /\ \A t \in Feasible(st) : ~holds(t, f)
      /\ pc = "refuted" =>
           \A t \in Feasible(st) : \E f \in ActivePairs(st) : ~holds(t, f)

\* Whenever the LP may be stated, it is that of the tableau: addColumns() fills
\* as many columns as it has asked for, since no variable is counted twice among
\* the basic, the eliminated and the merged ones, and every entry of a row has a
\* column, also of a variable that a merge or an elimination took away.
LpWellFormed ==
  pc = "loop" =>
    /\ Cardinality(LpColumns(st)) =
         NumVariables - Cardinality(Basic(st)) - Cardinality(eliminated)
                      - Cardinality(MergedPairs(st))
    /\ \A y \in Basic(st) : \A x \in Var \ {y} :
         st.tableau[y][x] # 0 => x \in LpColumns(st)

\* A solution of the LP solver is never out of bounds once it has been taken
\* over, whatever pivots could be found towards its basis: where the code finds
\* it to be ("This rarely happens"), rounding is the only reason.
LpSolutionKept == pc # "rejected"
=============================================================================
