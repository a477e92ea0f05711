------------------------------- MODULE Bounds -------------------------------
(***************************************************************************)
(* The variable bounds of Reluplex and the dissolution of ReLU pairs: every*)
(* bound carries the level of the last decision it depends on, updating a  *)
(* bound of an active pair (b, f) updates its partner too and may dissolve *)
(* the pair, a decision saves all bounds and a pop brings them back, and a *)
(* failure of the LP solver rebuilds them from the preprocessed ones.      *)
(*                                                                         *)
(* Bounds are learned from the rows of the tableau.  Which bounds those    *)
(* are is abstracted to what makes them sound: a bound learned at level l  *)
(* follows from the bounds in force with levels up to l.  The solutions of *)
(* the query are a ghost that only this condition and the LP solver's      *)
(* answers read.  All arithmetic is exact, and no value is rounded.        *)
(***************************************************************************)
EXTENDS Integers, Sequences

CONSTANTS
  NumVariables,    \* _numVariables; a variable is its index
  F,               \* the f variables of the pairs, which name the pairs
  B,               \* the b variable of a pair
  Values,          \* the values of bounds and assignments considered
  Preprocessed,    \* the bounds and dissolved pairs before the main loop
  UseConflictAnalysis, \* _useConflictAnalysis: backjump or not
  Queries          \* the sets of solutions considered

Var == 0..NumVariables - 1
Phase == {"SPLIT", "MERGE"}
Active == "ACTIVE"
Opposite(p) == IF p = "SPLIT" THEN "MERGE" ELSE "SPLIT"
NoConflict == -1

Bound == [val : Int, level : Nat]
State == [lower : [Var -> Bound], upper : [Var -> Bound],
          dissolved : [F -> Phase \cup {Active}]]
Entry == [var : F, type : Phase, first : BOOLEAN, saved : State]
Assignments == [Var -> Values]

(***************************************************************************)
(* The callers number the variables layer by layer, b before f.  A lower   *)
(* bound of f is never negative, a pair is split only with f at zero, and  *)
(* a contradiction of the initial bounds is found before the main loop.    *)
(***************************************************************************)
ASSUME BoundsAssumption ==
  /\ NumVariables \in Nat
  /\ F \subseteq Var
  /\ B \in [F -> Var \ F]
  /\ \A f, g \in F : B[f] = B[g] => f = g
  /\ \A f \in F : B[f] < f
  /\ Values \subseteq Int
  /\ Preprocessed \subseteq State
  /\ \A st \in Preprocessed : \A f \in F :
       /\ st.lower[f].val >= 0
       /\ st.dissolved[f] = "SPLIT" => st.upper[f].val <= 0
  /\ \A st \in Preprocessed : \A x \in Var :
       /\ st.lower[x].level = 0 /\ st.upper[x].level = 0
       /\ st.lower[x].val <= st.upper[x].val
  /\ UseConflictAnalysis \in BOOLEAN
  /\ Queries \subseteq SUBSET Assignments

(***************************************************************************)
(* Before the main loop the bounds of a pair went through the same updates:*)
(* f has the callers' lower bound zero until a bound of b dissolves the    *)
(* pair; a pair is merged by a lower bound that is not negative, and the   *)
(* merged f obeys the bounds that b had.                                   *)
(***************************************************************************)
ASSUME InitialPairs ==
  \A st \in Preprocessed : \A f \in F :
    /\ st.dissolved[f] = Active =>
         /\ st.lower[f].val = 0 /\ st.lower[B[f]].val < 0
         /\ st.upper[f].val > 0 /\ st.upper[B[f]].val = st.upper[f].val
    /\ st.dissolved[f] = "SPLIT" => st.upper[B[f]].val <= 0
    /\ st.dissolved[f] = "MERGE" => /\ 0 <= st.lower[B[f]].val
                                   /\ st.lower[B[f]].val <= st.lower[f].val
                                   /\ st.upper[f].val <= st.upper[B[f]].val

VARIABLES
  solutions,         \* ghost: solutions of the query
  preprocessed,      \* _preprocessedLowerBounds, ...UpperBounds, ...DissolvedRelus
  current,           \* _lowerBounds, _upperBounds, _dissolvedReluVariables
  stack,             \* SmtCore::_stack
  currentStackDepth, \* _currentStackDepth
  pc,                \* "loop", "learning" bounds from the LP solver,
                     \* "restoring", "popping", "done"
  violatingLevel,    \* the argument of the pop in progress
  status,            \* _finalStatus
  backup,            \* the bounds when the LP solver ran, or when the
                     \* restoration began; current otherwise
  index              \* the variable that the restoration has come to

vars == <<solutions, preprocessed, current, stack, currentStackDepth, pc,
          violatingLevel, status, backup, index>>

-----------------------------------------------------------------------------
(***************************************************************************)
(* Reading bounds and pairs.                                               *)
(***************************************************************************)
IsB(x) == \E f \in F : B[f] = x
PairOf(x) == IF x \in F THEN x ELSE CHOOSE f \in F : B[f] = x
Partner(x) == IF x \in F THEN B[x] ELSE PairOf(x)

ActiveReluVariable(st, x) ==
  (x \in F \/ IsB(x)) /\ st.dissolved[PairOf(x)] = Active

\* b has been replaced by f in every row: its column is empty.
MergedB(st, x) == IsB(x) /\ st.dissolved[PairOf(x)] = "MERGE"

BoundInvariantHolds(st, x) == st.lower[x].val <= st.upper[x].val

\* Mutant: the earlier of the two levels.
ViolatingLevelEarlier(st, x) ==
  IF st.lower[x].level >= st.upper[x].level THEN st.upper[x].level
                                            ELSE st.lower[x].level

\* The level of a violation at x.
ViolatingLevel(st, x) ==
  IF st.lower[x].level >= st.upper[x].level THEN st.lower[x].level
                                            ELSE st.upper[x].level

(***************************************************************************)
(* Updating a bound.  An outcome is the state and the level of the         *)
(* InvariantViolationError thrown, if one was; it is thrown for the first  *)
(* of the given variables whose bounds contradict each other.              *)
(***************************************************************************)
Outcome(st, x, y) ==
  [state |-> st,
   conflict |-> IF ~BoundInvariantHolds(st, x) THEN ViolatingLevel(st, x)
                ELSE IF ~BoundInvariantHolds(st, y) THEN ViolatingLevel(st, y)
                ELSE NoConflict]

WithLower(st, S, v, l) ==
  [lower |-> [x \in Var |-> IF x \in S THEN [val |-> v, level |-> l]
                                       ELSE st.lower[x]],
   upper |-> st.upper,
   dissolved |-> st.dissolved]

WithUpper(st, S, v, l) ==
  [lower |-> st.lower,
   upper |-> [x \in Var |-> IF x \in S THEN [val |-> v, level |-> l]
                                       ELSE st.upper[x]],
   dissolved |-> st.dissolved]

Dissolve(st, f, p) ==
  [lower |-> st.lower,
   upper |-> st.upper,
   dissolved |-> [st.dissolved EXCEPT ![f] = p]]

\* Mutant: a pair split by a bound of b leaves the bound of f alone.
UpdateUpperBoundOnlyB(st, x, v, l) ==
  IF ~ActiveReluVariable(st, x) \/ (v < 0 /\ x \in F)
  THEN Outcome(WithUpper(st, {x}, v, l), x, x)
  ELSE IF v > 0
  THEN Outcome(WithUpper(st, {x, Partner(x)}, v, l), x, Partner(x))
  ELSE LET f == PairOf(x)
           split == Dissolve(WithUpper(st, {x}, v, l), f, "SPLIT")
       IN  Outcome(split, B[f], f)

UpdateUpperBound(st, x, v, l) ==
  IF ~ActiveReluVariable(st, x) \/ (v < 0 /\ x \in F)
  THEN Outcome(WithUpper(st, {x}, v, l), x, x)
  ELSE IF v > 0
  THEN Outcome(WithUpper(st, {x, Partner(x)}, v, l), x, Partner(x))
  ELSE LET f == PairOf(x)
           split == Dissolve(WithUpper(WithUpper(st, {f}, 0, l), {B[f]}, v, l),
                             f, "SPLIT")
       IN  Outcome(split, B[f], f)

\* The merge happens only when the new bounds do not contradict the old ones.
UpdateLowerBound(st, x, v, l) ==
  IF ~ActiveReluVariable(st, x) \/ v < 0
  THEN Outcome(WithLower(st, {x}, v, l), x, x)
  ELSE LET raised == Outcome(WithLower(st, {x, Partner(x)}, v, l), x, Partner(x))
       IN  IF raised.conflict = NoConflict
           THEN [state |-> Dissolve(raised.state, PairOf(x), "MERGE"),
                 conflict |-> NoConflict]
           ELSE raised

\* Mutant: the level of the decision before.
DecidedBelow(st, f, p, l) ==
  IF p = "SPLIT" THEN UpdateUpperBound(st, f, 0, l - 1)
                 ELSE UpdateLowerBound(st, f, 0, l - 1)

\* The update of a decision: f is bounded by zero from above or from below.
Decided(st, f, p, l) ==
  IF p = "SPLIT" THEN UpdateUpperBound(st, f, 0, l) ELSE UpdateLowerBound(st, f, 0, l)

-----------------------------------------------------------------------------
(***************************************************************************)
(* What bounds and decisions say about a solution.                         *)
(***************************************************************************)
Fits(s, f, p) == IF p = "SPLIT" THEN s[B[f]] <= 0 ELSE s[B[f]] >= 0

Agrees(s, k) == \A i \in 1..k : Fits(s, stack[i].var, stack[i].type)

\* s obeys the bounds that depend on the first l decisions only.
Obeys(s, st, l) ==
  \A x \in Var : /\ st.lower[x].level <= l => st.lower[x].val <= s[x]
                 /\ st.upper[x].level <= l => s[x] <= st.upper[x].val

ReluHolds(s, f) == s[f] = IF s[B[f]] > 0 THEN s[B[f]] ELSE 0

IsSolution(s, st) ==
  /\ \A x \in Var : st.lower[x].val <= s[x] /\ s[x] <= st.upper[x].val
  /\ \A f \in F : ReluHolds(s, f)

(***************************************************************************)
(* What the main loop takes for a solution: nothing is out of bounds and   *)
(* the active pairs hold.  Of a merged pair it sees only f.                *)
(***************************************************************************)
Accepted(s) ==
  /\ \A x \in Var : ~MergedB(current, x) =>
       current.lower[x].val <= s[x] /\ s[x] <= current.upper[x].val
  /\ \A f \in F : current.dissolved[f] = Active => ReluHolds(s, f)
  /\ \A f \in F : current.dissolved[f] = "MERGE" => s[B[f]] = s[f]

-----------------------------------------------------------------------------
Init ==
  /\ preprocessed \in Preprocessed
  /\ solutions \in {S \in Queries : \A s \in S : IsSolution(s, preprocessed)}
  /\ current = preprocessed
  /\ stack = <<>>
  /\ currentStackDepth = 0
  /\ pc = "loop"
  /\ violatingLevel = 0
  /\ status = "NONE"
  /\ backup = preprocessed
  /\ index = 0

Stop(answer) ==
  /\ pc' = "done"
  /\ status' = answer

\* solve() answers a violation at level 0 at once, and pops for any other;
\* without conflict analysis it ignores the level.
StartPop(v) ==
  IF UseConflictAnalysis /\ v = 0
  THEN Stop("UNSAT") /\ UNCHANGED violatingLevel
  ELSE /\ pc' = "popping"
       /\ violatingLevel' = IF UseConflictAnalysis THEN v ELSE Len(stack')
       /\ UNCHANGED status

(***************************************************************************)
(* An update goes through, and the code after it continues at next; or it  *)
(* throws, which ends the call of progress() with the violating level.     *)
(***************************************************************************)
Apply(outcome, next) ==
  /\ current' = outcome.state
  /\ IF outcome.conflict = NoConflict
     THEN /\ pc' = next
          /\ backup' = IF next = "loop" THEN current' ELSE backup
          /\ UNCHANGED <<violatingLevel, status>>
     ELSE /\ StartPop(outcome.conflict)
          /\ backup' = current'

-----------------------------------------------------------------------------
(***************************************************************************)
(* Learning bounds from rows.  A lower (upper) bound v of x at level l     *)
(* follows from the bounds of st with levels up to l.  Merged b's occur in *)
(* no row.                                                                 *)
(***************************************************************************)
LowerFollows(st, x, v, l) ==
  ~MergedB(st, x) /\ \A s \in solutions : Obeys(s, st, l) => v <= s[x]

UpperFollows(st, x, v, l) ==
  ~MergedB(st, x) /\ \A s \in solutions : Obeys(s, st, l) => s[x] <= v

\* Mutant: a bound is taken over whether it is tighter or not.
TightenLowerUnchecked(x, v, l) ==
  /\ pc = "loop"
  /\ LowerFollows(current, x, v, l)
  /\ UNCHANGED <<solutions, preprocessed, stack, currentStackDepth, index>>
  /\ Apply(UpdateLowerBound(current, x, v, l), "loop")

\* tightenAllBounds learns bounds one by one, each from the bounds so far.
TightenLower(x, v, l) ==
  /\ pc = "loop"
  /\ v > current.lower[x].val
  /\ LowerFollows(current, x, v, l)
  /\ UNCHANGED <<solutions, preprocessed, stack, currentStackDepth, index>>
  /\ Apply(UpdateLowerBound(current, x, v, l), "loop")

TightenUpper(x, v, l) ==
  /\ pc = "loop"
  /\ v < current.upper[x].val
  /\ UpperFollows(current, x, v, l)
  /\ UNCHANGED <<solutions, preprocessed, stack, currentStackDepth, index>>
  /\ Apply(UpdateUpperBound(current, x, v, l), "loop")

(***************************************************************************)
(* The LP solver's pivots report rows, from which bounds are learned and   *)
(* stored (storeGlpkBoundTightening).  They are applied afterwards, lower  *)
(* bounds first, each kind in the order of the variables, to bounds that   *)
(* have changed in between.  The position counts the bounds passed.        *)
(***************************************************************************)
SolveLp ==
  /\ pc = "loop"
  /\ pc' = "learning"
  /\ backup' = current
  /\ index' = 0
  /\ UNCHANGED <<solutions, preprocessed, current, stack, currentStackDepth,
                 violatingLevel, status>>

ApplyStoredLower(x, v, l) ==
  /\ pc = "learning"
  /\ index <= x
  /\ v > backup.lower[x].val
  /\ LowerFollows(backup, x, v, l)
  /\ v > current.lower[x].val
  /\ UNCHANGED <<solutions, preprocessed, stack, currentStackDepth>>
  /\ Apply(UpdateLowerBound(current, x, v, l), "learning")
  /\ index' = x + 1

ApplyStoredUpper(x, v, l) ==
  /\ pc = "learning"
  /\ index <= NumVariables + x
  /\ v < backup.upper[x].val
  /\ UpperFollows(backup, x, v, l)
  /\ v < current.upper[x].val
  /\ UNCHANGED <<solutions, preprocessed, stack, currentStackDepth>>
  /\ Apply(UpdateUpperBound(current, x, v, l), "learning")
  /\ index' = NumVariables + x + 1

DoneLearning ==
  /\ pc = "learning"
  /\ pc' = "loop"
  /\ backup' = current
  /\ index' = 0
  /\ UNCHANGED <<solutions, preprocessed, current, stack, currentStackDepth,
                 violatingLevel, status>>

\* The LP solver finds no assignment within the bounds in force.
NoSolutionExists ==
  /\ pc = "loop"
  /\ \A s \in solutions : ~Obeys(s, current, Len(stack))
  /\ UNCHANGED <<solutions, preprocessed, current, stack, currentStackDepth,
                 backup, index>>
  /\ StartPop(currentStackDepth)

FoundSolution ==
  /\ pc = "loop"
  /\ \E s \in solutions : Accepted(s)
  /\ Stop("SAT")
  /\ UNCHANGED <<solutions, preprocessed, current, stack, currentStackDepth,
                 violatingLevel, backup, index>>

-----------------------------------------------------------------------------
(***************************************************************************)
(* restoreTableauFromBackup: back to the preprocessed bounds and pairs,    *)
(* then the bounds in force are asserted again, variable by variable.      *)
(***************************************************************************)
RestoreStart ==
  /\ pc = "loop"
  /\ pc' = "restoring"
  /\ backup' = current
  /\ current' = preprocessed
  /\ index' = 0
  /\ UNCHANGED <<solutions, preprocessed, stack, currentStackDepth,
                 violatingLevel, status>>

\* The next update of a sequence, unless an earlier one has thrown or the
\* bound would not be an improvement.
ThenLower(o, x) ==
  IF o.conflict # NoConflict \/ backup.lower[x].val <= o.state.lower[x].val
  THEN o
  ELSE UpdateLowerBound(o.state, x, backup.lower[x].val, backup.lower[x].level)

ThenUpper(o, x) ==
  IF o.conflict # NoConflict \/ backup.upper[x].val >= o.state.upper[x].val
  THEN o
  ELSE UpdateUpperBound(o.state, x, backup.upper[x].val, backup.upper[x].level)

\* The pair may have been broken by an earlier bound: f keeps its own level.
ThenUpperLevel(o, f) ==
  IF o.conflict # NoConflict
  THEN o
  ELSE [state |-> WithUpper(o.state, {f}, o.state.upper[f].val,
                            backup.upper[f].level),
        conflict |-> NoConflict]

\* Mutants: f keeps the level of b; a merged pair is left active.
ReassertedLevelOfB(x) ==
  LET o == [state |-> current, conflict |-> NoConflict]
  IN  IF ~ActiveReluVariable(current, x) THEN ThenUpper(ThenLower(o, x), x)
      ELSE IF x \notin F THEN o
      ELSE IF backup.dissolved[x] = Active THEN ThenLower(ThenUpper(o, x), B[x])
      ELSE IF backup.dissolved[x] = "SPLIT"
      THEN ThenLower(ThenUpper(o, B[x]), B[x])
      ELSE ThenUpper(ThenLower(ThenLower(o, B[x]), x), x)

ReassertedNotMerged(x) ==
  LET o == [state |-> current, conflict |-> NoConflict]
  IN  IF ~ActiveReluVariable(current, x) THEN ThenUpper(ThenLower(o, x), x)
      ELSE IF x \notin F THEN o
      ELSE IF backup.dissolved[x] = "SPLIT"
      THEN ThenLower(ThenUpperLevel(ThenUpper(o, B[x]), x), B[x])
      ELSE ThenUpper(o, x)

Reasserted(x) ==
  LET o == [state |-> current, conflict |-> NoConflict]
  IN  IF ~ActiveReluVariable(current, x) THEN ThenUpper(ThenLower(o, x), x)
      ELSE IF x \notin F THEN o
      ELSE IF backup.dissolved[x] = Active THEN ThenLower(ThenUpper(o, x), B[x])
      ELSE IF backup.dissolved[x] = "SPLIT"
      THEN ThenLower(ThenUpperLevel(ThenUpper(o, B[x]), x), B[x])
      ELSE ThenUpper(ThenLower(ThenLower(o, B[x]), x), x)

RestoreVariable ==
  /\ pc = "restoring"
  /\ index < NumVariables
  /\ UNCHANGED <<solutions, preprocessed, stack, currentStackDepth>>
  /\ Apply(Reasserted(index), "restoring")
  /\ index' = index + 1

RestoreDone ==
  /\ pc = "restoring"
  /\ index = NumVariables
  /\ pc' = "loop"
  /\ backup' = current
  /\ index' = 0
  /\ UNCHANGED <<solutions, preprocessed, current, stack, currentStackDepth,
                 violatingLevel, status>>

-----------------------------------------------------------------------------
(***************************************************************************)
(* Decisions and pops: what SmtCore does to the bounds.                    *)
(***************************************************************************)
DissolveReluOnVar(f, p) ==
  /\ pc = "loop"
  /\ current.dissolved[f] = Active
  /\ stack' = Append(stack, [var |-> f, type |-> p, first |-> TRUE,
                             saved |-> current])
  /\ LET o == Decided(current, f, p, Len(stack) + 1)
     IN  /\ Apply(o, "loop")
         /\ currentStackDepth' = IF o.conflict = NoConflict THEN Len(stack')
                                                            ELSE currentStackDepth
  /\ UNCHANGED <<solutions, preprocessed, index>>

Top == stack[Len(stack)]

\* The exception of a flip leaves pop() and the main loop: UNSAT.
PopFlip ==
  /\ pc = "popping"
  /\ stack # <<>>
  /\ Top.first
  /\ stack' = [stack EXCEPT ![Len(stack)] =
                 [var |-> Top.var, type |-> Opposite(Top.type), first |-> FALSE,
                  saved |-> Top.saved]]
  /\ LET o == Decided(Top.saved, Top.var, Opposite(Top.type), Len(stack))
     IN  /\ current' = o.state
         /\ backup' = o.state
         /\ IF o.conflict # NoConflict THEN Stop("UNSAT")
            ELSE /\ pc' = IF Len(stack) > violatingLevel THEN "popping" ELSE "loop"
                 /\ UNCHANGED status
  /\ index' = 0
  /\ UNCHANGED <<solutions, preprocessed, currentStackDepth, violatingLevel>>

PopDiscard ==
  /\ pc = "popping"
  /\ stack # <<>>
  /\ ~Top.first
  /\ stack' = SubSeq(stack, 1, Len(stack) - 1)
  /\ current' = Top.saved
  /\ backup' = Top.saved
  /\ currentStackDepth' = Len(stack) - 1
  /\ index' = 0
  /\ UNCHANGED <<solutions, preprocessed, pc, violatingLevel, status>>

PopEmpty ==
  /\ pc = "popping"
  /\ stack = <<>>
  /\ Stop("UNSAT")
  /\ UNCHANGED <<solutions, preprocessed, current, stack, currentStackDepth,
                 violatingLevel, backup, index>>

Terminated ==
  /\ pc = "done"
  /\ UNCHANGED vars

Levels == 0..Len(stack)

Tighten ==
  \E x \in Var, v \in Values, l \in Levels :
    \/ TightenLower(x, v, l)
    \/ TightenUpper(x, v, l)
    \/ ApplyStoredLower(x, v, l)
    \/ ApplyStoredUpper(x, v, l)

Next ==
  \/ Tighten
  \/ SolveLp
  \/ DoneLearning
  \/ NoSolutionExists
  \/ FoundSolution
  \/ RestoreStart
  \/ RestoreVariable
  \/ RestoreDone
  \/ \E f \in F, p \in Phase : DissolveReluOnVar(f, p)
  \/ PopFlip
  \/ PopDiscard
  \/ PopEmpty
  \/ Terminated

Spec == Init /\ [][Next]_vars

-----------------------------------------------------------------------------
(***************************************************************************)
(* Every variable holds a value of its C++ type.                           *)
(***************************************************************************)
TypeOK ==
  /\ solutions \subseteq Assignments
  /\ preprocessed \in State
  /\ current \in State
  /\ stack \in Seq(Entry)
  /\ currentStackDepth \in Nat
  /\ pc \in {"loop", "learning", "restoring", "popping", "done"}
  /\ violatingLevel \in Nat
  /\ status \in {"NONE", "SAT", "UNSAT"}
  /\ backup \in State
  /\ index \in Nat

(***************************************************************************)
(* A bound at level l holds in every solution that follows the first l     *)
(* decisions, and no level is beyond the stack.  This is what the levels   *)
(* are for: a conflict between two bounds refutes the later of the two.    *)
(***************************************************************************)
Justified(st, k) ==
  \A x \in Var :
    /\ st.lower[x].level <= k /\ st.upper[x].level <= k
    /\ \A s \in solutions :
         /\ Agrees(s, st.lower[x].level) => st.lower[x].val <= s[x]
         /\ Agrees(s, st.upper[x].level) => s[x] <= st.upper[x].val

BoundsJustified == Justified(current, Len(stack))

(***************************************************************************)
(* What the main loop accepts as a solution satisfies all ReLU pairs, also *)
(* the dissolved ones, and the bounds of the query: the bounds of a        *)
(* dissolved pair enforce the phase it was dissolved in.                   *)
(***************************************************************************)
AcceptedSound ==
  pc = "loop" => \A s \in Assignments : Accepted(s) => IsSolution(s, preprocessed)

(***************************************************************************)
(* The answer UNSAT is given only to queries without a solution.           *)
(***************************************************************************)
UnsatSound == status = "UNSAT" => solutions = {}

(***************************************************************************)
(* Asserting the bounds again, through the same updates that made them,    *)
(* reproduces them with their levels and the dissolved pairs, except for   *)
(* the bounds of merged b's: the debug check at the end of the restoration.*)
(***************************************************************************)
RestoreExact ==
  pc = "restoring" /\ index = NumVariables =>
    /\ current.dissolved = backup.dissolved
    /\ \A x \in Var : ~MergedB(current, x) =>
         /\ current.lower[x] = backup.lower[x]
         /\ current.upper[x] = backup.upper[x]

(***************************************************************************)
(* Learning only ever tightens bounds, although every update of an active  *)
(* pair overwrites the bounds of two variables after looking at one.       *)
(***************************************************************************)
Tighter(st, st0) ==
  \A x \in Var : /\ st.lower[x].val >= st0.lower[x].val
                 /\ st.upper[x].val <= st0.upper[x].val

LearningTightens ==
  pc \in {"loop", "learning"} /\ pc' # "restoring" => Tighter(current', current)

NeverLoosened == [][LearningTightens]_vars

(***************************************************************************)
(* Refinement.  The bounds justify what SmtCore deduces from them: pairs   *)
(* are dissolved in phases that the decisions imply, conflicts are reported*)
(* at levels that they refute, and a restoration is not visible.           *)
(***************************************************************************)
Kind(s) == [f \in F |-> {p \in Phase : Fits(s, f, p)}]

DissolvedSeen ==
  IF pc = "restoring" THEN backup.dissolved ELSE current.dissolved

Search == INSTANCE SmtCore WITH
  NumReluOperationsBeforeSplit <- 1,
  Queries <- SUBSET [F -> {{"SPLIT"}, {"MERGE"}, Phase}],
  ClosedPhases <- {},
  feasible <- {Kind(s) : s \in solutions},
  stack <- [i \in 1..Len(stack) |->
              [var |-> stack[i].var, type |-> stack[i].type,
               first |-> stack[i].first, saved |-> stack[i].saved.dissolved]],
  dissolved <- DissolvedSeen,
  fToViolations <- [f \in F |-> 0],
  pc <- IF pc \in {"popping", "done"} THEN pc ELSE "loop",
  quit <- FALSE

ImplementsSearch == Search!SafetySpec
=============================================================================
