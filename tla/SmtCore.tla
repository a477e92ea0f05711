------------------------------ MODULE SmtCore ------------------------------
(***************************************************************************)
(* The case-splitting search: class SmtCore (SmtCore.h) driven by the main *)
(* loop of Reluplex::solve and Reluplex::progress (Reluplex.h).            *)
(*                                                                         *)
(* The data that the search restores on a pop (bounds, tableau, basis and  *)
(* assignment) is abstracted to the phases of the dissolved pairs.  What   *)
(* the simplex, the bound tightening and the LP solver conclude from that  *)
(* data is a deduction about the query: they may conclude whatever follows *)
(* from the decisions on the stack, in any order, and nothing else.  The   *)
(* query is the ghost variable feasible, the kinds of its solutions: the   *)
(* phases of each pair that the solution fits, both where b = f = 0.  No   *)
(* step changes it or reads it except through such a deduction.            *)
(*                                                                         *)
(* Each iteration of SmtCore::pop()'s loop is a step of its own, because   *)
(* an exception can leave the loop in the middle.                          *)
(***************************************************************************)
EXTENDS Integers, Sequences

CONSTANTS
  F,                             \* the ReLU pairs, named by their f variable
  NumReluOperationsBeforeSplit,  \* violations of a pair before a decision on it
  UseConflictAnalysis,           \* _useConflictAnalysis: backjump or not
  Queries,                       \* the sets of kinds considered as queries
  ClosedPhases                   \* the <<f, phase>> that the bounds given by the
                                 \* caller contradict although the pair is active

Phase == {"SPLIT", "MERGE"}
Active == "ACTIVE"
Kinds == [F -> {{"SPLIT"}, {"MERGE"}, Phase}]
Opposite(p) == IF p = "SPLIT" THEN "MERGE" ELSE "SPLIT"

ASSUME SmtCoreAssumption ==
  /\ NumReluOperationsBeforeSplit \in Nat \ {0}
  /\ UseConflictAnalysis \in BOOLEAN
  /\ Queries \subseteq SUBSET Kinds
  /\ ClosedPhases \subseteq F \X Phase

VARIABLES
  feasible,          \* ghost: the kinds of the solutions
  stack,             \* _stack
  dissolved,         \* _dissolvedReluVariables; Active when absent
  fToViolations,     \* _fToViolations; 0 when absent
  currentStackDepth, \* _currentStackDepth, which Reluplex keeps beside the stack
  pc,                \* "loop" at the head of the main loop, "popping", "done"
  violatingLevel,    \* the argument of the pop in progress
  status,            \* _finalStatus
  quit               \* _quit, raised by the signal handler

vars == <<feasible, stack, dissolved, fToViolations, currentStackDepth, pc,
          violatingLevel, status, quit>>

Dissolutions == [F -> Phase \cup {Active}]
Entry == [var : F, type : Phase, first : BOOLEAN, saved : Dissolutions]

Top == stack[Len(stack)]
Running == pc = "loop" /\ ~quit
ActivePairs == {f \in F : dissolved[f] = Active}

\* A solution of kind s follows the first k decisions of the stack.
Agrees(s, k) == \A i \in 1..k : stack[i].type \in s[stack[i].var]

\* No solution follows the first k decisions: a conflict at level k is right.
Refuted(k) == \A s \in feasible : ~Agrees(s, k)

\* No solution follows the decisions below i and the other phase at i.
SiblingRefuted(i) ==
  \A s \in feasible : ~(/\ Agrees(s, i - 1)
                        /\ Opposite(stack[i].type) \in s[stack[i].var])

\* Every solution that follows the decisions fits phase p at f.
Implied(f, p) ==
  \A s \in feasible : Agrees(s, Len(stack)) => p \in s[f]

\* The level that a pop in progress goes to; an exception in the middle of a
\* decision can leave the remembered level above the stack.
PopTarget == IF violatingLevel < Len(stack) THEN violatingLevel ELSE Len(stack)

-----------------------------------------------------------------------------
(***************************************************************************)
(* The bounds computed before the main loop may have dissolved pairs.      *)
(***************************************************************************)
Init ==
  /\ feasible \in {S \in Queries : \A s \in S, f \in F, p \in Phase :
                                    p \in s[f] => <<f, p>> \notin ClosedPhases}
  /\ stack = <<>>
  /\ dissolved \in Dissolutions
  /\ \A f \in F \ ActivePairs :
       Implied(f, dissolved[f]) /\ <<f, dissolved[f]>> \notin ClosedPhases
  /\ fToViolations = [f \in F |-> 0]
  /\ currentStackDepth = 0
  /\ pc = "loop"
  /\ violatingLevel = 0
  /\ status = "NONE"
  /\ quit = FALSE

Stop(answer) ==
  /\ pc' = "done"
  /\ status' = answer

(***************************************************************************)
(* solve() calls _smtCore.pop(v), or _smtCore.pop() without conflict       *)
(* analysis; only the former looks at the level, and rejects level 0       *)
(* before it touches the stack.                                            *)
(***************************************************************************)
StartPop(v) ==
  IF UseConflictAnalysis /\ v = 0
  THEN Stop("UNSAT") /\ UNCHANGED violatingLevel
  ELSE /\ pc' = "popping"
       /\ violatingLevel' = IF UseConflictAnalysis THEN v ELSE Len(stack')
       /\ UNCHANGED status

(***************************************************************************)
(* The head of the main loop.                                              *)
(***************************************************************************)
FoundSolution ==
  /\ Running
  /\ \E s \in feasible : /\ Agrees(s, Len(stack))
                         /\ \A f \in F \ ActivePairs : dissolved[f] \in s[f]
  /\ Stop("SAT")
  /\ UNCHANGED <<feasible, stack, dissolved, fToViolations, currentStackDepth,
                 violatingLevel, quit>>

QuitLoop ==
  /\ pc = "loop"
  /\ quit
  /\ Stop("NOT_DONE")
  /\ UNCHANGED <<feasible, stack, dissolved, fToViolations, currentStackDepth,
                 violatingLevel, quit>>

(***************************************************************************)
(* An Error is thrown: too many consecutive failures of the LP solver, a   *)
(* variable that cannot be made non-basic for a merge (also for the merge  *)
(* that flips a decision in pop).  Nobody looks at what it leaves behind.  *)
(***************************************************************************)
ErrorThrown ==
  /\ Running \/ pc = "popping"
  /\ Stop("ERROR")
  /\ UNCHANGED <<feasible, stack, dissolved, fToViolations, currentStackDepth,
                 violatingLevel, quit>>

(***************************************************************************)
(* Bound tightening dissolves active pairs whose phase the decisions made  *)
(* so far imply.                                                           *)
(***************************************************************************)
LearnBounds ==
  /\ Running
  /\ \E D \in (SUBSET ActivePairs) \ {{}} : \E phase \in [D -> Phase] :
       /\ \A f \in D : Implied(f, phase[f]) /\ <<f, phase[f]>> \notin ClosedPhases
       /\ dissolved' = [f \in F |-> IF f \in D THEN phase[f] ELSE dissolved[f]]
  /\ UNCHANGED <<feasible, stack, fToViolations, currentStackDepth, pc,
                 violatingLevel, status, quit>>

\* Mutant: the level is taken from either bound instead of the later one.
BoundConflictAnyLevel(v) ==
  /\ Running
  /\ Refuted(v)
  /\ UNCHANGED <<feasible, stack, dissolved, fToViolations, currentStackDepth,
                 quit>>
  /\ \E u \in 0..v : StartPop(u)

(***************************************************************************)
(* A bound update finds a lower bound above an upper bound and reports the *)
(* level of the last decision they depend on.  An upper bound that is not  *)
(* positive has then marked its pair as dissolved already.                 *)
(***************************************************************************)
BoundConflict(v) ==
  /\ Running
  /\ Refuted(v)
  /\ \/ dissolved' = dissolved
     \/ \E f \in ActivePairs : dissolved' = [dissolved EXCEPT ![f] = "SPLIT"]
  /\ UNCHANGED <<feasible, stack, fToViolations, currentStackDepth, quit>>
  /\ StartPop(v)

(***************************************************************************)
(* The LP solver finds the current bounds infeasible: progress() returns   *)
(* false with its default level, the depth it remembers.                   *)
(***************************************************************************)
NoSolutionExists ==
  /\ Running
  /\ Refuted(Len(stack))
  /\ UNCHANGED <<feasible, stack, dissolved, fToViolations, currentStackDepth,
                 quit>>
  /\ StartPop(currentStackDepth)

\* Mutant: the counters of the other pairs are forgotten.
FixBrokenReluForgets(f) ==
  /\ Running
  /\ dissolved[f] = Active
  /\ fToViolations[f] + 1 < NumReluOperationsBeforeSplit
  /\ fToViolations' = [g \in F |-> IF g = f THEN fToViolations[f] + 1 ELSE 0]
  /\ UNCHANGED <<feasible, stack, dissolved, currentStackDepth, quit>>
  /\ \/ UNCHANGED <<pc, violatingLevel, status>>
     \/ Refuted(Len(stack)) /\ StartPop(currentStackDepth)

(***************************************************************************)
(* A broken pair below its budget of violations is repaired by a pivot, or *)
(* cannot be repaired because the bounds in force are contradictory.       *)
(***************************************************************************)
FixBrokenRelu(f) ==
  /\ Running
  /\ dissolved[f] = Active
  /\ fToViolations[f] + 1 < NumReluOperationsBeforeSplit
  /\ fToViolations' = [fToViolations EXCEPT ![f] = @ + 1]
  /\ UNCHANGED <<feasible, stack, dissolved, currentStackDepth, quit>>
  /\ \/ UNCHANGED <<pc, violatingLevel, status>>
     \/ Refuted(Len(stack)) /\ StartPop(currentStackDepth)

\* Mutant: the decision is pushed as if its other phase had been tried.
DecideSecondAttempt(f, p) ==
  /\ Running
  /\ dissolved[f] = Active
  /\ fToViolations[f] + 1 >= NumReluOperationsBeforeSplit
  /\ stack' = Append(stack, [var |-> f, type |-> p, first |-> FALSE,
                             saved |-> dissolved])

(***************************************************************************)
(* A broken pair that has used up its budget is decided; the assignment of *)
(* f picks the phase to try first.  The decision is on the stack before    *)
(* its bound is updated.                                                   *)
(***************************************************************************)
Decide(f, p) ==
  /\ Running
  /\ dissolved[f] = Active
  /\ fToViolations[f] + 1 >= NumReluOperationsBeforeSplit
  /\ stack' = Append(stack, [var |-> f, type |-> p, first |-> TRUE,
                             saved |-> dissolved])

DissolveReluOnVar(f, p) ==
  /\ Decide(f, p)
  /\ <<f, p>> \notin ClosedPhases
  /\ dissolved' = [dissolved EXCEPT ![f] = p]
  /\ currentStackDepth' = Len(stack')
  /\ fToViolations' = [g \in F |-> 0]
  /\ UNCHANGED <<feasible, pc, violatingLevel, status, quit>>

(***************************************************************************)
(* The bound of the new decision contradicts a bound of the caller: the    *)
(* exception skips setCurrentStackDepth and the clearing of the counters.  *)
(***************************************************************************)
DissolveThrows(f, p) ==
  /\ Decide(f, p)
  /\ <<f, p>> \in ClosedPhases
  /\ dissolved' = IF p = "SPLIT" THEN [dissolved EXCEPT ![f] = p] ELSE dissolved
  /\ fToViolations' = [fToViolations EXCEPT ![f] = @ + 1]
  /\ StartPop(Len(stack'))
  /\ UNCHANGED <<feasible, currentStackDepth, quit>>

-----------------------------------------------------------------------------
\* Mutant: the flipped decision may be flipped again.
FlipKeepsAttempt ==
  /\ pc = "popping"
  /\ stack # <<>>
  /\ Top.first
  /\ stack' = [stack EXCEPT ![Len(stack)] =
                 [var |-> Top.var, type |-> Opposite(Top.type), first |-> TRUE,
                  saved |-> Top.saved]]

(***************************************************************************)
(* SmtCore::pop().  A decision in its first attempt is restored, flipped   *)
(* and pushed back, which ends this pop(); pop(v) starts another while the *)
(* stack is above v.                                                       *)
(***************************************************************************)
Flip ==
  /\ pc = "popping"
  /\ stack # <<>>
  /\ Top.first
  /\ stack' = [stack EXCEPT ![Len(stack)] =
                 [var |-> Top.var, type |-> Opposite(Top.type), first |-> FALSE,
                  saved |-> Top.saved]]

\* Mutants: the dissolved pairs are not rolled back; the pop goes on at its own level.
PopFlipKeepsDissolved ==
  /\ Flip
  /\ <<Top.var, Opposite(Top.type)>> \notin ClosedPhases
  /\ dissolved' = [dissolved EXCEPT ![Top.var] = Opposite(Top.type)]
  /\ pc' = IF Len(stack) > violatingLevel THEN "popping" ELSE "loop"
  /\ UNCHANGED <<feasible, fToViolations, currentStackDepth, violatingLevel,
                 status, quit>>

PopFlipOneTooMany ==
  /\ Flip
  /\ <<Top.var, Opposite(Top.type)>> \notin ClosedPhases
  /\ dissolved' = [Top.saved EXCEPT ![Top.var] = Opposite(Top.type)]
  /\ pc' = IF Len(stack) >= violatingLevel THEN "popping" ELSE "loop"
  /\ UNCHANGED <<feasible, fToViolations, currentStackDepth, violatingLevel,
                 status, quit>>

PopFlip ==
  /\ Flip
  /\ <<Top.var, Opposite(Top.type)>> \notin ClosedPhases
  /\ dissolved' = [Top.saved EXCEPT ![Top.var] = Opposite(Top.type)]
  /\ pc' = IF Len(stack) > violatingLevel THEN "popping" ELSE "loop"
  /\ UNCHANGED <<feasible, fToViolations, currentStackDepth, violatingLevel,
                 status, quit>>

(***************************************************************************)
(* The bound of the flipped decision contradicts a bound of the caller:    *)
(* the exception leaves pop and the main loop, and solve() answers UNSAT.  *)
(***************************************************************************)
PopFlipThrows ==
  /\ Flip
  /\ <<Top.var, Opposite(Top.type)>> \in ClosedPhases
  /\ dissolved' = IF Opposite(Top.type) = "SPLIT"
                  THEN [Top.saved EXCEPT ![Top.var] = "SPLIT"]
                  ELSE Top.saved
  /\ Stop("UNSAT")
  /\ UNCHANGED <<feasible, fToViolations, currentStackDepth, violatingLevel,
                 quit>>

\* Mutants: the remembered depth is not updated; it is decremented twice.
PopDiscardStaleDepth ==
  /\ pc = "popping"
  /\ stack # <<>>
  /\ ~Top.first
  /\ stack' = SubSeq(stack, 1, Len(stack) - 1)
  /\ dissolved' = Top.saved
  /\ UNCHANGED <<feasible, fToViolations, currentStackDepth, pc,
                 violatingLevel, status, quit>>

PopDiscardTwice ==
  /\ pc = "popping"
  /\ stack # <<>>
  /\ ~Top.first
  /\ stack' = SubSeq(stack, 1, Len(stack) - 1)
  /\ dissolved' = Top.saved
  /\ currentStackDepth' = Len(stack) - 2
  /\ UNCHANGED <<feasible, fToViolations, pc, violatingLevel, status, quit>>

(***************************************************************************)
(* A decision tried both ways is dropped and the loop goes on to the next. *)
(***************************************************************************)
PopDiscard ==
  /\ pc = "popping"
  /\ stack # <<>>
  /\ ~Top.first
  /\ stack' = SubSeq(stack, 1, Len(stack) - 1)
  /\ dissolved' = Top.saved
  /\ currentStackDepth' = Len(stack) - 1
  /\ UNCHANGED <<feasible, fToViolations, pc, violatingLevel, status, quit>>

PopEmpty ==
  /\ pc = "popping"
  /\ stack = <<>>
  /\ Stop("UNSAT")
  /\ UNCHANGED <<feasible, stack, dissolved, fToViolations, currentStackDepth,
                 violatingLevel, quit>>

(***************************************************************************)
(* The signal handler of the process calls Reluplex::quit at any moment.   *)
(***************************************************************************)
Quit ==
  /\ pc # "done"
  /\ ~quit
  /\ quit' = TRUE
  /\ UNCHANGED <<feasible, stack, dissolved, fToViolations, currentStackDepth,
                 pc, violatingLevel, status>>

Terminated ==
  /\ pc = "done"
  /\ UNCHANGED vars

Search ==
  \/ FoundSolution
  \/ QuitLoop
  \/ LearnBounds
  \/ \E v \in 0..Len(stack) : BoundConflict(v)
  \/ NoSolutionExists
  \/ \E f \in F : FixBrokenRelu(f)
  \/ \E f \in F, p \in Phase : DissolveReluOnVar(f, p) \/ DissolveThrows(f, p)

Pop == PopFlip \/ PopFlipThrows \/ PopDiscard \/ PopEmpty

Next == Search \/ ErrorThrown \/ Pop \/ Quit \/ Terminated

(***************************************************************************)
(* The solver is one thread that never blocks: it takes its next step.     *)
(* The signal may never come, and no Error need be thrown.                 *)
(***************************************************************************)
SafetySpec == Init /\ [][Next]_vars

Spec == SafetySpec /\ WF_vars(Search) /\ WF_vars(Pop)

-----------------------------------------------------------------------------
(***************************************************************************)
(* Every variable holds a value of its C++ type; a saved state is a state. *)
(***************************************************************************)
TypeOK ==
  /\ feasible \subseteq Kinds
  /\ stack \in Seq(Entry)
  /\ dissolved \in Dissolutions
  /\ fToViolations \in [F -> Nat]
  /\ currentStackDepth \in Nat
  /\ pc \in {"loop", "popping", "done"}
  /\ violatingLevel \in Nat
  /\ status \in {"NONE", "SAT", "UNSAT", "NOT_DONE", "ERROR"}
  /\ quit \in BOOLEAN

(***************************************************************************)
(* No pair is decided twice on one branch.  The counters of violations     *)
(* survive a pop while the set of dissolved pairs is rolled back; this is  *)
(* what the debug assertion of notifyBrokenRelu looks for.                 *)
(***************************************************************************)
SplitVarsDistinct ==
  \A i, j \in 1..Len(stack) : stack[i].var = stack[j].var => i = j

(***************************************************************************)
(* A decision is in its second attempt only when the first one was really  *)
(* exhausted: no solution follows the decisions below it and its old phase.*)
(***************************************************************************)
SiblingsRefuted ==
  \A i \in 1..Len(stack) : ~stack[i].first => SiblingRefuted(i)

(***************************************************************************)
(* While pop(v) unwinds the stack, dropping decisions and flipping some    *)
(* only to drop them again, what is left below v stays refuted.  So the    *)
(* pop may not stop before it has flipped a decision at or below v.        *)
(***************************************************************************)
PopStaysJustified ==
  pc = "popping" => Refuted(PopTarget)

(***************************************************************************)
(* Reluplex remembers the depth of the stack on its own, and an exception  *)
(* in the middle of a decision leaves that copy behind.  It may lag, but   *)
(* only over decisions that have no attempt left, so popping to it instead *)
(* of to the top loses nothing.                                            *)
(***************************************************************************)
StaleDepthHarmless ==
  pc = "loop" =>
    /\ currentStackDepth <= Len(stack)
    /\ \A i \in currentStackDepth + 1 .. Len(stack) : ~stack[i].first

(***************************************************************************)
(* A pair is dissolved only in a phase that every solution under the       *)
(* present decisions has, also after pops rolled decisions back.           *)
(***************************************************************************)
DissolvedSound ==
  pc # "done" => \A f \in F \ ActivePairs : Implied(f, dissolved[f])

(***************************************************************************)
(* The inductive invariant behind the safety properties.  The query obeys  *)
(* the bounds of the caller.  The remembered depth lags over decisions     *)
(* without an attempt left, except the top of the stack while an exception *)
(* is on its way from it.  A saved state was taken when its pair was still *)
(* active and all pairs decided below it were not, and its dissolved pairs *)
(* are as justified as the present ones.                                   *)
(***************************************************************************)
QueryObeysBounds ==
  \A s \in feasible, f \in F, p \in Phase :
    p \in s[f] => <<f, p>> \notin ClosedPhases

DepthLags ==
  /\ currentStackDepth <= Len(stack)
  /\ \A i \in currentStackDepth + 1 .. Len(stack) :
       stack[i].first => i = Len(stack) /\ pc # "loop"

SavedBeforeDecision ==
  /\ \A i \in 1..Len(stack) : stack[i].saved[stack[i].var] = Active
  /\ \A i \in 1..Len(stack) : \A j \in 1..i - 1 :
       stack[i].saved[stack[j].var] # Active
  /\ pc = "loop" => \A i \in 1..Len(stack) : dissolved[stack[i].var] # Active

SavedSound ==
  \A i \in 1..Len(stack) : \A f \in F :
    stack[i].saved[f] # Active =>
      \A s \in feasible : Agrees(s, i - 1) => stack[i].saved[f] \in s[f]

SearchInv ==
  /\ TypeOK
  /\ QueryObeysBounds
  /\ SiblingsRefuted
  /\ PopStaysJustified
  /\ DepthLags
  /\ SavedBeforeDecision
  /\ SavedSound
  /\ DissolvedSound

(***************************************************************************)
(* The answer UNSAT is given only to queries without a solution.           *)
(***************************************************************************)
UnsatSound == status = "UNSAT" => feasible = {}

(***************************************************************************)
(* Refinement.  A kind is open unless the unexplored part of the tree   *)
(* excludes it: it follows the stack to a decision in its second attempt   *)
(* and there has the phase already tried, or a pop is in progress and it   *)
(* follows the decisions in conflict.                                      *)
(***************************************************************************)
Open ==
  IF status = "UNSAT" THEN {}
  ELSE {s \in Kinds :
          /\ \A i \in 1..Len(stack) :
               ~stack[i].first => ~(/\ Agrees(s, i - 1)
                                    /\ Opposite(stack[i].type) \in s[stack[i].var])
          /\ pc = "popping" => ~Agrees(s, PopTarget)}

Abstract == INSTANCE CaseSplitting WITH open <- Open, verdict <- status

(***************************************************************************)
(* The search implements CaseSplitting: backjumping only ever refutes      *)
(* kinds without a solution, no kind is forgotten or refuted twice,        *)
(* and the answer is right.                                                *)
(***************************************************************************)
ImplementsCaseSplitting == Abstract!Spec

(***************************************************************************)
(* Left alone, and unless an Error ends it, the solver reaches the right   *)
(* answer: every conflict, flip and decision makes progress.               *)
(***************************************************************************)
SolvesQuery ==
  [](~quit /\ status # "ERROR")
    => <>(status = IF feasible = {} THEN "UNSAT" ELSE "SAT")

(***************************************************************************)
(* A raised quit flag stops the solver, also out of the middle of a pop.   *)
(***************************************************************************)
QuitStops == quit ~> pc = "done"
=============================================================================
