------------------------------ MODULE LpRepair ------------------------------
(***************************************************************************)
(* The search of SmtCore with the LP solver in its loop.  progress() calls *)
(* fixOutOfBounds() whenever a variable is out of bounds, and the LP solver*)
(* may also fail, or return an assignment that is out of bounds after all. *)
(* The tableau is then restored, failures are counted, and two of them in  *)
(* a row make the next run do without slack variables.                     *)
(*                                                                         *)
(* The Error of too many failures is the only one here.                    *)
(***************************************************************************)
EXTENDS SmtCore

CONSTANTS
  MaxGlpkFailures, \* MAX_GLPK_FAILURES_BEFORE_RESOTRATION
  MaxTightenings   \* bound: rounds of tightening that dissolve no pair; in the
                   \* code each moves a bound by more than an epsilon

Answer == {"SOLUTION_FOUND", "NO_SOLUTION_EXISTS", "SOLVER_FAILED"}

ASSUME LpRepairAssumption ==
  /\ MaxGlpkFailures \in Nat
  /\ MaxTightenings \in Nat

VARIABLES
  outOfBounds,      \* the assignment puts some variable out of its bounds
  failures,         \* _consecutiveGlpkFailureCount
  previousAnswer,   \* _previousGlpkAnswer
  dontUseSlacks,    \* _temporarilyDontUseSlacks
  tightenings,      \* rounds of tightening since a pair was dissolved or a pop
  failedRuns        \* ghost: how many runs in a row have failed

lpVars == <<failures, previousAnswer, dontUseSlacks, failedRuns>>
allVars == <<vars, lpVars, outOfBounds, tightenings>>

-----------------------------------------------------------------------------
(***************************************************************************)
(* The bounds of a dissolved pair make up for its constraint, so when all  *)
(* pairs are dissolved an assignment within bounds is a solution.          *)
(***************************************************************************)
InBoundsPossible ==
  ActivePairs = {} =>
    \E s \in feasible : Agrees(s, Len(stack)) /\ \A f \in F : dissolved[f] \in s[f]

\* The assignment after a step.
Reassigned ==
  /\ outOfBounds' \in BOOLEAN
  /\ ~outOfBounds' => InBoundsPossible'

\* _previousGlpkAnswer is not initialised by the constructor.
LpInit ==
  /\ Init
  /\ outOfBounds \in BOOLEAN
  /\ ~outOfBounds => InBoundsPossible
  /\ failures = 0
  /\ previousAnswer \in Answer
  /\ dontUseSlacks = FALSE
  /\ tightenings = 0
  /\ failedRuns = 0

LpDone(answer) ==
  /\ failures' = 0
  /\ previousAnswer' = answer
  /\ dontUseSlacks' = FALSE
  /\ failedRuns' = 0

(***************************************************************************)
(* The LP solver succeeds.  If pairs are broken and bounds were stored on  *)
(* the way, the bounds are updated, which may dissolve pairs, push         *)
(* variables out of their bounds, or end in a conflict.                    *)
(***************************************************************************)
LpSolutionFound ==
  /\ Running
  /\ outOfBounds
  /\ InBoundsPossible
  /\ LpDone("SOLUTION_FOUND")
  /\ \/ outOfBounds' = FALSE /\ UNCHANGED <<vars, tightenings>>
     \/ /\ ActivePairs # {}
        /\ tightenings < MaxTightenings
        /\ tightenings' = tightenings + 1
        /\ UNCHANGED vars
        /\ Reassigned
     \/ ActivePairs # {} /\ LearnBounds /\ Reassigned /\ tightenings' = 0
     \/ /\ ActivePairs # {}
        /\ \E v \in 0..Len(stack) : BoundConflict(v)
        /\ Reassigned
        /\ UNCHANGED tightenings

LpNoSolution ==
  /\ outOfBounds
  /\ NoSolutionExists
  /\ LpDone("NO_SOLUTION_EXISTS")
  /\ UNCHANGED <<outOfBounds, tightenings>>

(***************************************************************************)
(* A row that the LP solver reports contradicts a bound.  The exception    *)
(* passes fixOutOfBounds() by, and neither counter nor answer is touched.  *)
(***************************************************************************)
LpThrows ==
  /\ outOfBounds
  /\ \E v \in 0..Len(stack) : BoundConflict(v)
  /\ UNCHANGED dissolved
  /\ dontUseSlacks' = FALSE
  /\ failedRuns' = 0
  /\ UNCHANGED <<outOfBounds, failures, previousAnswer, tightenings>>

\* Mutants: the measures are reset with the slack variables; the answer is not
\* remembered.
LpFailedResets ==
  /\ Running
  /\ outOfBounds
  /\ dontUseSlacks' = (previousAnswer = "SOLVER_FAILED")
  /\ failures' = IF dontUseSlacks' THEN 0 ELSE failures + 1
  /\ previousAnswer' = IF dontUseSlacks' THEN "SOLUTION_FOUND" ELSE "SOLVER_FAILED"
  /\ UNCHANGED <<vars, tightenings, failedRuns>>
  /\ Reassigned

LpFailedForgets ==
  /\ Running
  /\ outOfBounds
  /\ failures' = failures + 1
  /\ failedRuns' = failedRuns + 1
  /\ dontUseSlacks' = (previousAnswer = "SOLVER_FAILED")
  /\ UNCHANGED <<previousAnswer, tightenings>>
  /\ IF failures' > MaxGlpkFailures
     THEN ErrorThrown /\ UNCHANGED outOfBounds
     ELSE UNCHANGED vars /\ Reassigned

(***************************************************************************)
(* The LP solver fails, or its solution is out of bounds once it has been  *)
(* copied.  The restoration keeps bounds and dissolved pairs, and brings   *)
(* back some assignment.                                                   *)
(***************************************************************************)
LpFailed ==
  /\ Running
  /\ outOfBounds
  /\ failures' = failures + 1
  /\ failedRuns' = failedRuns + 1
  /\ previousAnswer' = "SOLVER_FAILED"
  /\ dontUseSlacks' = (previousAnswer = "SOLVER_FAILED")
  /\ UNCHANGED tightenings
  /\ IF failures' > MaxGlpkFailures
     THEN ErrorThrown /\ UNCHANGED outOfBounds
     ELSE UNCHANGED vars /\ Reassigned

(***************************************************************************)
(* Nothing is out of bounds: the measures of failure are reset, and a      *)
(* broken pair is decided or repaired.                                     *)
(***************************************************************************)
RepairPair ==
  /\ ~outOfBounds
  /\ \/ \E f \in F : FixBrokenRelu(f) /\ UNCHANGED tightenings
     \/ /\ \E f \in F, p \in Phase : DissolveReluOnVar(f, p) \/ DissolveThrows(f, p)
        /\ tightenings' = 0
  /\ Reassigned
  /\ failures' = 0
  /\ previousAnswer' = "SOLUTION_FOUND"
  /\ failedRuns' = 0
  /\ UNCHANGED dontUseSlacks

LpPop ==
  /\ Pop
  /\ Reassigned
  /\ tightenings' = 0
  /\ UNCHANGED lpVars

Solve ==
  \/ ~outOfBounds /\ FoundSolution /\ UNCHANGED <<lpVars, outOfBounds, tightenings>>
  \/ QuitLoop /\ UNCHANGED <<lpVars, outOfBounds, tightenings>>
  \/ LpSolutionFound
  \/ LpNoSolution
  \/ LpThrows
  \/ LpFailed
  \/ RepairPair
  \/ LpPop

LpNext ==
  \/ Solve
  \/ (Quit \/ Terminated) /\ UNCHANGED <<lpVars, outOfBounds, tightenings>>

\* One thread, which never blocks.
LpSpec == LpInit /\ [][LpNext]_allVars /\ WF_allVars(Solve)

-----------------------------------------------------------------------------
(***************************************************************************)
(* A run that follows two failures in a row does without slack variables,  *)
(* also when the loop has been through a restoration in between.           *)
(***************************************************************************)
NoSlacksAfterTwoFailures == pc = "loop" /\ failedRuns >= 2 => dontUseSlacks

(***************************************************************************)
(* The next run is told to do without slack variables only after two       *)
(* failures in a row.                                                      *)
(***************************************************************************)
SlacksGivenUp == ~dontUseSlacks /\ dontUseSlacks' => failedRuns' >= 2

SlacksUnlessTwoFailures == [][SlacksGivenUp]_allVars

(***************************************************************************)
(* Whatever the LP solver does, the search goes on as SmtCore says, and    *)
(* failures and restorations do not keep it from making progress.          *)
(***************************************************************************)
ImplementsSearch == Spec
=============================================================================
