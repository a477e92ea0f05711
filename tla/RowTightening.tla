--------------------------- MODULE RowTightening ---------------------------
(***************************************************************************)
(* Bounds learned from the rows of a concrete tableau.  Bounds leaves open *)
(* which bounds are learned; here they are computed as the code computes   *)
(* them, with the level that it gives them, from the linear equations of a *)
(* query and the columns that merges have added up since.                  *)
(*                                                                         *)
(* The tableau is its row space.  Pivots never change the row space, and a *)
(* row of some tableau for it is a vector with minimal support, and every  *)
(* such vector is a row of some tableau.  Which rows the LP solver reports *)
(* and which basis is current is left open.  The LP has a slack variable   *)
(* and a row f - b - slack = 0 for each active pair, or none at all, as    *)
(* after repeated failures.  A failing LP solver and the restoration are   *)
(* those of Bounds.                                                        *)
(***************************************************************************)
EXTENDS Bounds, FiniteSetsExt, DotProduct

CONSTANTS
  Equations,       \* the equations of the query, as vectors of coefficients
  Multipliers      \* the factors with which equations are combined

VARIABLE
  slacks           \* _slackToLowerBound, _slackToUpperBound while the LP solver
                   \* runs, of the slack variables that the LP has

rowVars == <<vars, slacks>>

Slack(f) == NumVariables + f
Slacks(S) == {Slack(f) : f \in S}
Column == Var \cup Slacks(F)
PairOfSlack(z) == z - NumVariables

(***************************************************************************)
(* A merge adds the column of b to the column of f and erases the former.  *)
(***************************************************************************)
\* Mutant: the column of b is erased without having been added to that of f.
MergedByErasing(r, M) ==
  [z \in Column |-> IF z \notin Var \/ \E f \in M : z = B[f] THEN 0 ELSE r[z]]

Merged(r, M) ==
  [z \in Column |-> IF z \in M THEN r[z] + r[B[z]]
                    ELSE IF z \notin Var \/ \E f \in M : z = B[f] THEN 0
                    ELSE r[z]]

SlackRow(f) ==
  [z \in Column |-> IF z = f THEN 1 ELSE IF z \in {B[f], Slack(f)} THEN -1 ELSE 0]

Support(r) == {z \in Column : r[z] # 0}

\* The rows of the LP when the pairs M are merged and S have slack variables.
RowSpace(M, S) ==
  LET rows == {Merged(e, M) : e \in Equations} \cup {SlackRow(f) : f \in S}
  IN  {[z \in Column |-> Dot(w, [r \in rows |-> r[z]], rows)] :
         w \in [rows -> Multipliers]}

\* The rows that the table may have.
RowsOf ==
  [MS \in {MS \in (SUBSET F) \X (SUBSET F) : MS[1] \cap MS[2] = {}} |->
     LET space == {r \in RowSpace(MS[1], MS[2]) : Support(r) # {}}
     IN  {r \in space : \A q \in space : Support(q) \subseteq Support(r)
                                           => Support(q) = Support(r)}]

MergedPairs(st) == {f \in F : st.dissolved[f] = "MERGE"}
ActivePairs(st) == {f \in F : st.dissolved[f] = Active}
TableauRows(st) == RowsOf[MergedPairs(st), {}]
LpPairs == {PairOfSlack(z) : z \in DOMAIN slacks.lower}
LpRows == RowsOf[MergedPairs(current), LpPairs]

\* Solving a row for one of its variables never divides by more than one.
ASSUME RowTighteningAssumption ==
  /\ Equations \subseteq [Var -> Int] /\ IsFiniteSet(Equations)
  /\ Multipliers \subseteq Int
  /\ \A MS \in DOMAIN RowsOf : \A r \in RowsOf[MS] : \A z \in Column : r[z] \in {-1, 0, 1}

\* All assignments that satisfy the equations.
LinearAssignments ==
  {a \in Assignments : \A e \in Equations : Dot(e, a, Var) = 0}

SolutionsOf(st) == {a \in LinearAssignments : IsSolution(a, st)}

SlackUpper(st, f) ==
  [val |-> st.upper[f].val - st.lower[B[f]].val,
   level |-> Max({st.upper[f].level, st.lower[B[f]].level})]

\* What the LP solver may answer: the broken pairs do not matter to it, but for
\* their slack variables.
LpAssignments ==
  {a \in LinearAssignments :
     /\ \A x \in Var : ~MergedB(current, x) =>
          current.lower[x].val <= a[x] /\ a[x] <= current.upper[x].val
     /\ \A f \in MergedPairs(current) : a[B[f]] = a[f]
     /\ \A f \in LpPairs : a[f] - a[B[f]] \in 0..SlackUpper(current, f).val}

RelusHold(a) == \A f \in F : current.dissolved[f] = Active => ReluHolds(a, f)

-----------------------------------------------------------------------------
(***************************************************************************)
(* The bounds that a row gives its variable x: the row solved for x, each  *)
(* other variable at the bound that makes the sum smallest (largest).  The *)
(* level is the last one among the bounds used.                            *)
(***************************************************************************)
Weight(r, x, y) == -(r[x] * r[y])
RowSum(used, r, x, S) == Dot([y \in S |-> Weight(r, x, y)], [y \in S |-> used[y].val], S)

\* Mutant: the level is the earliest one.
SumOfEarliest(used, r, x) ==
  LET others == Support(r) \ {x}
  IN  [val |-> RowSum(used, r, x, others),
       level |-> Min({Len(stack)} \cup {used[y].level : y \in others})]

SumOf(used, r, x) ==
  LET others == Support(r) \ {x}
  IN  [val |-> RowSum(used, r, x, others),
       level |-> Max({0} \cup {used[y].level : y \in others})]

\* Mutant: the sign of a coefficient is ignored.
RowLowerUnsigned(st, r, x) == SumOf(st.lower, r, x)

RowLower(st, r, x) ==
  SumOf([y \in Support(r) |->
           IF Weight(r, x, y) > 0 THEN st.lower[y] ELSE st.upper[y]], r, x)

RowUpper(st, r, x) ==
  SumOf([y \in Support(r) |->
           IF Weight(r, x, y) > 0 THEN st.upper[y] ELSE st.lower[y]], r, x)

Raises(st, x, bound) == bound.val > st.lower[x].val
Lowers(st, x, bound) == bound.val < st.upper[x].val

-----------------------------------------------------------------------------
(***************************************************************************)
(* The LP solver runs.  At each pivot it reports a row, and the bounds of  *)
(* a variable of it are stored, for a slack variable in place of its own   *)
(* bounds, for others in _glpkStoredLowerBounds and ...Upper...; backup    *)
(* holds the bounds with the stored ones in place of the others.           *)
(***************************************************************************)
SlackBounds(S) ==
  [lower |-> [z \in Slacks(S) |-> [val |-> 0, level |-> 0]],
   upper |-> [z \in Slacks(S) |-> SlackUpper(current, PairOfSlack(z))]]

NoSlacks == SlackBounds({})

FixOutOfBounds ==
  /\ pc = "loop"
  /\ pc' = "solving"
  /\ backup' = current
  /\ index' = 0
  /\ \E S \in {{}, ActivePairs(current)} : slacks' = SlackBounds(S)
  /\ UNCHANGED <<solutions, preprocessed, current, stack, currentStackDepth,
                 violatingLevel, status>>

\* The bounds g of variables and h of slack variables, together.
WithSlacks(g, h) ==
  [z \in Var \cup DOMAIN slacks.lower |-> IF z \in Var THEN g[z] ELSE h[z]]

Used == [lower |-> WithSlacks(backup.lower, slacks.lower),
         upper |-> WithSlacks(backup.upper, slacks.upper)]

Stored(r, x) ==
  LET up == RowUpper(Used, r, x)
      lo == RowLower(Used, r, x)
  IN  [lower |-> IF Raises(Used, x, lo) THEN [Used.lower EXCEPT ![x] = lo] ELSE Used.lower,
       upper |-> IF Lowers(Used, x, up) THEN [Used.upper EXCEPT ![x] = up] ELSE Used.upper]

Part(g, S) == [z \in S |-> g[z]]

StoreGlpkBound(r, x) ==
  LET stored == Stored(r, x)
  IN  /\ pc = "solving"
      /\ x \in Support(r)
      /\ stored # Used
      /\ UNCHANGED <<solutions, preprocessed, current, stack, currentStackDepth, index>>
      /\ IF BoundInvariantHolds(stored, x)
         THEN /\ backup' = [lower |-> Part(stored.lower, Var),
                            upper |-> Part(stored.upper, Var),
                            dissolved |-> current.dissolved]
              /\ slacks' = [lower |-> Part(stored.lower, DOMAIN slacks.lower),
                            upper |-> Part(stored.upper, DOMAIN slacks.lower)]
              /\ UNCHANGED <<pc, violatingLevel, status>>
         ELSE /\ backup' = current /\ slacks' = NoSlacks
              /\ StartPop(ViolatingLevel(stored, x))

\* Stored bounds are looked at only if the solution breaks a pair.
LpSolutionFound ==
  /\ pc = "solving"
  /\ \E a \in LpAssignments :
       IF RelusHold(a) \/ backup = current
       THEN pc' = "loop" /\ backup' = current
       ELSE pc' = "learning" /\ UNCHANGED backup
  /\ slacks' = NoSlacks
  /\ UNCHANGED <<solutions, preprocessed, current, stack, currentStackDepth,
                 violatingLevel, status, index>>

LpNoSolution ==
  /\ pc = "solving"
  /\ LpAssignments = {}
  /\ backup' = current /\ slacks' = NoSlacks
  /\ UNCHANGED <<solutions, preprocessed, current, stack, currentStackDepth, index>>
  /\ StartPop(currentStackDepth)

-----------------------------------------------------------------------------
(***************************************************************************)
(* performGlpkBoundTightening: the stored lower bounds, then the stored    *)
(* upper bounds, each only if it is still an improvement.                  *)
(***************************************************************************)
Unchanged == [state |-> current, conflict |-> NoConflict]

ApplyStored ==
  LET x == index % NumVariables
      lower == backup.lower[x]
      upper == backup.upper[x]
  IN  /\ pc = "learning"
      /\ index < 2 * NumVariables
      /\ index' = index + 1
      /\ UNCHANGED <<slacks, solutions, preprocessed, stack, currentStackDepth>>
      /\ Apply(IF index < NumVariables /\ Raises(current, x, lower)
               THEN UpdateLowerBound(current, x, lower.val, lower.level)
               ELSE IF index >= NumVariables /\ Lowers(current, x, upper)
               THEN UpdateUpperBound(current, x, upper.val, upper.level)
               ELSE Unchanged, "learning")

StoredApplied ==
  /\ pc = "learning"
  /\ index = 2 * NumVariables
  /\ pc' = "tightening"
  /\ backup' = current
  /\ index' = 0
  /\ UNCHANGED <<slacks, solutions, preprocessed, current, stack, currentStackDepth,
                 violatingLevel, status>>

(***************************************************************************)
(* tightenAllBounds: both bounds of a variable of a row are computed, then *)
(* compared and updated one after the other.  It ends when the rows of the *)
(* current tableau give nothing new.                                       *)
(***************************************************************************)
TightenBoundsOnRow(r, x) ==
  LET up == RowUpper(current, r, x)
      lo == RowLower(current, r, x)
      first == IF Lowers(current, x, up)
               THEN UpdateUpperBound(current, x, up.val, up.level)
               ELSE Unchanged
  IN  /\ pc = "tightening"
      /\ x \in Support(r)
      /\ Lowers(current, x, up) \/ Raises(current, x, lo)
      /\ UNCHANGED <<slacks, solutions, preprocessed, stack, currentStackDepth, index>>
      /\ Apply(IF first.conflict = NoConflict /\ Raises(first.state, x, lo)
               THEN UpdateLowerBound(first.state, x, lo.val, lo.level)
               ELSE first, "tightening")

TightenDone ==
  /\ pc = "tightening"
  /\ pc' = "loop"
  /\ backup' = current
  /\ UNCHANGED <<slacks, solutions, preprocessed, current, stack, currentStackDepth,
                 violatingLevel, status, index>>

SatFound ==
  /\ pc = "loop"
  /\ \E a \in LpAssignments : RelusHold(a)
  /\ Stop("SAT")
  /\ UNCHANGED <<slacks, solutions, preprocessed, current, stack, currentStackDepth,
                 violatingLevel, backup, index>>

-----------------------------------------------------------------------------
RowInit == Init /\ solutions = SolutionsOf(preprocessed) /\ slacks = NoSlacks

RowNext ==
  \/ FixOutOfBounds
  \/ LpSolutionFound
  \/ LpNoSolution
  \/ ApplyStored
  \/ StoredApplied
  \/ TightenDone
  \/ SatFound
  \/ \E r \in LpRows, x \in Column : StoreGlpkBound(r, x)
  \/ \E r \in TableauRows(current), x \in Var : TightenBoundsOnRow(r, x)
  \/ /\ UNCHANGED slacks
     /\ \/ \E f \in F, p \in Phase : DissolveReluOnVar(f, p)
        \/ PopFlip
        \/ PopDiscard
        \/ PopEmpty
        \/ Terminated

RowSpec == RowInit /\ [][RowNext]_rowVars

-----------------------------------------------------------------------------
(***************************************************************************)
(* The bounds in force, and those stored while the LP solver runs, hold in *)
(* every solution that follows all decisions, although the rows they come  *)
(* from have merged columns and a pop brings older bounds back; those of   *)
(* the slack variables hold for f - b.                                     *)
(***************************************************************************)
BoundsHold ==
  \A s \in solutions : Agrees(s, Len(stack)) =>
    /\ \A st \in {current, backup} : \A x \in Var :
         st.lower[x].val <= s[x] /\ s[x] <= st.upper[x].val
    /\ \A f \in LpPairs :
         s[f] - s[B[f]] \in slacks.lower[Slack(f)].val..slacks.upper[Slack(f)].val

(***************************************************************************)
(* While no pair has been merged since the preprocessing, the levels of    *)
(* the bounds in force, of the stored ones and of those of slack variables *)
(* are right: a bound holds in all solutions that follow that many         *)
(* decisions.                                                              *)
(***************************************************************************)
SplitLevelsSound ==
  MergedPairs(current) \subseteq MergedPairs(preprocessed) =>
    /\ Justified(current, Len(stack)) /\ Justified(backup, Len(stack))
    /\ \A s \in solutions, f \in LpPairs :
         LET slack == s[f] - s[B[f]]
             lower == slacks.lower[Slack(f)]
             upper == slacks.upper[Slack(f)]
         IN  /\ Agrees(s, lower.level) => slack >= lower.val
             /\ Agrees(s, upper.level) => slack <= upper.val

(***************************************************************************)
(* A conflict that is thrown to a level that it does not refute.  All that *)
(* the rows still promise is that the decisions as a whole are refuted, and*)
(* that a pair has been merged since the preprocessing: the levels of a row*)
(* do not say which merges it has been through.                            *)
(***************************************************************************)
MergedSince == MergedPairs(current) \ MergedPairs(preprocessed)
NoneAgrees(k) == \A s \in solutions : ~Agrees(s, k)

MisjudgedConflict ==
  /\ UseConflictAnalysis
  /\ pc \in {"solving", "learning", "tightening"}
  /\ MergedSince # {}
  /\ NoneAgrees(Len(stack))
  /\ \E v \in 0..Len(stack) : ~NoneAgrees(v) /\ StartPop(v)
  /\ UNCHANGED <<solutions, preprocessed, stack, currentStackDepth>>
  /\ \/ current'.dissolved = current.dissolved
     \/ \E f \in ActivePairs(current) :
          current'.dissolved = [current.dissolved EXCEPT ![f] = "SPLIT"]

(***************************************************************************)
(* Refinement.  With the bounds of the rows the search is still SmtCore's, *)
(* but for misjudged conflicts: rows, stored bounds and the LP's verdicts  *)
(* dissolve pairs in phases that the decisions imply, and every other      *)
(* conflict refutes the decisions up to its level.                         *)
(***************************************************************************)
SearchUnlessMisjudged ==
  Search!Init /\ [][Search!Next \/ MisjudgedConflict]_(Search!vars)
=============================================================================
