# A verification project for Reluplex

Reluplex (`src/reluplex`) decides linear queries with ReLU constraints: are
there values within the bounds that satisfy a set of linear equations and, for
every *ReLU pair* (b, f), the constraint f = max(b, 0)?  It is a sequential C++
program: a simplex tableau, bounds with the decision level they depend on, an
LP solver (GLPK, vendored and patched) that repairs out-of-bounds variables,
and a small SMT core that decides pairs when repair does not converge.  This
directory holds TLA+ models of that program, the TLC runs that check them and
TLAPS proofs about them.

## 1. The system

| Component | Source | State | Operations |
|---|---|---|---|
| SMT core | `reluplex/SmtCore.h` | stack of decisions with saved states, counters of violations per pair | `notifyBrokenRelu`, `dissolveReluOnVar`, `pop(level)`, `pop()` |
| Main loop | `reluplex/Reluplex.h` 251-486 | final status, quit flag, remembered stack depth | `initialize`, `solve`, `progress`, `quit` |
| Bounds and levels | `Reluplex.h` 1521-1762, `VariableBound.h` | a bound, its level and its finiteness per variable and side; dissolved pairs | `updateUpperBound`, `updateLowerBound`, `boundInvariantHolds` |
| Tableau operations | `Reluplex.h` 1765-2198, 3131-3193 | tableau, basis, assignment, variable status | `pivot`, `update`, `unifyReluPair`, `makeNonBasic`, `adjustBasicVariables` |
| Bound tightening | `Reluplex.h` 1150-1507, 2581-2664, 3637-3763 | stored GLPK bounds | `storeGlpkBoundTightening`, `performGlpkBoundTightening`, `tightenAllBounds`, `makeAllBoundsFinite` |
| LP repair | `Reluplex.h` 989-1148, `GlpkWrapper.h` | failure count, previous answer, slack switch | `fixOutOfBounds`, wrapper `run`, extraction |
| Restoration | `Reluplex.h` 2824-3129 | preprocessed tableau, bounds, dissolved pairs | `storePreprocessedMatrix`, `restoreTableauFromBackup` |
| Broken-pair repair | `Reluplex.h` 1927-2027, 2418-2477 | - | `fixBrokenRelu`, `findPivotCandidate` |
| Auxiliary elimination | `Reluplex.h` 2357-2416 | eliminated variables | `eliminateAuxVariables`, `eliminateIfPossible` |
| Sparse tableau | `reluplex/Tableau.h` | rows and columns as doubly linked lists | `addEntry`, `eraseRow`, `addScaledRow`, `addColumnEraseSource`, ... |
| Pairs, floats | `ReluPairs.h`, `FloatUtils.h` | partner maps; comparison with an epsilon | |
| Initial bounds | `Reluplex.h` 251-263, 1899-1925, 2581-2664 | - | `initialize`, `initialUpdate`, `makeAllBoundsFinite` |
| LP encoding | `GlpkWrapper.h` | the LP's rows and columns | `addRows`, `addColumns`, `addWeights`, `solve`, extraction |
| Networks | `nnet/` | layers, weights | loading and evaluation of ACAS networks |
| Drivers | `check_properties/*/main.cpp` | the query they write, the last solver, what is printed and logged | the encoding of a network and a property; the signal handler |
| Vendored | `glpk-4.60/`, `glpk-patch/`, `common/` | - | the LP solver, containers |

`solve` alternates between the head of its loop (is the assignment a
solution?) and `progress`, which does one of: let GLPK repair out-of-bounds
variables (and apply the bounds learned on the way), repair a broken pair, or
tell the SMT core that a pair broke once more, which the fifth time becomes a
decision.  A conflict is either a `false` from `progress` or an
`InvariantViolationError` with the level of the last decision the contradicting
bounds depend on; `solve` passes that level to `SmtCore::pop`, which restores
saved states and updates the bound of a flipped decision, and so calls back into
the bounds, the tableau operations and `computeVariableStatus`.  Everything runs
on one thread except the `SIGQUIT` handler of the drivers, which sets `_quit`.

What makes this hard: exceptions leave operations half done; bounds carry
levels that must cover everything their derivation used, the shape of the
tableau included; the tableau, the basis and the assignment are rolled back on
a pop and rebuilt on a restoration, in different ways; floating point makes
every comparison approximate and every GLPK answer fallible.

What makes each component correct:

* **SMT core**: a pop loses no branch; nothing deduced on one branch is used on
  another; UNSAT means that every branch was refuted; the search ends.
* **Main loop, LP repair**: failures of the LP solver neither change the search
  nor go on for ever; the measures taken against them follow real failures.
* **Bounds, restoration**: a bound at level l holds for everything that follows
  the first l decisions; a dissolved pair's bounds enforce its phase; learning
  never loosens a bound; a restoration reproduces bounds, levels and pairs.
* **Bound tightening**: bounds computed from rows hold in every solution of the
  branch, and their levels cover all that they depend on.
* **Tableau operations, broken-pair repair**: rows keep following from the
  query, non-basic variables are within bounds, the assignment satisfies all
  rows, a repair fixes the pair or shows the branch infeasible.
* **Sparse tableau**: the lists are a matrix, and no loop over a list loses its
  place in it while it erases, moves and adds entries.
* **LP encoding**: the LP is that of the tableau; it has no solution only if
  the query has none, and its solution survives the extraction.
* **Initial bounds, drivers**: the query has the solutions that the question
  has, before and after `initialize`; what is printed and logged is true.

## 2. The modules

| Module | Models | How it relates to the others |
|---|---|---|
| `CaseSplitting` | nothing in the code: what case splitting promises. A set of open kinds of solutions, each refuted only if the query has none of that kind; SAT needs an open one that is real, UNSAT that none is open. | abstract specification |
| `SmtCore` | `SmtCore.h` and the loop of `solve`/`progress` | implements `CaseSplitting` |
| `Bounds` | bounds with levels, dissolution, stored LP bounds, restoration, decisions and pops on saved bounds | implements `SmtCore` |
| `RowTightening` | the bounds that rows of a concrete network, and the slack rows of active pairs, give, and their levels; merged columns | EXTENDS `Bounds`, replaces its "any justified bound" by computed ones; it takes the steps of `SmtCore`, but for conflicts that are thrown too low after a merge |
| `LpRepair` | the control of `progress` and `fixOutOfBounds`: order of repairs, LP failures, slack switch | EXTENDS `SmtCore`, adds the LP's variables around its actions, and implements it |
| `Simplex` | tableau, basis and assignment: pivots, updates, merges, repair of pairs, elimination of auxiliary variables; the LP with its slack rows, what is copied back; restoration with the adjustment of the basis | stands beside `Bounds`: the same updates of bounds, without levels and with what they do to the tableau |
| `SparseMatrix` | nothing in the code: what the callers of `Tableau.h` rely on, operations on two matrices | abstract specification |
| `LinkedTableau` | `Tableau.h`: entries, lists and loops over them | implements `SparseMatrix` |
| `NetworkQuery` | the query that a driver writes about a network, `initialize` as operators on it; `evaluate_network` | operators of `Experiments` |
| `Experiments` | the drivers: construction, `initialize` row by row, start and end of `solve`, the parts of the adversarial experiment, SIGQUIT, answers printed and logged | EXTENDS `NetworkQuery`; the main loop is abstracted to its answer |
| `MC*` | instances for TLC | |
| `DotProduct` | the value of a row | the one sum that `RowTightening`, `Simplex` and `NetworkQuery` use |
| `SmtCoreProofs` (and `LpRepair`), `BoundsProofs`, `BoundsRefinement`, `RowTighteningProofs`, `LinkedTableauProofs`, `SimplexProofs`, `ExperimentsProofs`, `DotProductTheorems` | theorems | each EXTENDS what it proves about; `RowTighteningProofs` also `BoundsRefinement`, which EXTENDS `BoundsProofs` |

**SmtCore.** A pair is its f variable. `stack`, `fToViolations`,
`currentStackDepth` and `quit` are the variables of the code; `dissolved` is
`_dissolvedReluVariables`. `pc` says whether `solve` is at the head of its loop
or inside `SmtCore::pop`, whose iterations are single steps, since an exception
can end it between two. The data that a pop restores is abstracted to the
dissolved pairs. What tightening and the LP conclude is a *deduction*: it may
dissolve a pair in a phase, or report a conflict at a level, exactly if the
decisions up to there imply it. The query is the ghost `feasible`, the set of
*kinds* of its solutions (which phases each pair fits, both if b = f = 0).
`ClosedPhases` are phases that the caller's bounds contradict although the pair
is active; with them the update of a decision or of a flip throws.

**Bounds.** `current` is `_lowerBounds`, `_upperBounds` and the dissolved pairs;
`UpdateUpperBound` and `UpdateLowerBound` return the new state and the level
that was thrown, if one was. `LowerFollows`/`UpperFollows` say which bounds may
be learned at which level. `SolveLp`, `ApplyStoredLower/Upper` and
`DoneLearning` are `performGlpkBoundTightening`: bounds justified by the state
in which the LP ran are applied to one that has changed. `Restore*` is
`restoreTableauFromBackup`, one variable a step.

**RowTightening.** The tableau is represented by its row space: pivots keep it,
`unifyReluPair` changes it by adding b's column to f's. `RowsOf[M]` are the rows
some basis has when the pairs M are merged (vectors of minimal support); the LP
solver may report, and `tightenAllBounds` may use, any of them. `SumOf` gives
value and level as the code does. The instances have coefficients in -1..1, so
division by a coefficient is exact (`RowTighteningAssumption`, checked by TLC).
`fixOutOfBounds` gives all active pairs a slack row f - b - s = 0 or none
(`slacks`); the slack's bounds are 0 and what `computeSlackBounds` makes of the
bounds of b and f, with the larger of their levels, and the LP solver may report
bounds of slack variables as of any other, which are stored and applied only
where the code does. `BoundsHold` and `SplitLevelsSound` speak of slack bounds
too.

**LpRepair.** One boolean stands for the assignment: is something out of
bounds? Any step that changes bounds or assignment sets it freely, except that
with all pairs dissolved an assignment in bounds is a solution. Each end of
`fixOutOfBounds` is an action: solution (and the bounds learned), no solution,
exception of the row hook, failure.

**Simplex.** `st` is everything a restoration brings back: `tableau` (a row for
each basic variable, -1 at the variable itself), `assignment`, bounds,
dissolved pairs. `Pivot`, `Update`, `UnifyReluPair`, `UpdateUpperBound`, ... are
operators on such states, named after the functions; the ones that choose a
column return the set of their outcomes. The code takes the first column of its
list whose coefficient is not too small, the model any. Levels and the stack
are left out: a decision is an update of a bound (`UpdateBound`), and a run ends
in `"conflict"`, `"infeasible"` or `"refuted"` where the code pops, since a pop brings back a
state reached before. `"rejected"` is where the LP's solution turns out to be out of
bounds and the code restores; `LpSolutionKept` says that it never does. Reassertion and adjustment go variable by
variable. Coefficients must stay -1, 0 or 1 so that division is exact, which
`TableauForm` checks for the instances. Bounds are finite from the beginning.

The LP in `Simplex` is `lp`: a table with one row for every basic variable and,
if slacks are in use, one for every active pair (`LpTable`; the slack is a
variable of its own beyond `NumVariables`). Columns are what `addColumns`
counts: all variables but those eliminated and the b's merged (`LpColumns`).
`LpPivot` is a pivot inside the LP solver, on this table alone.
`LpSolutionFound` takes any vertex within the bounds, makes the solver's basis
that of the tableau, pivot by pivot as `extractBasicVariables` and
`fixOutOfBounds` do it (`AdjustedTo`), copies the values of the LP's variables
(`adjustGlpkAssignment` moves them to a bound only if rounding has put them
outside, so it changes nothing here) and computes those of basic ones from the
rows (`Calculated`). A basic slack leaves one
variable more non-basic in the tableau than in the LP, which then keeps a value
between its bounds. `LpNoSolution` is enabled exactly if the LP has no solution.

**LinkedTableau.** An entry is an address; `byRow` and `byColumn` hold heads,
sizes and links, `cell` what an entry says of itself (kept by a deleted entry,
as memory keeps it). Every turn of a loop in `Tableau.h` is an action, with its
local variables in `op`, `cursor` and `dense`; `pivoting` is the loop of
`Reluplex::pivot` around it, which walks a column while `addScaledRow` changes
it. Between operations the client chooses one that `Reluplex.h` or
`GlpkWrapper.h` could choose (a pivot, a merge, an elimination, a row written
cell by cell, store and restoration). Allocation takes any address that is not
live. `SparseMatrix` knows operations as assignments to a matrix; a call under
way has, abstractly, not happened yet.

**NetworkQuery, Experiments.** Queries are records; variables are numbered by
the drivers' formulas (`F`, `B`, `Aux`, ...), one copy standing for the twelve.
Bounds are partial functions, whose domains are the variables with a finite one.
`Propagated` reads off the rows which values the inputs give to all variables;
the solutions of a query are the inputs for which these are within its bounds.
`InitialUpdate` and `MakeBoundsFiniteOnRow` are the two parts of `initialize`,
merges and splits included. Inputs, weights and bounds are integers and are the
normalised ones. All 45 networks shipped have `symmetric` 0, so the branch of
`evaluate_network` for symmetric ones is left out. The search is abstracted to
the right answer, an error or an interruption, which is what the other modules
are about. A signal raises `_quit` of the solver `lastReluplex` points to; after
its destruction the pointer dangles, and the write reaches no solver.

## 3. Runs

| Run | Checks | Bounds |
|---|---|---|
| `smtcore_safety` | safety of the search, every sound deduction allowed | 4 pairs, budget 2, all queries with at most two kinds, phases closed by the caller |
| `smtcore_escape` | finding 1 | 3 pairs, budget 1 |
| `bounds_pairs` | justified levels, accepted assignments, answers, restoration, refinement of `SmtCore`; no bound loosened | 2 pairs, values -1..1, at most one pair dissolved before the main loop |
| `rows_bounds` | bounds from rows, those of slack variables included; levels right before any merge; every step one of `SmtCore`, but for a conflict after a merge that refutes all decisions and is thrown too low | the network of abs(x), thresholds 0..2 on its output |
| `rows_levels` | finding 2 | the same |
| `lp_progress` | refinement of `SmtCore` with its fairness, and of `CaseSplitting`, under arbitrary LP failures; the right answer in the end, quit | 2 pairs, budget 2, 3 failures |
| `lp_slacks` | finding 3 | the same |
| `simplex_abs` | form of the tableau, equations, non-basic variables within bounds, accepted solutions, refutations by a repair or the LP; the LP is that of the tableau and its solution survives; restorations of both kinds | the network of abs(x), bounds -2..2, decisions and updates of bounds as listed in `AbsUpdates` |
| `simplex_keep` | finding 4 | one pair, y = ReLU(-x) - z, bounds -2..2 |
| `tableau_lists` | lists, cells, cursors, sizes; refinement of `SparseMatrix`; every loop ends | 4 variables, 16 entries, values modulo 4, store and two more operations |
| `network_query` | the query means the question at every step of `initialize`; it throws no Error; the solver may start; log and robustness | 16 networks with 1-2-1-3 nodes, inputs -1..1, one SIGQUIT, errors anywhere |
| `robust_unsat` | finding 5 | the same |

Why the bounds suffice. A safety property of the search speaks of one solution
at a time, and more solutions only forbid steps: what can go wrong goes wrong
with one kind of solution, and a second one lets the answer be ambiguous
(`FewSolutions`). Three pairs give stacks deep enough for a pop that drops,
flips and drops again before it stops; the fourth is left for a decision after
it. In `Bounds` one pair reaches all cases of an update, a second one all
interleavings of stored bounds with dissolutions. The network of `RowTightening`
and `simplex_abs` is the smallest in which a row contains columns of both pairs,
so that merges link rows. In `LpRepair` the third failure is the first after the
slack switch, and only whether the allowance is used up matters beyond it;
`MaxTightenings` bounds the rounds of tightening between dissolutions, which the
code bounds only by its epsilon. In `LinkedTableau` a row and a column with
three entries have a first, a middle and a last one; two operations after a
store leave shared and vanished cells for the second to meet, and modulo 4 the
products and sums of non-zero values can be zero, which erases entries in the
middle of a loop. In `Experiments` the second hidden layer has rows of f's whose
pairs were merged, split or left by the rows before; three outputs are the
fewest with a runner-up before and one after the minimal output; the adversarial
experiment then has two parts.

Fairness. The solver is one thread that never blocks, so it takes its next step:
`WF(Search)` and `WF(Pop)` in `SmtCore`, `WF(Solve)` in `LpRepair`. Nothing is
assumed of the signal, of Errors, of which deduction is made, or of the LP
solver's success. In `LinkedTableau` a loop turn is always taken (`WF(Step)`),
since nothing else runs while a loop is under way; that another operation
follows is not assumed.

## 4. Proofs

All theorems hold for any number of pairs, variables, queries and bounds that
satisfy the named assumptions.

* `SmtCoreProofs`: types, and `SearchInv` is inductive. The safety properties are not
  inductive by themselves: a pop reads saved states, so these must be as
  justified as the present one (`SavedSound`) and must have been taken with the
  right pairs active (`SavedBeforeDecision`), the remembered depth may lag
  (`DepthLags`), and a pop in progress must stay justified (`PopStaysJustified`)
  by decisions whose first attempts are refuted (`SiblingsRefuted`). One lemma
  per action. `UnsatSound` follows when no phase is closed. That no pair is
  decided twice (`DecisionsDistinct`) is proved here and checked by no run.
  Every step of `SmtCore` is a step of `CaseSplitting` or a stutter
  (`SmtCoreImplementsCaseSplitting`); fairness of `CaseSplitting` is left to TLC.
  `LpRepair` is proved here too: the count of failed runs is known to the variables of
  the code (`FailuresInv`), hence `NoSlacksAfterTwoFailures`; and it takes only
  steps of `SmtCore`, hence inherits its safety and the refinement of
  `CaseSplitting`.
* `BoundsProofs`: types, and `BoundsJustified`. The induction needs the same of
  every saved state at its depth, of the bounds that the LP solver saw, and, in
  the middle of a restoration, of the bounds being rebuilt together with those
  they are rebuilt from; and that a dissolved pair has the bounds of its phase
  (`BoundsInv`). Lemmas state what each update of bounds preserves.
  Also `AcceptedSound` and `UnsatSound`. The main loop does not look
  at dissolved pairs nor at b's that were merged, so what it accepts is a solution
  only because of the *shape* of bounds (`Shape`, inductive for current, saved,
  stored and rebuilt states): an active pair has equal upper bounds and f's
  lower bound is 0; a split one has no positive upper bound; a merged f obeys
  all that b obeyed. UNSAT is right because an exception always carries the level
  of a real contradiction (`Contradiction`), the decisions up to that level are
  then refuted (`ContradictionRefutes`), and pops keep this (`RefuteInv`); this
  holds for any level of conflict analysis and without it.
* `BoundsRefinement`: first `RestoreExact`. A restoration asserts the bounds of variable
  0, 1, ... again, and the updates it uses change more than one variable, so that it
  is exact only for bounds that came to be in certain ways. `Traced` says
  which: a bound that is not tighter than the preprocessed one has not changed
  its level either; for a pair dissolved since, the merged f has at least b's
  lower bound. It is invariant under everything that learns, decides and pops.
  `Reproduced` says how far a restoration has come; its steps use that b is
  numbered before f, so that a merge or split happens when b is asserted and f's
  bounds follow. While stored bounds are applied, a merge must not be followed by
  an update of its b: lower bounds are applied first and in the order of the
  variables (`MergedHavePassed`).
  Then `NeverLoosened` and `ImplementsSearch`, the refinement of
  `SmtCore` by `Bounds`. Learning tightens because an active pair has equal upper
  bounds and lower bounds on either side of zero (`Shape`), so the second bound that an update
  overwrites moves the right way too. For the refinement, one lemma per action
  says which step of `SmtCore` it is, or that it changes nothing `SmtCore` knows:
  an update dissolves at most one pair, in a phase that its new bounds
  enforce (`Dissolves`), justified bounds make this phase implied by the
  decisions (`FollowersFit`), and a conflict refutes its level. Two things
  are not obvious and need one more invariant, `FollowInv`: what is accepted as a
  solution follows the decisions on the stack because decided pairs stay dissolved
  as they were decided (`Follows`), also in saved states; and a restoration never
  ends in a conflict (`RestorationAdmitted`), where `SmtCore` has no step to
  match. For a pair merged since the preprocessing this follows from `Traced`;
  for one merged before, b is in no row any more, its bounds must not have moved
  since (`Frozen`), and they are asserted unchanged.
* `RowTighteningProofs`: for every set of integer equations, whatever rows are used
  and in whatever order. The bounds of a state are read in two ways
  (`Readings`). In the first, every level stands for all decisions made; a
  bound then holds in every solution that follows them all, and this reading is
  always valid (`Everywhere`). In the second, a level stands for that many decisions; it is valid
  only while no pair has been merged since the preprocessing, since a merge
  changes rows by an equality that has no level. This is finding 2, seen from
  the other side: it is the only exception. A row that holds in the assignments of a
  reading gives bounds that hold in it (`RowBoundsFollow`), at the largest of the
  levels of the bounds it uses, and rows hold because they are combinations of
  equations whose columns were added for pairs that are equal there
  (`MergedZero`, `MergesHold`): a merge needs a b that is not negative
  (`MergeBounds`). `RowInv` says that present, stored and saved bounds and those of the
  slack variables are sound in both readings, each at its depth; hence `BoundsHold` (first
  reading) and `SplitLevelsSound` (second). The lemmas of `BoundsProofs` about
  updates, saved states and restorations are used again, with a reading in place of the
  followers of decisions.
  For the search, the first reading says that a conflict refutes all decisions
  together and that a pair is dissolved in a phase that they imply; the second, where it
  is valid, that a conflict refutes the decisions up to its level (`LevelRefutes`). So
  each step is one of `SmtCore`, except a conflict that comes after a merge and is thrown to
  a level that it does not refute: `MisjudgedConflict`. This is
  `SearchUnlessMisjudged`, proved for the search as it is, with conflict analysis, and
  without; `rows_bounds` reaches such conflicts. `RowSearchInvariant` is the
  invariant of the search; `AcceptedSound` needs no condition, and
  `RowUnsatUnlessMisjudged` says that no other step leads to a wrong UNSAT: it is right
  in every run without a misjudged conflict, for instance where no pair is
  merged after the preprocessing when bounds contradict each other.
  The verdict of the LP is right because it is about rows and bounds that hold.
* `LinkedTableauProofs`: everything `tableau_lists` checks of the lists, for
  any number of variables and entries, any values and any arithmetic on them. The
  loops are turned one by one, and between two turns the lists are whole but
  what a loop has still to do depends on its cursor, so `LinkedInv` says of
  every loop what is left: the entries from the cursor on are a chain of the list
  (`Left`, `Chain`), and a dense map names live entries of the target, with every one
  that an entry still to come will meet (`RowScanned`, `ColumnScanned`). The loop of `pivot` reads its cursor, calls
  `addScaledRow`, which may erase entries of the column it walks, and goes on from
  the link it has read: this is safe because a call clears only cells of the
  entering variable's column in its own target row, which is never a row still to come
  (`PivotInv`). The copy of a restoration takes sizes over before entries, so
  they are right only once it ends: `CopyCounted` counts what is left to copy. A row
  written cell by cell meets no entry because cells are written in order
  (`FillInv`). Lemmas say what linking, unlinking and freeing one entry does to any
  list and any chain. That source and target of a sum differ is an assumption on `Pairs` for
  merges and a fact about pivots (`PivotInv`).
  `ImplementsMatrix` says that the loops compute what `SparseMatrix` promises. `LinkedInv` says what a loop has
  still to do, `MatrixInv` what it has done: the cells are those before the call
  where the cursor, or the cursor of `pivot`, has still to come, and those of the
  result elsewhere (`Moving`, `Leaving`, `Clearing`, `Merging`, `Erasing`, `Copied`). One
  lemma per loop says which cell a turn changes (`ScaledTurn`, `ColumnTurn`, ...), one
  that `MatrixInv` is kept, and one what the caller sees. Two things are needed
  beside: a new row starts from zeros, and so does a cleared cell's target,
  because only basic variables have rows (`RowsBasic`); and where a row has no entry
  still to come, the cell there was zero, so adding its multiple changes
  nothing (`RowWhole`, `Zeros`). The proof uses no
  law of arithmetic but those of zero and that products commute, so nothing in it
  depends on values being integers modulo `Modulus`.
* `SimplexProofs`: what every sequence of pivots, updates, merges, repairs,
  eliminations, LP solutions and restorations keeps, for any number of variables,
  pairs and equations and any bounds. The invariant (`IInv`) is about rows,
  not about the assignment alone: *every* assignment that satisfies the rows, with
  eliminated variables at zero, satisfies the equations of the query when a merged b
  is read as its f (`RowsEntail`); rows are in basis form; columns of what was
  eliminated or merged are empty (`FormOK`); the bounds of the two variables of
  a pair agree as its phase demands (`Consistent`). A pivot on a unit has the
  same solutions (`PivotedZero`), a merge adds two columns after the values
  are equal (`JoinForm`), an elimination erases a column whose variable stays at zero
  (`EraseForm`). During a restoration, the bounds of a b still to be asserted are no
  tighter than what its f has if the pair is merged already (`Pending`), so a merged
  b never gets a bound that its f does not obey.
  The LP's table may be pivoted as the solver likes, its rows still give those of
  the tableau (`LpTableOK`), so its solution satisfies them, and the values
  calculated after any part of the pivots towards its basis are those of the
  solution (`ExtractedIsOK`): hence `LpSolutionKept`. `RefutationsRight`: a basic
  variable without a pivot candidate is at its extreme over all assignments within
  bounds (`BlockedIsExtreme`, from the signs of its row), and a slack row excludes
  only assignments that break its pair (`NoSlacksInfeasible`). `LpWellFormed`
  counts: basic, eliminated and merged variables and those with a column are
  disjoint and all there are.
  `NonBasicInBounds` and `AcceptedIsSolution` are false where a restoration
  repairs a pair by the index of b (finding 4), so `BoundsKept` and `AcceptedRight`
  are under the condition `[]RepairRight`: every such repair gives f what it should
  be. This excludes nothing else: other repairs, and restorations with the basis
  that meet no such pair, are covered (`simplex_abs` has both).
* `ExperimentsProofs`: all invariants of `network_query`, for networks of any
  number and size of layers with integer weights, every question of the drivers, any
  box and any number of signals. `Val(n, qu, x)` is what the network computes
  for each variable at inputs x. Three things are invariant of the query.
  `RowsForm`: the row of a node holds its weights, its bias and its b, or its f once
  the pair is merged; a merge changes that one row only, since b is in no other
  (`MergedRows`). Hence rows hold of `Val` where the merged pairs are active
  (`ValRows`), and determine it, layer by layer: `Propagated` is `Val`
  (`PropagatedIsVal`). `Holds`: merged pairs are active at x, each bound holds of
  `Val`, except that those which state the question (`Asked`: the slack variables',
  or output 0's) hold when the outputs answer it. A row whose other variables are within
  their bounds leaves bounds that hold of the last one (`RowBounds`), and none
  of the others states the question, so no bound found depends on the answer wanted
  (`RowBoundsHold`); a merge or split then happens only if b is of one sign throughout
  the box (`PairBoundsHold`). `Working`: which variables are bounded while the
  rows of the basic variables T are still to be visited. Auxiliary variables are
  numbered after all b's and f's, layer by layer, and slack variables after them
  (`Numbering`, `SlackNumbers`), so when a row is visited the f's in it have been bounded, and
  exactly its own variable is left (`NodeRemaining`, `SlackRemaining`): `initialize`
  throws no Error. `Working` also has the equations and that non-basic variables are within
  bounds, which the moves after each bound restore (`HiddenNode`, `PlainRow`). A refused query has a
  variable whose bounds cross, and keeps it; so a second `initialize` refutes
  it again (`Startable`). `ExperimentInvariant` puts this together with `Recorded`: the
  results so far are right, and belong to the outputs that were compared, each
  other output once (`RunnerUps`).
* `DotProductTheorems`: sums over rows are folds of the community modules; what they
  need (removing an element, linearity, order, two rows combined) is proved from
  their definition by taking a minimal subset for which it fails
  (`MinimalSubset`), as the induction theorems of the library cannot be used.

Assumptions (`BoundsAssumption`, `InitialPairs`, `SmtCoreAssumption`,
`SizesAssumption`, `SimplexAssumption`, `RowTighteningAssumption`,
`LayersAssumption`, `ExperimentsAssumption`): b is numbered
before its f, lower bounds of f are not negative, initial bounds have level 0 and
do not contradict each other (otherwise `initialize` has answered), and a pair
split before the main loop has f at zero; the two variables of a pair differ
(`LinkedTableau` adds the column of one to that of the other);
in `Simplex`, no two pairs share a b, auxiliary variables are in no pair, and each
is basic in one equation, with units as coefficients, as the constructor and the
drivers set them up; in `RowTightening`, equations are finitely many, their
coefficients integers, and a row of the tableau has only units; in `Experiments`, weights,
biases and inputs are integers, inputs are from a finite range, every layer has a node,
and there are two outputs at least (the shipped networks have five). `property2/main.cpp` 157-214 numbers
layer by layer. `InitialPairs` is the shape of the preprocessed state: the
drivers give f the lower bound 0, `setReluPair` and the updates in `initialize`
keep the upper bounds of an active pair equal, and a b whose lower bound is not
negative, or whose upper bound is not positive, has dissolved its pair; only a
lower bound that is not negative merges a pair, and b and f both get it
(`ReadyToSolve` checks the last for the queries of the drivers).

Only model-checked: that entries of the tableau
stay -1, 0 or 1 (`TableauForm`: it depends on the equations, and the theorems do
not use it, they hold for pivots on units whatever the other entries are);
and the liveness properties (`SolvesQuery`, `QuitStops`, `LoopsEnd`), which are out
of the prover's reach.

## 5. What the runs found

1. `smtcore_escape`: the exception of a flip inside `pop` leaves the search, and
   `solve` answers UNSAT with branches unexplored. It needs bounds of the caller
   that close a phase of an active pair; the drivers here give none, so the
   other runs assume none (`ClosedPhases = {}`).
2. `rows_levels`: the level of a learned bound ignores the level of the merges
   that shaped the row. A conflict that holds only under a merge is reported
   below it, and a satisfiable query is answered UNSAT: with both pairs of the
   network for abs(x) merged, x = 0 follows at level 0. `Bounds` assumes levels
   that cover everything; `rows_bounds` shows that they do before any merge, and that
   after one a conflict still refutes all decisions, if not those up to its level.
   `_useConflictAnalysis` is true and has no setter, so the level always counts.
3. `lp_slacks`: `_previousGlpkAnswer` is read uninitialised.
4. `simplex_keep`: `adjustBasicVariables` tests the sign of a variable's index
   (3182). A restoration that goes back to the basis in force may leave f
   non-basic at a negative value, which neither `allVarsWithinBounds` (basic
   variables only) nor `reluPairIsBroken` (f = 0 or f > 0 only) notices, and
   `solve` answers SAT. In the network for abs(x) every such pair pushes the
   output out of its bounds, and `simplex_abs` holds with both kinds of
   restoration; one more input suffices for the wrong answer.
5. `robust_unsat`: the adversarial driver prints UNSAT for a part that ended in
   an error or was interrupted, so four UNSAT results do not mean robustness, as
   the Readme says. The log tells them apart (`LogIsRight`).

Also met, without a run: a repair that "fixes the pair" may leave it broken, when
a merge has linked the rows of b and f (the loop then repairs it again); the
comment at `Reluplex.h` 42 says how many failures are allowed "before tableau
restoration", but every failure restores, and the eleventh ends the search;
failures count as "consecutive" (407) although runs of the LP solver that ended
in a conflict lie between them, because the exception passes by the lines that
reset the counter; a variable that left the LP's basis in exchange for a slack
may be non-basic strictly between its bounds, where the rest of the code expects
only bounds of non-basic variables to be respected, which they are
(`NonBasicInBounds`).

## 6. Not modelled, and what is left

* **Floating point**: all arithmetic is exact; tolerances, rounding and the
  measure of degradation are left out (the restoration that degradation causes
  is `Restore`).
* **GLPK** is vendored, about 104,000 of the repository's 142,000 lines, and only
  its simplex is called here. It is modelled as any solver whose answers are right
  for the LP it was given, or that fails, and that reports any row of a tableau of
  that LP. The patch fixes the numbering and calls the hook, no more. This,
  and the measurements, tools and examples beside it, is why the map covers a
  small share of all lines although it covers most of the program's own code.
* **`GlpkWrapper::extractTableau`**: `_glpkExtractJustBasics` is true from the
  constructor on and no program here calls its toggle, so the tableau is never
  extracted. `LinkedTableau` has the calls it makes, writing rows cell by cell.
* **Column slacks** (`USE_ROW_AND_COL_SLACK_VARIABLES`): no build selects them.
* **Reading networks, normalisation**: `Experiments` starts from a loaded network
  and normalised inputs.
* Statistics, logging but for the answers, strings, containers, scripts, and the
  test program `main.cpp`, which makes the drivers' calls on a fixed query.

Every invariant that a passing run checks is a theorem too, under the conditions
named in section 4, but for `TableauForm`.
Left: the composition of `Experiments` with the search, whose right answer it
takes from the other modules.
