--------------------------- MODULE CaseSplitting ---------------------------
(***************************************************************************)
(* What a query to Reluplex promises, whatever the search strategy.        *)
(*                                                                         *)
(* A ReLU pair (b, f), f = max(b, 0), has two phases: SPLIT (the pair is   *)
(* inactive, b <= 0 and f = 0) and MERGE (it is active, b = f >= 0).  A    *)
(* solution fits one phase of every pair, or both where b = f = 0; the     *)
(* kind of a solution says which.  The query is satisfiable exactly when   *)
(* solutions of some kind exist.  A solver starts with every kind open,    *)
(* refutes kinds in bulk, and answers.                                     *)
(***************************************************************************)
CONSTANT F                    \* the ReLU pairs, named by their f variable

Phase == {"SPLIT", "MERGE"}
Kinds == [F -> {{"SPLIT"}, {"MERGE"}, Phase}]

VARIABLES
  feasible,                   \* the kinds of the solutions: the query itself
  open,                       \* the kinds not refuted so far
  verdict                     \* the answer, "NONE" while searching

vars == <<feasible, open, verdict>>

Init ==
  /\ feasible \in SUBSET Kinds
  /\ open = Kinds
  /\ verdict = "NONE"

(***************************************************************************)
(* A conflict refutes a set of kinds, none of which is feasible.    When  *)
(* that leaves nothing open the solver may say so in the same step.        *)
(***************************************************************************)
Refute(S) ==
  /\ verdict = "NONE"
  /\ S \cap feasible = {}
  /\ open' = open \ S
  /\ \/ verdict' = "NONE"
     \/ open' = {} /\ verdict' = "UNSAT"
  /\ UNCHANGED feasible

AnswerSat ==
  /\ verdict = "NONE"
  /\ open \cap feasible # {}
  /\ verdict' = "SAT"
  /\ UNCHANGED <<feasible, open>>

(***************************************************************************)
(* Interrupted, or stopped by an error: no claim about the query, and what *)
(* was refuted may be forgotten.                                           *)
(***************************************************************************)
GiveUp ==
  /\ verdict = "NONE"
  /\ verdict' \in {"NOT_DONE", "ERROR"}
  /\ open' \in SUBSET Kinds
  /\ open \subseteq open'
  /\ UNCHANGED feasible

Next ==
  \/ \E S \in SUBSET Kinds : Refute(S)
  \/ AnswerSat
  \/ GiveUp

Spec == Init /\ [][Next]_vars
=============================================================================
