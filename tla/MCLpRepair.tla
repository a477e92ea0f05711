----------------------------- MODULE MCLpRepair -----------------------------
(***************************************************************************)
(* Model-checking instances of LpRepair: 10 failures of the LP solver are  *)
(* tolerated in the code, 3 here, enough for two in a row and for the      *)
(* Error.                                                                  *)
(***************************************************************************)
EXTENDS LpRepair

CONSTANTS f1, f2

NoClosedPhase == {}

\* Queries with at most one kind of solution: see FewSolutions of MCSmtCore.
AtMostOneKind == {{}} \cup {{a} : a \in Kinds}
=============================================================================
