----------------------------- MODULE MCSmtCore -----------------------------
(***************************************************************************)
(* Model-checking instances of SmtCore.                                    *)
(***************************************************************************)
EXTENDS SmtCore

CONSTANTS f1, f2

\* Queries with solutions of at most two kinds.  A deduction is guarded by a
\* condition on every solution, so fewer solutions only allow more steps, and
\* what a safety property claims it claims of each solution: whatever goes
\* wrong goes wrong with one kind; the second lets the answer be ambiguous.
FewSolutions == {{}} \cup {{a, b} : a, b \in Kinds}

\* The caller bounds b1 from below by a positive value, so that f1's pair
\* cannot be inactive, and f2's pair cannot be active.
CallerBounds == {<<f1, "SPLIT">>, <<f2, "MERGE">>}
=============================================================================
