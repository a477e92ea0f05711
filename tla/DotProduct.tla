----------------------------- MODULE DotProduct -----------------------------
(***************************************************************************)
(* The value of a row: the sum of its coefficients, each times the value   *)
(* that belongs to it, over the variables S.  All sums over rows, columns  *)
(* and bounds are written with it.                                         *)
(***************************************************************************)
EXTENDS Integers, FiniteSetsExt

Dot(r, a, S) == MapThenSumSet(LAMBDA x : r[x] * a[x], S)
=============================================================================
