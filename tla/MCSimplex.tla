----------------------------- MODULE MCSimplex -----------------------------
(***************************************************************************)
(* Model-checking instances of Simplex.                                    *)
(***************************************************************************)
EXTENDS Simplex, TLC

Row(entries) == [x \in Var |-> IF x \in DOMAIN entries THEN entries[x] ELSE 0]
Bound(x, side, v) == [var |-> x, side |-> side, val |-> v]

\* y = |x|: b1 = x, b2 = -x, y = f1 + f2.  Variables b1, f1, b2, f2, y and two
\* auxiliary ones.
AbsF == {1, 3}
AbsB == (1 :> 0) @@ (3 :> 2)
AbsEquations ==
  (5 :> Row((0 :> 1) @@ (2 :> 1) @@ (5 :> -1))) @@
  (6 :> Row((1 :> 1) @@ (3 :> 1) @@ (4 :> -1) @@ (6 :> -1)))
AbsQueries ==
  {[lower |-> (0 :> -2) @@ (2 :> -2) @@ (4 :> y) @@ [x \in Var |-> 0],
    upper |-> (5 :> 0) @@ (6 :> 0) @@ [x \in Var |-> 2]] : y \in {-1, 0, 1}}
\* Decisions on the pairs, and bounds on b1 and y.
AbsUpdates ==
  {Bound(1, "upper", 0), Bound(0, "lower", 0), Bound(3, "upper", 0), Bound(2, "lower", 0),
   Bound(0, "lower", 1), Bound(1, "upper", 1), Bound(4, "lower", 1),
   Bound(4, "upper", 1)}

\* y = ReLU(-x) - z.  Variables x, z, b, f, y and two auxiliary ones.
NegF == {3}
NegB == (3 :> 2)
NegEquations ==
  (5 :> Row((0 :> 1) @@ (2 :> 1) @@ (5 :> -1))) @@
  (6 :> Row((1 :> 1) @@ (4 :> 1) @@ (3 :> -1) @@ (6 :> -1)))
NegQueries ==
  {[lower |-> (3 :> 0) @@ (5 :> 0) @@ (6 :> 0) @@ [x \in Var |-> -2],
    upper |-> (5 :> 0) @@ (6 :> 0) @@ [x \in Var |-> 2]]}
NegUpdates == {Bound(0, "lower", 1), Bound(1, "lower", 1)}
=============================================================================
