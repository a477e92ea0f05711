-------------------------- MODULE MCRowTightening --------------------------
(***************************************************************************)
(* Model-checking instances of RowTightening.                              *)
(*                                                                         *)
(* The query |x| >= 1 for x in -1..1, as a network: b1 = x, b2 = -x and    *)
(* y = f1 + f2.  The variables are b1, f1, b2, f2, y, in this order.       *)
(***************************************************************************)
EXTENDS RowTightening, TLC

TwoPairs == {1, 3}
TwoB == (1 :> 0) @@ (3 :> 2)
Small == -2..2
Units == -1..1

Vector(s) == [x \in Var |-> s[x + 1]]

AbsoluteValue == {Vector(<<1, 0, 1, 0, 0>>), Vector(<<0, 1, 0, 1, -1>>)}

At0(v) == [val |-> v, level |-> 0]
Box(lo, up) ==
  [lower |-> [x \in Var |-> At0(lo[x + 1])],
   upper |-> [x \in Var |-> At0(up[x + 1])],
   dissolved |-> [f \in F |-> Active]]

\* y is at least, or at most, a bound that some or no inputs reach.
Thresholds ==
  {Box(<<-1, 0, -1, 0, y>>, <<1, 1, 1, 1, 2>>) : y \in 0..2}
    \cup {Box(<<-1, 0, -1, 0, 0>>, <<1, 1, 1, 1, y>>) : y \in 0..1}

NetworkQueries == {SolutionsOf(st) : st \in Thresholds}
=============================================================================
