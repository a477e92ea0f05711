------------------------------ MODULE MCBounds ------------------------------
(***************************************************************************)
(* Model-checking instances of Bounds.                                     *)
(***************************************************************************)
EXTENDS Bounds, TLC

\* Two pairs (0, 1) and (2, 3), numbered as the callers do.
TwoPairs == {1, 3}
TwoB == (1 :> 0) @@ (3 :> 2)

Small == -1..1

At0(v) == [val |-> v, level |-> 0]

\* What the initialisation leaves behind: the bounds of a pair agree, and a
\* pair whose phase they fix is dissolved.
Initial(d) ==
  [lower |-> [x \in Var |-> At0(IF x \in F \/ d[PairOf(x)] = "MERGE" THEN 0 ELSE -1)],
   upper |-> [x \in Var |-> At0(IF d[PairOf(x)] = "SPLIT" THEN 0 ELSE 1)],
   dissolved |-> d]

\* Both pairs active, or one of them dissolved.
AtMostOneDissolved ==
  {Initial(d) : d \in {e \in [F -> Phase \cup {Active}] : e[1] = Active \/ e[3] = Active}}

AtMostOne == {{}} \cup {{s} : s \in {a \in Assignments : \A f \in F : ReluHolds(a, f)}}
=============================================================================
