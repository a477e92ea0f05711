--------------------------- MODULE MCLinkedTableau ---------------------------
(***************************************************************************)
(* A pair b = 0, f = 1, and two variables with a row: an auxiliary one and *)
(* the other input of its equation.  Modulo 4 the weights 2 vanish when    *)
(* they are added to, or multiplied by, one another.                       *)
(***************************************************************************)
EXTENDS LinkedTableau

Addresses == 1 .. 16
Weights == {0, 2}
GlpkWeights == {1}
Basics == {2, 3}
OnePair == {<<0, 1>>}
=============================================================================
