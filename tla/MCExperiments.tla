--------------------------- MODULE MCExperiments ---------------------------
(***************************************************************************)
(* One input, hidden layers of two nodes and one, and three outputs.  The  *)
(* weights are 1 and -1; those of the second hidden layer, and one of the  *)
(* first, vary, so that pairs are active, inactive or undecided, in the    *)
(* second layer depending on the first.                                    *)
(***************************************************************************)
EXTENDS Experiments

Layers == [i \in 0 .. 3 |-> CASE i = 0 -> 1 [] i = 1 -> 2 [] i = 2 -> 1 [] i = 3 -> 3]

Signs == {-1, 1}

SomeNetworks ==
  {[weight |-> [i \in 1 .. 3 |->
                  CASE i = 1 -> [s \in {0} |-> [t \in {0, 1} |-> IF t = 0 THEN 1 ELSE w1]]
                    [] i = 2 -> [s \in {0, 1} |-> [t \in {0} |-> w2[s]]]
                    [] i = 3 -> [s \in {0} |-> [t \in 0 .. 2 |-> IF t = 1 THEN 1 ELSE -1]]],
    bias |-> [i \in 1 .. 3 |->
                CASE i = 1 -> [t \in {0, 1} |-> t]
                  [] i = 2 -> [t \in {0} |-> b2]
                  [] i = 3 -> [t \in 0 .. 2 |-> CASE t = 0 -> 1 [] t = 1 -> 0 [] t = 2 -> 2]]] :
     w1 \in Signs, w2 \in [{0, 1} -> Signs], b2 \in Signs}

Interval == -1 .. 1
=============================================================================
