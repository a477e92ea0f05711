-------------------------- MODULE ExperimentsProofs --------------------------
(***************************************************************************)
(* Proofs about Experiments and the queries of NetworkQuery: for networks  *)
(* of any size, with integer weights, and whatever question is asked about *)
(* them, the query encodes the network, initialize() neither loses nor     *)
(* adds a solution and never fails, and the answers logged are right.      *)
(*                                                                         *)
(* The argument.  Val(n, qu, x) gives every variable the value that the    *)
(* network computes for it at inputs x.  Rows keep the form that the driver*)
(* gave them, up to f in the place of b in the row of a merged pair        *)
(* (RowsForm), so they hold of Val and determine it: Propagated, which     *)
(* reads the values off the rows, is Val (PropagatedIsVal).  A query Holds *)
(* of x if its merged pairs are active there, its bounds that do not state *)
(* the question hold of Val, and all do when the outputs answer it; every  *)
(* step keeps this, because the bounds that a row leaves for a variable    *)
(* follow from the bounds of the others (RowBounds).                       *)
(*                                                                         *)
(* Rows are visited in the order of their basic variables, so that those of*)
(* a layer come after those of the layers before and before the slack      *)
(* variables'.  Working says which variables have bounds by then; it makes *)
(* the next row leave one variable without bounds (NodeRemaining,          *)
(* SlackRemaining).  ExperimentInvariant puts these together with what is  *)
(* recorded of the questions asked before.                                 *)
(***************************************************************************)
EXTENDS Experiments, DotProductTheorems, WellFoundedInduction

-----------------------------------------------------------------------------
(***************************************************************************)
(* Layers.  What holds of the first layer, and of the next one whenever it *)
(* holds of a layer, holds of all.                                         *)
(***************************************************************************)
LEMMA Reaches ==
  ASSUME NEW m \in Int, NEW n \in Int, NEW S, m \in S,
         \A i \in m .. n - 1 : i \in S => i + 1 \in S
  PROVE  m .. n \subseteq S
<1> DEFINE T == {k \in Nat : m + k <= n /\ m + k \notin S}
<1> SUFFICES ASSUME NEW x \in m .. n, x \notin S PROVE FALSE
  OBVIOUS
<1>1. x - m \in T
  OBVIOUS
<1> DEFINE Less == {ss \in Nat \X Nat : ss[1] < ss[2]}
<1>2. IsWellFoundedOn(Less, Nat)
  BY NatLessThanWellFounded DEF OpToRel
<1>3. PICK k \in T : \A l \in T : ~ (<<l, k>> \in Less)
  <2> HIDE DEF Less
  <2> QED
    BY <1>1, <1>2, WFMin
<1>4. k # 0
  OBVIOUS
<1>5. k - 1 \in Nat /\ k - 1 \notin T
  <2>1. k - 1 \in Nat /\ k \in Nat /\ <<k - 1, k>> \in Less
    BY <1>4
  <2> QED
    BY <1>3, <2>1
<1>6. m + (k - 1) \in S
  BY <1>5
<1>7. m + (k - 1) \in m .. n - 1
  BY <1>5
<1>8. (m + (k - 1)) + 1 = m + k
  BY <1>7
<1> QED
  BY <1>6, <1>7, <1>8

(***************************************************************************)
(* A recursion over layers has a function, if each value is of the type    *)
(* that its layer's is.                                                    *)
(***************************************************************************)
Recursive(g, m, n, base, step) ==
  g = [i \in m .. n |-> IF i = m THEN base ELSE step[<<i, g[i - 1]>>]]
\* Every value is of its layer's type.
Typed(g, m, n, Type) == \A i \in m .. n : g[i] \in Type[i]
\* The steps keep to the types.
TypedStep(step, m, n, Type) ==
  \A i \in m + 1 .. n : \A v \in Type[i - 1] : step[<<i, v>>] \in Type[i]

\* Such a function exists, and is typed.
LEMMA Recursion ==
  ASSUME NEW m \in Int, NEW n \in Int, NEW Type, NEW base, base \in Type[m], NEW step,
         TypedStep(step, m, n, Type)
  PROVE  \E g : Recursive(g, m, n, base, step) /\ Typed(g, m, n, Type)
<1> USE DEF Recursive, Typed, TypedStep
<1> DEFINE Is(g, k) == /\ g = [i \in m .. k |-> IF i = m THEN base ELSE step[<<i, g[i - 1]>>]]
                       /\ \A i \in m .. k : g[i] \in Type[i]
           S == {k \in Int : \E g : Is(g, k)}
<1>1. m \in S
  <2> DEFINE g == [i \in m .. m |-> base]
  <2>1. Is(g, m)
    OBVIOUS
  <2> QED
    BY <2>1
<1>2. ASSUME NEW k \in m .. n - 1, k \in S PROVE k + 1 \in S
  <2>1. PICK g : Is(g, k)
    BY <1>2
  <2> HIDE DEF S
  <2> DEFINE next == step[<<k + 1, g[k]>>]
             h == [i \in m .. k + 1 |-> IF i = k + 1 THEN next ELSE g[i]]
  <2>2. g[k] \in Type[(k + 1) - 1]
    BY <2>1
  <2>3. next \in Type[k + 1]
    BY <2>2
  <2> HIDE DEF next
  <2>4. \A i \in m .. k + 1 : h[i] \in Type[i]
    BY <2>1, <2>3
  <2>5. ASSUME NEW i \in m .. k + 1 PROVE h[i] = IF i = m THEN base ELSE step[<<i, h[i - 1]>>]
    <3>1. CASE i = k + 1
      BY <3>1 DEF next
    <3>2. CASE i # k + 1
      <4>1. i \in m .. k /\ h[i] = g[i] /\ (i # m => h[i - 1] = g[i - 1])
        BY <3>2
      <4>2. g[i] = IF i = m THEN base ELSE step[<<i, g[i - 1]>>]
        BY <2>1, <4>1
      <4> QED
        BY <4>1, <4>2
    <3> QED
      BY <3>1, <3>2
  <2>6. h = [i \in m .. k + 1 |-> IF i = m THEN base ELSE step[<<i, h[i - 1]>>]]
    BY <2>5
  <2>7. Is(h, k + 1)
    BY <2>4, <2>6
  <2> HIDE DEF Is, h
  <2> QED
    BY <2>7 DEF S
<1> HIDE DEF Is, S
<1>3. m .. n \subseteq S
  BY <1>1, <1>2, Reaches
<1>4. CASE m <= n
  BY <1>3, <1>4 DEF S, Is
<1>5. CASE m > n
  <2> DEFINE g == [i \in m .. n |-> base]
  <2>1. g = [i \in m .. n |-> IF i = m THEN base ELSE step[<<i, g[i - 1]>>]]
    BY <1>5
  <2> QED
    BY <1>5, <2>1
<1> QED
  BY <1>4, <1>5

-----------------------------------------------------------------------------
(***************************************************************************)
(* The numbering of variables.                                             *)
(***************************************************************************)
LEMMA Sizes ==
  /\ LastLayer \in Nat /\ LastLayer > 0
  /\ \A i \in 0 .. LastLayer : LayerSize[i] \in Nat /\ LayerSize[i] > 0
BY LayersAssumption

\* Where the variables of a layer start.
LEMMA StartFacts ==
  /\ Start[1] = 0
  /\ \A i \in 1 .. LastLayer + 1 : Start[i] \in Nat
  /\ \A i \in 2 .. LastLayer + 1 : Start[i] = Start[i - 1] + LayerSize[i - 2] + 2 * LayerSize[i - 1]
<1> DEFINE Is(g) == g = [i \in 1 .. LastLayer + 1 |->
              IF i = 1 THEN 0 ELSE g[i - 1] + LayerSize[i - 2] + 2 * LayerSize[i - 1]]
           step == [p \in (1 .. LastLayer + 1) \X Nat |->
                      p[2] + LayerSize[p[1] - 2] + 2 * LayerSize[p[1] - 1]]
           Type == [i \in 1 .. LastLayer + 1 |-> Nat]
<1>1. \A i \in 2 .. LastLayer + 1 : /\ LayerSize[i - 2] \in Nat /\ LayerSize[i - 1] \in Nat
                                    /\ i \in 1 .. LastLayer + 1 /\ i - 1 \in 1 .. LastLayer + 1
  BY Sizes
<1>2. \A i \in 2 .. LastLayer + 1 : \A v \in Nat :
        step[<<i, v>>] = v + LayerSize[i - 2] + 2 * LayerSize[i - 1] /\ step[<<i, v>>] \in Nat
  BY <1>1
<1>3. 1 \in 1 .. LastLayer + 1 /\ LastLayer + 1 \in Int
  BY Sizes
<1> HIDE DEF step
<1> HIDE DEF Type
<1>4. \E g : Is(g)
  <2>1. TypedStep(step, 1, LastLayer + 1, Type)
    <3> SUFFICES ASSUME NEW i \in 1 + 1 .. LastLayer + 1, NEW v \in Type[i - 1]
                 PROVE  step[<<i, v>>] \in Type[i]
      BY DEF TypedStep
    <3>1. i \in 2 .. LastLayer + 1 /\ Type[i - 1] = Nat /\ Type[i] = Nat
      BY <1>3 DEF Type
    <3> QED
      BY <3>1, <1>2
  <2>2. 0 \in Type[1] /\ 1 \in Int
    BY <1>3 DEF Type
  <2>3. PICK g : Recursive(g, 1, LastLayer + 1, 0, step) /\ Typed(g, 1, LastLayer + 1, Type)
    BY <2>1, <2>2, <1>3, Recursion
  <2>4. \A i \in 1 .. LastLayer + 1 : g[i] \in Nat
    BY <2>3 DEF Typed, Type
  <2>5. g = [i \in 1 .. LastLayer + 1 |-> g[i]]
    BY <2>3 DEF Recursive
  <2>6. \A i \in 1 .. LastLayer + 1 :
          g[i] = IF i = 1 THEN 0 ELSE g[i - 1] + LayerSize[i - 2] + 2 * LayerSize[i - 1]
    <3> SUFFICES ASSUME NEW i \in 1 .. LastLayer + 1, i # 1
                 PROVE  g[i] = g[i - 1] + LayerSize[i - 2] + 2 * LayerSize[i - 1]
      BY <1>3, <2>3 DEF Recursive
    <3>1. i \in 2 .. LastLayer + 1 /\ i - 1 \in 1 .. LastLayer + 1
      BY <1>3
    <3>2. g[i] = step[<<i, g[i - 1]>>]
      BY <2>3 DEF Recursive
    <3> QED
      BY <3>1, <3>2, <2>4, <1>2
  <2>7. Is(g)
    BY <2>5, <2>6
  <2> QED
    BY <2>7
<1>5. Is(Start)
  BY <1>4 DEF Start
<1>6. Start[1] = 0
  BY <1>5, <1>3
<1>7. \A i \in 2 .. LastLayer + 1 : Start[i] = Start[i - 1] + LayerSize[i - 2] + 2 * LayerSize[i - 1]
  BY <1>5, <1>1
<1>8. 1 .. LastLayer + 1 \subseteq {i \in 1 .. LastLayer + 1 : Start[i] \in Nat}
  <2> DEFINE S == {i \in 1 .. LastLayer + 1 : Start[i] \in Nat}
  <2>1. 1 \in S
    BY <1>6, <1>3
  <2>2. ASSUME NEW i \in 1 .. (LastLayer + 1) - 1, i \in S PROVE i + 1 \in S
    <3>1. i + 1 \in 2 .. LastLayer + 1 /\ (i + 1) - 1 = i
      BY Sizes
    <3>2. LayerSize[(i + 1) - 2] \in Nat /\ LayerSize[(i + 1) - 1] \in Nat
      BY <3>1, <1>1
    <3> QED
      BY <2>2, <3>1, <3>2, <1>7
  <2> HIDE DEF S
  <2>3. 1 .. LastLayer + 1 \subseteq S
    BY <2>1, <2>2, <1>3, Reaches
  <2> QED
    BY <2>3 DEF S
<1> QED
  BY <1>6, <1>7, <1>8

\* The number of pairs in the layers before, which places their auxiliary variables.
LEMMA ReluNodesFacts ==
  /\ ReluNodes[0] = 0
  /\ \A i \in 0 .. LastLayer - 1 : ReluNodes[i] \in Nat
  /\ \A i \in 1 .. LastLayer - 1 : ReluNodes[i] = ReluNodes[i - 1] + LayerSize[i]
<1> DEFINE n == LastLayer - 1
           Is(g) == g = [i \in 0 .. n |-> IF i = 0 THEN 0 ELSE g[i - 1] + LayerSize[i]]
           step == [p \in (0 .. n) \X Nat |-> p[2] + LayerSize[p[1]]]
           Type == [i \in 0 .. n |-> Nat]
<1>0. n \in Nat /\ 0 \in 0 .. n /\ 0 \in Int /\ n \in Int
  BY Sizes
<1>1. \A i \in 1 .. n : LayerSize[i] \in Nat /\ i \in 0 .. n /\ i - 1 \in 0 .. n
  BY Sizes
<1>2. \A i \in 1 .. n : \A v \in Nat : step[<<i, v>>] = v + LayerSize[i] /\ step[<<i, v>>] \in Nat
  BY <1>1
<1> HIDE DEF step, Type
<1>4. \E g : Is(g)
  <2>1. TypedStep(step, 0, n, Type)
    <3> SUFFICES ASSUME NEW i \in 0 + 1 .. n, NEW v \in Type[i - 1]
                 PROVE  step[<<i, v>>] \in Type[i]
      BY DEF TypedStep
    <3>1. i \in 1 .. n /\ Type[i - 1] = Nat /\ Type[i] = Nat
      BY <1>0 DEF Type
    <3> QED
      BY <3>1, <1>2
  <2>2. 0 \in Type[0]
    BY <1>0 DEF Type
  <2>3. PICK g : Recursive(g, 0, n, 0, step) /\ Typed(g, 0, n, Type)
    <3> HIDE DEF n
    <3> QED
      BY <2>1, <2>2, <1>0, Recursion
  <2>4. \A i \in 0 .. n : g[i] \in Nat
    BY <2>3 DEF Typed, Type
  <2>5. g = [i \in 0 .. n |-> g[i]]
    BY <2>3 DEF Recursive
  <2>6. \A i \in 0 .. n : g[i] = IF i = 0 THEN 0 ELSE g[i - 1] + LayerSize[i]
    <3> SUFFICES ASSUME NEW i \in 0 .. n, i # 0 PROVE g[i] = g[i - 1] + LayerSize[i]
      BY <1>0, <2>3 DEF Recursive
    <3>1. i \in 1 .. n /\ i - 1 \in 0 .. n
      BY <1>0
    <3>2. g[i] = step[<<i, g[i - 1]>>]
      BY <2>3 DEF Recursive
    <3> QED
      BY <3>1, <3>2, <2>4, <1>2
  <2>7. Is(g)
    BY <2>5, <2>6
  <2> QED
    BY <2>7
<1>5. Is(ReluNodes)
  BY <1>4 DEF ReluNodes
<1>6. ReluNodes[0] = 0
  BY <1>5, <1>0
<1>7. \A i \in 1 .. n : ReluNodes[i] = ReluNodes[i - 1] + LayerSize[i]
  BY <1>5, <1>1
<1>8. \A i \in 0 .. n : ReluNodes[i] \in Nat
  <2> DEFINE S == {i \in 0 .. n : ReluNodes[i] \in Nat}
  <2>1. 0 \in S
    BY <1>6, <1>0
  <2>2. ASSUME NEW i \in 0 .. n - 1, i \in S PROVE i + 1 \in S
    <3>1. i + 1 \in 1 .. n /\ (i + 1) - 1 = i
      BY <1>0
    <3> QED
      BY <2>2, <3>1, <1>1, <1>7
  <2> HIDE DEF S
  <2>3. 0 .. n \subseteq S
    BY <2>1, <2>2, <1>0, Reaches
  <2> QED
    BY <2>3 DEF S
<1> QED
  BY <1>6, <1>7, <1>8

\* The drivers compute the number of variables that they number.
LEMMA NumNodesSum ==
  NumNodes = LayerSize[0] + 3 * ReluNodes[LastLayer - 1] + 2 * LayerSize[LastLayer]
<1> DEFINE S == {i \in 1 .. LastLayer :
                   Start[i + 1] = LayerSize[0] + 3 * ReluNodes[i - 1] + 2 * LayerSize[i]}
<1>1. 1 \in S
  <2>1. 2 \in 2 .. LastLayer + 1 /\ 1 \in 1 .. LastLayer /\ LayerSize[0] \in Nat /\ LayerSize[1] \in Nat
    BY Sizes
  <2>2. Start[2] = 0 + LayerSize[0] + 2 * LayerSize[1]
    BY <2>1, StartFacts
  <2> QED
    BY <2>1, <2>2, ReluNodesFacts
<1>2. ASSUME NEW i \in 1 .. LastLayer - 1, i \in S PROVE i + 1 \in S
  <2> DEFINE k == i + 1
  <2>1. /\ k \in 1 .. LastLayer /\ k + 1 \in 2 .. LastLayer + 1 /\ i \in 0 .. LastLayer
        /\ k \in 0 .. LastLayer /\ (k + 1) - 1 = k /\ (k + 1) - 2 = i /\ k - 1 = i
        /\ i \in 0 .. LastLayer - 1 /\ i - 1 \in 0 .. LastLayer - 1
    BY Sizes
  <2>2. Start[k + 1] = Start[k] + LayerSize[i] + 2 * LayerSize[k]
    BY <2>1, StartFacts
  <2>3. Start[k] = LayerSize[0] + 3 * ReluNodes[i - 1] + 2 * LayerSize[i]
    BY <1>2
  <2>4. ReluNodes[i] = ReluNodes[i - 1] + LayerSize[i]
    BY ReluNodesFacts
  <2>5. /\ LayerSize[0] \in Nat /\ LayerSize[i] \in Nat /\ LayerSize[k] \in Nat
        /\ ReluNodes[i - 1] \in Nat
    BY <2>1, Sizes, ReluNodesFacts
  <2> HIDE DEF k
  <2>6. Start[k + 1] = LayerSize[0] + 3 * ReluNodes[i] + 2 * LayerSize[k]
    BY <2>2, <2>3, <2>4, <2>5
  <2>7. k \in S
    BY <2>1, <2>6
  <2> QED
    BY <2>7 DEF k
<1>3. LastLayer \in 1 .. LastLayer /\ 1 \in Int /\ LastLayer \in Int
  BY Sizes
<1> HIDE DEF S
<1>4. 1 .. LastLayer \subseteq S
  BY <1>1, <1>2, <1>3, Reaches
<1>5. LastLayer \in S
  BY <1>3, <1>4
<1> QED
  BY <1>5 DEF S, NumNodes

\* The numbers of a layer's variables come before those of the next.
LEMMA StartMonotone ==
  ASSUME NEW i \in 1 .. LastLayer, NEW k \in 1 .. LastLayer + 1, i < k
  PROVE  Start[i] + LayerSize[i - 1] + 2 * LayerSize[i] <= Start[k]
<1> DEFINE top == Start[i] + LayerSize[i - 1] + 2 * LayerSize[i]
           S == {l \in i + 1 .. LastLayer + 1 : top <= Start[l]}
<1>1. /\ i + 1 \in 2 .. LastLayer + 1 /\ (i + 1) - 1 = i /\ (i + 1) - 2 = i - 1
      /\ i \in 1 .. LastLayer + 1
      /\ Start[i] \in Nat /\ LayerSize[i] \in Nat /\ LayerSize[i - 1] \in Nat
      /\ i + 1 \in Int /\ LastLayer + 1 \in Int
  BY Sizes, StartFacts
<1>2. top \in Nat
  BY <1>1
<1>3. Start[i + 1] = top
  BY <1>1, StartFacts
<1>4. i + 1 \in S
  BY <1>1, <1>2, <1>3
<1>5. ASSUME NEW l \in i + 1 .. (LastLayer + 1) - 1, l \in S PROVE l + 1 \in S
  <2>1. /\ l + 1 \in 2 .. LastLayer + 1 /\ (l + 1) - 1 = l
        /\ l \in 1 .. LastLayer + 1 /\ l - 1 \in 0 .. LastLayer /\ l \in 0 .. LastLayer
        /\ (l + 1) - 2 = l - 1 /\ l + 1 \in i + 1 .. LastLayer + 1
    BY Sizes
  <2>2. Start[l + 1] = Start[l] + LayerSize[l - 1] + 2 * LayerSize[l]
    BY <2>1, StartFacts
  <2>3. Start[l] \in Nat /\ LayerSize[l - 1] \in Nat /\ LayerSize[l] \in Nat
    BY <2>1, Sizes, StartFacts
  <2> QED
    BY <2>1, <2>2, <2>3, <1>2, <1>5
<1> HIDE DEF S
<1>6. i + 1 .. LastLayer + 1 \subseteq S
  BY <1>1, <1>4, <1>5, Reaches
<1>7. k \in i + 1 .. LastLayer + 1
  BY Sizes
<1> QED
  BY <1>6, <1>7 DEF S

\* No two variables of nodes have one number.
LEMMA Numbering ==
  ASSUME NEW i \in 1 .. LastLayer, NEW k \in 1 .. LastLayer
  PROVE  /\ \A j \in Node(i), l \in Node(k) :
              /\ B(i, j) = B(k, l) => i = k /\ j = l
              /\ Aux(i, j) = Aux(k, l) => i = k /\ j = l
              /\ B(i, j) # Aux(k, l)
              /\ i < k => Aux(i, j) < Aux(k, l)
         /\ \A s \in Node(i - 1), t \in Node(k - 1) : F(i - 1, s) = F(k - 1, t) => i = k /\ s = t
         /\ \A s \in Node(i - 1), l \in Node(k) : F(i - 1, s) # B(k, l) /\ F(i - 1, s) # Aux(k, l)
         /\ \A j \in Node(i) : /\ B(i, j) \in 0 .. NumNodes - 1 /\ Aux(i, j) \in 0 .. NumNodes - 1
                               /\ B(i, j) \in Int /\ Aux(i, j) \in Int
         /\ \A s \in Node(i - 1) : F(i - 1, s) \in 0 .. NumNodes - 1 /\ F(i - 1, s) \in Int
         /\ NumNodes \in Nat
<1>1. /\ Start[i] \in Nat /\ Start[k] \in Nat /\ Start[LastLayer + 1] \in Nat
      /\ LayerSize[i] \in Nat /\ LayerSize[i - 1] \in Nat
      /\ LayerSize[k] \in Nat /\ LayerSize[k - 1] \in Nat
  BY Sizes, StartFacts
<1>2. /\ i < k => Start[i] + LayerSize[i - 1] + 2 * LayerSize[i] <= Start[k]
      /\ k < i => Start[k] + LayerSize[k - 1] + 2 * LayerSize[k] <= Start[i]
      /\ Start[i] + LayerSize[i - 1] + 2 * LayerSize[i] <= Start[LastLayer + 1]
      /\ Start[k] + LayerSize[k - 1] + 2 * LayerSize[k] <= Start[LastLayer + 1]
  BY StartMonotone, Sizes
<1>3. (i - 1) + 1 = i /\ (k - 1) + 1 = k
  OBVIOUS
<1> DEFINE a == Start[i] b == Start[k] e == Start[LastLayer + 1]
           p == LayerSize[i - 1] q == LayerSize[i] r == LayerSize[k - 1] u == LayerSize[k]
<1>4. /\ a \in Nat /\ b \in Nat /\ e \in Nat /\ p \in Nat /\ q \in Nat /\ r \in Nat /\ u \in Nat
      /\ i < k => a + p + 2 * q <= b
      /\ k < i => b + r + 2 * u <= a
      /\ a + p + 2 * q <= e /\ b + r + 2 * u <= e
      /\ i = k => a = b /\ p = r /\ q = u
  BY <1>1, <1>2
<1>5. \A j : /\ B(i, j) = a + p + j /\ Aux(i, j) = a + p + q + j
             /\ B(k, j) = b + r + j /\ Aux(k, j) = b + r + u + j
             /\ F(i - 1, j) = a + j /\ F(k - 1, j) = b + j
  BY <1>3 DEF B, Aux, F
<1>6. NumNodes = e /\ Node(i) = 0 .. q - 1 /\ Node(k) = 0 .. u - 1 /\ Node(i - 1) = 0 .. p - 1
      /\ Node(k - 1) = 0 .. r - 1
  BY DEF NumNodes, Node
<1> HIDE DEF a, b, e, p, q, r, u
<1>7. ASSUME NEW j \in Node(i), NEW l \in Node(k)
      PROVE  /\ B(i, j) = B(k, l) => i = k /\ j = l
             /\ Aux(i, j) = Aux(k, l) => i = k /\ j = l
             /\ B(i, j) # Aux(k, l)
             /\ i < k => Aux(i, j) < Aux(k, l)
  <2>1. j \in Nat /\ j < q /\ l \in Nat /\ l < u
    BY <1>4, <1>6
  <2>2. CASE i < k
    BY <2>1, <2>2, <1>4, <1>5
  <2>3. CASE i = k
    BY <2>1, <2>3, <1>4, <1>5
  <2>4. CASE i > k
    BY <2>1, <2>4, <1>4, <1>5
  <2> QED
    BY <2>2, <2>3, <2>4
<1>8. ASSUME NEW s \in Node(i - 1), NEW t \in Node(k - 1), F(i - 1, s) = F(k - 1, t)
      PROVE  i = k /\ s = t
  <2>1. s \in Nat /\ s < p /\ t \in Nat /\ t < r
    BY <1>4, <1>6
  <2>2. i = k
    BY <2>1, <1>4, <1>5, <1>8
  <2> QED
    BY <2>1, <2>2, <1>4, <1>5, <1>8
<1>9. ASSUME NEW s \in Node(i - 1), NEW l \in Node(k)
      PROVE  F(i - 1, s) # B(k, l) /\ F(i - 1, s) # Aux(k, l)
  <2>1. s \in Nat /\ s < p /\ l \in Nat /\ l < u
    BY <1>4, <1>6
  <2>2. CASE i < k
    BY <2>1, <2>2, <1>4, <1>5
  <2>3. CASE i = k
    BY <2>1, <2>3, <1>4, <1>5
  <2>4. CASE i > k
    BY <2>1, <2>4, <1>4, <1>5
  <2> QED
    BY <2>2, <2>3, <2>4
<1>10. ASSUME NEW j \in Node(i)
       PROVE  /\ B(i, j) \in 0 .. NumNodes - 1 /\ Aux(i, j) \in 0 .. NumNodes - 1
              /\ B(i, j) \in Int /\ Aux(i, j) \in Int
  <2>1. j \in Nat /\ j < q
    BY <1>4, <1>6
  <2> QED
    BY <2>1, <1>4, <1>5, <1>6
<1>11. ASSUME NEW s \in Node(i - 1) PROVE F(i - 1, s) \in 0 .. NumNodes - 1 /\ F(i - 1, s) \in Int
  <2>1. s \in Nat /\ s < p
    BY <1>4, <1>6
  <2> QED
    BY <2>1, <1>4, <1>5, <1>6
<1> QED
  BY <1>4, <1>6, <1>7, <1>8, <1>9, <1>10, <1>11

\* Every number below NumNodes is that of a variable of a node.
LEMMA Numbered ==
  ASSUME NEW v \in 0 .. NumNodes - 1
  PROVE  \E i \in 1 .. LastLayer :
           \/ \E s \in Node(i - 1) : v = F(i - 1, s)
           \/ \E j \in Node(i) : v = B(i, j) \/ v = Aux(i, j)
<1> DEFINE S == {i \in 1 .. LastLayer + 1 : v < Start[i] =>
                   \E k \in 1 .. LastLayer : Start[k] <= v /\ v < Start[k + 1]}
<1>1. 1 \in S
  BY StartFacts, Sizes
<1>2. ASSUME NEW i \in 1 .. (LastLayer + 1) - 1, i \in S PROVE i + 1 \in S
  <2>1. i \in 1 .. LastLayer /\ i + 1 \in 1 .. LastLayer + 1 /\ i \in 1 .. LastLayer + 1
    BY Sizes
  <2>2. Start[i] \in Nat /\ Start[i + 1] \in Nat /\ v \in Int
    BY <2>1, StartFacts
  <2>3. CASE v < Start[i]
    BY <1>2, <2>1, <2>3
  <2>4. CASE Start[i] <= v
    BY <2>1, <2>4
  <2> QED
    BY <2>2, <2>3, <2>4
<1>3. 1 \in Int /\ LastLayer + 1 \in Int /\ LastLayer + 1 \in 1 .. LastLayer + 1
  BY Sizes
<1> HIDE DEF S
<1>4. LastLayer + 1 \in S
  BY <1>1, <1>2, <1>3, Reaches
<1>5. v < Start[LastLayer + 1]
  BY StartFacts, <1>3 DEF NumNodes
<1>6. PICK k \in 1 .. LastLayer : Start[k] <= v /\ v < Start[k + 1]
  BY <1>4, <1>5 DEF S
<1> DEFINE a == Start[k] p == LayerSize[k - 1] q == LayerSize[k]
<1>7. k + 1 \in 2 .. LastLayer + 1 /\ (k + 1) - 1 = k /\ (k + 1) - 2 = k - 1 /\ (k - 1) + 1 = k
      /\ k \in 1 .. LastLayer + 1 /\ k \in 0 .. LastLayer /\ k - 1 \in 0 .. LastLayer
  BY Sizes
<1>8. Start[k + 1] = a + p + 2 * q
  BY <1>7, StartFacts
<1>9. /\ \A j : B(k, j) = a + p + j /\ Aux(k, j) = a + p + q + j /\ F(k - 1, j) = a + j
      /\ Node(k) = 0 .. q - 1 /\ Node(k - 1) = 0 .. p - 1
  BY <1>7 DEF B, Aux, F, Node
<1>10. a \in Nat /\ p \in Nat /\ q \in Nat /\ v \in Int /\ a <= v /\ v < a + p + 2 * q
  BY <1>6, <1>7, <1>8, Sizes, StartFacts
<1> HIDE DEF a, p, q
<1>11. CASE v < a + p
  <2>1. v - a \in Node(k - 1) /\ v = F(k - 1, v - a)
    BY <1>9, <1>10, <1>11
  <2> QED
    BY <2>1
<1>12. CASE a + p <= v /\ v < a + p + q
  <2> DEFINE j == v - (a + p)
  <2>1. j \in Node(k) /\ v = B(k, j)
    BY <1>9, <1>10, <1>12
  <2> HIDE DEF j
  <2> QED
    BY <2>1
<1>13. CASE a + p + q <= v
  <2> DEFINE j == v - (a + p + q)
  <2>1. j \in Node(k) /\ v = Aux(k, j)
    BY <1>9, <1>10, <1>13
  <2> HIDE DEF j
  <2> QED
    BY <2>1
<1> QED
  BY <1>10, <1>11, <1>12, <1>13

\* A question that a driver may ask.
IsQuestion(qu) ==
  /\ qu.target \in Outputs /\ qu.others \subseteq Outputs \ {qu.target}
  /\ qu.side \in {"lower", "upper", "output"}
  /\ qu.side = "output" => qu.target = 0 /\ qu.others = {}
  /\ qu.constantFirst \in BOOLEAN /\ qu.threshold \in Int

\* A layer has finitely many nodes, and a first one.
LEMMA NodeFinite ==
  ASSUME NEW i \in 0 .. LastLayer
  PROVE  IsFiniteSet(Node(i)) /\ Node(i) \subseteq Nat /\ 0 \in Node(i)
<1>1. LayerSize[i] - 1 \in Int /\ LayerSize[i] > 0 /\ LayerSize[i] \in Nat
  BY Sizes
<1>2. IsFiniteSet(0 .. LayerSize[i] - 1)
  BY <1>1, FS_Interval
<1> QED
  BY <1>1, <1>2 DEF Node

\* The numbers after those of the nodes are the constant's and the slack
\* variables', in some order.
LEMMA SlackNumbers ==
  ASSUME NEW qu, IsQuestion(qu)
  PROVE  /\ IsFiniteSet(qu.others) /\ Cardinality(qu.others) \in Nat
         /\ Var(qu) = 0 .. NumNodes + Cardinality(qu.others)
         /\ Constant(qu) \in NumNodes .. NumNodes + Cardinality(qu.others)
         /\ \A o \in qu.others :
              /\ Slack(qu, o) \in NumNodes .. NumNodes + Cardinality(qu.others)
              /\ Slack(qu, o) # Constant(qu)
              /\ \A p \in qu.others : Slack(qu, o) = Slack(qu, p) => o = p
         /\ \A v \in NumNodes .. NumNodes + Cardinality(qu.others) :
              v = Constant(qu) \/ \E o \in qu.others : v = Slack(qu, o)
<1> DEFINE O == qu.others
           n == Cardinality(O)
           Before(o) == {p \in O : p < o}
           rank == [o \in O |-> Cardinality(Before(o))]
<1>1. IsFiniteSet(O) /\ n \in Nat /\ O \subseteq Nat
  <2>1. IsFiniteSet(Outputs) /\ Outputs \subseteq Nat
    BY NodeFinite, Sizes DEF Outputs
  <2>2. O \in SUBSET Outputs
    BY DEF IsQuestion
  <2> HIDE DEF O
  <2> QED
    BY <2>1, <2>2, FS_Subset, FS_CardinalityType
<1> HIDE DEF O, n
<1>2. ASSUME NEW o \in O
      PROVE  IsFiniteSet(Before(o)) /\ Cardinality(Before(o)) \in 0 .. n - 1
  <2>1. Before(o) \in SUBSET O /\ o \notin Before(o)
    BY <1>1
  <2> HIDE DEF Before
  <2>2. IsFiniteSet(Before(o)) /\ Cardinality(Before(o)) <= Cardinality(O)
        /\ (Cardinality(O) = Cardinality(Before(o)) => O = Before(o))
    BY <2>1, <1>1, FS_Subset
  <2>3. Cardinality(Before(o)) \in Nat
    BY <2>2, FS_CardinalityType
  <2> QED
    BY <2>1, <2>2, <2>3, <1>1 DEF n
<1>3. ASSUME NEW o \in O, NEW p \in O, o < p PROVE rank[o] < rank[p]
  <2>1. Before(o) \in SUBSET Before(p) /\ o \in Before(p) /\ o \notin Before(o)
    <3>1. o \in Nat /\ p \in Nat
      BY <1>1
    <3>2. ASSUME NEW x \in O, x < o PROVE x < p
      <4>1. x \in Nat
        BY <1>1
      <4> QED
        BY <4>1, <3>1, <3>2, <1>3
    <3>3. Before(o) \subseteq Before(p)
      BY <3>2
    <3>4. o \in Before(p)
      BY <1>3
    <3>5. o \notin Before(o)
      BY <3>1
    <3> QED
      BY <3>3, <3>4, <3>5
  <2>2. IsFiniteSet(Before(p)) /\ Cardinality(Before(p)) \in Nat /\ Cardinality(Before(o)) \in Nat
    BY <1>2, <1>1
  <2> HIDE DEF Before
  <2>3. Cardinality(Before(o)) <= Cardinality(Before(p))
        /\ (Cardinality(Before(p)) = Cardinality(Before(o)) => Before(p) = Before(o))
    BY <2>1, <2>2, FS_Subset
  <2> QED
    BY <2>1, <2>2, <2>3
<1>4. \A o \in O : rank[o] \in 0 .. n - 1
  BY <1>2
<1>5. \A o, p \in O : rank[o] = rank[p] => o = p
  <2> SUFFICES ASSUME NEW o \in O, NEW p \in O, o # p PROVE rank[o] # rank[p]
    OBVIOUS
  <2>1. o < p \/ p < o
    BY <1>1
  <2>2. rank[o] \in Int /\ rank[p] \in Int
    BY <1>4, <1>1
  <2> HIDE DEF rank
  <2> QED
    BY <2>1, <2>2, <1>3
<1>6. \A k \in 0 .. n - 1 : \E o \in O : rank[o] = k
  <2>1. rank \in Injection(O, 0 .. n - 1)
    <3>1. rank \in [O -> 0 .. n - 1]
      BY <1>4
    <3> HIDE DEF rank
    <3> QED
      BY <1>5, <3>1 DEF Injection, IsInjective
  <2> HIDE DEF rank
  <2>2. IsFiniteSet(0 .. n - 1) /\ Cardinality(0 .. n - 1) = n
    <3>1. n - 1 \in Int /\ 0 \in Int
      BY <1>1
    <3>2. IsFiniteSet(0 .. n - 1) /\ Cardinality(0 .. n - 1) = IF 0 > n - 1 THEN 0 ELSE (n - 1) - 0 + 1
      BY <3>1, FS_Interval
    <3> QED
      BY <3>2, <1>1
  <2>3. rank \in Surjection(O, 0 .. n - 1)
    BY <2>1, <2>2, FS_Injection DEF n
  <2> QED
    BY <2>3 DEF Surjection
<1>7. NumNodes \in Nat
  BY Numbering, Sizes
<1> DEFINE first == IF qu.constantFirst THEN 1 ELSE 0
<1>8. \A o \in O : Slack(qu, o) = NumNodes + first + rank[o]
  BY DEF Slack, O
<1>9. Constant(qu) = IF qu.constantFirst THEN NumNodes ELSE NumNodes + n
  BY DEF Constant, n, O
<1>10. Var(qu) = 0 .. NumNodes + n
  <2>1. NumVariables(qu) = NumNodes + n + 1
    BY NumNodesSum DEF NumVariables, n, O
  <2> QED
    BY <2>1, <1>1, <1>7 DEF Var
<1> HIDE DEF rank
<1>11. \A o \in O : Slack(qu, o) \in NumNodes .. NumNodes + n /\ Slack(qu, o) # Constant(qu)
  <2> TAKE o \in O
  <2>1. rank[o] \in Nat /\ rank[o] < n
    BY <1>4, <1>1
  <2>2. CASE qu.constantFirst
    BY <2>1, <2>2, <1>1, <1>7, <1>8, <1>9
  <2>3. CASE ~qu.constantFirst
    BY <2>1, <2>3, <1>1, <1>7, <1>8, <1>9
  <2> QED
    BY <2>2, <2>3
<1>12. \A o, p \in O : Slack(qu, o) = Slack(qu, p) => o = p
  <2> TAKE o, p \in O
  <2>1. rank[o] \in Nat /\ rank[p] \in Nat /\ first \in Nat
    BY <1>4, <1>1
  <2> HIDE DEF first
  <2>2. Slack(qu, o) = Slack(qu, p) => rank[o] = rank[p]
    BY <2>1, <1>7, <1>8
  <2> QED
    BY <2>2, <1>5
<1>13. \A v \in NumNodes .. NumNodes + n : v = Constant(qu) \/ \E o \in O : v = Slack(qu, o)
  <2> SUFFICES ASSUME NEW v \in NumNodes .. NumNodes + n, v # Constant(qu)
               PROVE  \E o \in O : v = Slack(qu, o)
    OBVIOUS
  <2> DEFINE k == v - NumNodes - first
  <2>1. k \in 0 .. n - 1
    BY <1>1, <1>7, <1>9 DEF IsQuestion
  <2>2. v = NumNodes + first + k
    BY <1>7 DEF IsQuestion
  <2> HIDE DEF k
  <2>3. PICK o \in O : rank[o] = k
    BY <2>1, <1>6
  <2> QED
    BY <2>2, <2>3, <1>8
<1>14. Constant(qu) \in NumNodes .. NumNodes + n
  BY <1>1, <1>7, <1>9 DEF IsQuestion
<1> QED
  BY <1>1, <1>10, <1>11, <1>12, <1>13, <1>14 DEF O, n

\* Layers and their neighbours.
LEMMA LayerIndices ==
  /\ \A i \in Hidden : /\ i \in 1 .. LastLayer /\ i + 1 \in 1 .. LastLayer /\ (i + 1) - 1 = i
                       /\ i # LastLayer /\ i \in Int
  /\ \A i \in 1 .. LastLayer : i \in Hidden \/ i = LastLayer
  /\ \A i \in 1 .. LastLayer : i - 1 = 0 \/ i - 1 \in Hidden
  /\ \A i \in 1 .. LastLayer : i - 1 \in 0 .. LastLayer /\ i \in 0 .. LastLayer /\ i \in Int
  /\ LastLayer \in 1 .. LastLayer /\ 1 \in 1 .. LastLayer
  /\ Inputs = Node(0) /\ Outputs = Node(LastLayer)
  /\ \A s : F(0, s) = 0 + s
BY Sizes, StartFacts DEF Hidden, Inputs, Outputs, F

\* The kinds of variables, and their numbers.
LEMMA NodeVariables ==
  ASSUME NEW qu, IsQuestion(qu)
  PROVE  /\ \A i \in 1 .. LastLayer : \A j \in Node(i) :
              /\ B(i, j) \in Var(qu) /\ B(i, j) \notin Basics(qu) /\ B(i, j) \notin Inputs
              /\ B(i, j) # Constant(qu) /\ B(i, j) < NumNodes /\ B(i, j) \notin AuxVars
              /\ Aux(i, j) \in AuxVars /\ Aux(i, j) \in Basics(qu)
         /\ \A i \in Hidden : \A j \in Node(i) :
              /\ F(i, j) \in Var(qu) /\ F(i, j) \notin Basics(qu) /\ F(i, j) \notin Inputs
              /\ F(i, j) # Constant(qu) /\ F(i, j) < NumNodes /\ F(i, j) \notin AuxVars
              /\ \A k \in 1 .. LastLayer : \A l \in Node(k) : F(i, j) # B(k, l)
              /\ \A k \in Hidden : \A l \in Node(k) : F(i, j) = F(k, l) => i = k /\ j = l
         /\ \A s \in Inputs : /\ s \in Var(qu) /\ s \notin Basics(qu) /\ s # Constant(qu)
                              /\ s \notin AuxVars /\ s < NumNodes /\ F(0, s) = s
                              /\ \A k \in 1 .. LastLayer : \A l \in Node(k) : s # B(k, l)
         /\ \A y \in AuxVars : /\ y \in Var(qu) /\ y < NumNodes /\ y # Constant(qu)
                               /\ \E i \in 1 .. LastLayer : \E j \in Node(i) : y = Aux(i, j)
         /\ Constant(qu) \in Var(qu) /\ Constant(qu) \notin Basics(qu) /\ Constant(qu) >= NumNodes
         /\ \A o \in qu.others :
              /\ Slack(qu, o) \in Var(qu) /\ Slack(qu, o) \in Basics(qu)
              /\ Slack(qu, o) >= NumNodes /\ Slack(qu, o) \notin AuxVars
              /\ Slack(qu, o) \notin Inputs
              /\ Slack(qu, o) # Constant(qu)
         /\ Var(qu) \subseteq Int /\ NumNodes \in Int
<1>1. NumNodes \in Nat
  BY Numbering, Sizes
<1>2. Cardinality(qu.others) \in Nat
  BY SlackNumbers
<1>3. 0 .. NumNodes - 1 \subseteq Var(qu) /\ NumNodes .. NumNodes + Cardinality(qu.others) \subseteq Var(qu)
      /\ Var(qu) \subseteq Int
  BY <1>1, <1>2, SlackNumbers
<1>4. \A v \in 0 .. NumNodes - 1 : v < NumNodes /\ ~(v >= NumNodes)
  BY <1>1
<1>5. \A v \in NumNodes .. NumNodes + Cardinality(qu.others) : v >= NumNodes /\ ~(v < NumNodes)
  BY <1>1, <1>2
<1>6. \A y \in AuxVars : \E i \in 1 .. LastLayer : \E j \in Node(i) : y = Aux(i, j)
  BY DEF AuxVars
<1>7. \A i \in 1 .. LastLayer : \A j \in Node(i) : Aux(i, j) \in AuxVars
  BY DEF AuxVars
<1>8. \A y \in AuxVars : y \in 0 .. NumNodes - 1
  BY <1>6, Numbering
<1>9. \A y \in Basics(qu) : y \in AuxVars \/ \E o \in qu.others : y = Slack(qu, o)
  BY DEF Basics, SlackVars
<1>10. \A y \in Basics(qu) : y \in AuxVars \/ y \in NumNodes .. NumNodes + Cardinality(qu.others)
  BY <1>9, SlackNumbers
<1>11. \A v \in 0 .. NumNodes - 1 : v \notin AuxVars => v \notin Basics(qu)
  BY <1>4, <1>5, <1>10
<1>12. Constant(qu) \in NumNodes .. NumNodes + Cardinality(qu.others)
  BY SlackNumbers
<1>13. \A s \in Inputs : F(0, s) = s /\ s \in Node(1 - 1)
  BY LayerIndices, NodeFinite, Sizes
<1>14. ASSUME NEW i \in 1 .. LastLayer, NEW j \in Node(i)
       PROVE  /\ B(i, j) \in 0 .. NumNodes - 1 /\ B(i, j) \notin Inputs /\ B(i, j) \notin AuxVars
  <2>1. B(i, j) \in 0 .. NumNodes - 1
    BY Numbering
  <2>2. B(i, j) \notin AuxVars
    BY <1>6, Numbering
  <2>3. \A s \in Inputs : s # B(i, j)
    <3> TAKE s \in Inputs
    <3>1. F(1 - 1, s) # B(i, j)
      BY <1>13, Numbering, LayerIndices
    <3> QED
      BY <3>1, <1>13
  <2> QED
    BY <2>1, <2>2, <2>3
<1>15. ASSUME NEW i \in Hidden, NEW j \in Node(i)
       PROVE  /\ F(i, j) \in 0 .. NumNodes - 1 /\ F(i, j) \notin Inputs /\ F(i, j) \notin AuxVars
              /\ \A k \in 1 .. LastLayer : \A l \in Node(k) : F(i, j) # B(k, l)
              /\ \A k \in Hidden : \A l \in Node(k) : F(i, j) = F(k, l) => i = k /\ j = l
  <2>1. i + 1 \in 1 .. LastLayer /\ (i + 1) - 1 = i /\ i \in 1 .. LastLayer /\ i \in Int
    BY LayerIndices
  <2>2. F(i, j) \in 0 .. NumNodes - 1
    BY <2>1, Numbering
  <2>3. \A k \in 1 .. LastLayer : \A l \in Node(k) : F(i, j) # B(k, l) /\ F(i, j) # Aux(k, l)
    BY <2>1, Numbering
  <2>4. F(i, j) \notin AuxVars
    BY <1>6, <2>3
  <2>5. ASSUME NEW k \in Hidden, NEW l \in Node(k), F(i, j) = F(k, l)
        PROVE  i = k /\ j = l
    <3>1. k + 1 \in 1 .. LastLayer /\ (k + 1) - 1 = k /\ k \in Int
      BY LayerIndices
    <3>2. i + 1 = k + 1 /\ j = l
      BY <2>1, <2>5, <3>1, Numbering
    <3> QED
      BY <2>1, <3>1, <3>2
  <2>6. \A s \in Inputs : s # F(i, j)
    <3> TAKE s \in Inputs
    <3>1. F(1 - 1, s) = F(i, j) => 1 = i + 1
      BY <1>13, <2>1, Numbering, LayerIndices
    <3> QED
      BY <3>1, <1>13, <2>1
  <2> QED
    BY <2>2, <2>3, <2>4, <2>5, <2>6
<1>16. ASSUME NEW s \in Inputs
       PROVE  s \in 0 .. NumNodes - 1 /\ s \notin AuxVars
  <2>1. F(1 - 1, s) \in 0 .. NumNodes - 1
    BY <1>13, Numbering, LayerIndices
  <2>2. \A k \in 1 .. LastLayer : \A l \in Node(k) : F(1 - 1, s) # Aux(k, l)
    BY <1>13, Numbering, LayerIndices
  <2> QED
    BY <2>1, <2>2, <1>6, <1>13
<1>17. \A o \in qu.others : Slack(qu, o) \in NumNodes .. NumNodes + Cardinality(qu.others)
                            /\ Slack(qu, o) # Constant(qu) /\ Slack(qu, o) \in Basics(qu)
  BY SlackNumbers DEF Basics, SlackVars
<1>18. Constant(qu) \notin Basics(qu)
  BY <1>4, <1>5, <1>8, <1>9, <1>12, <1>17
<1>19. AuxVars \subseteq Basics(qu)
  BY DEF Basics
<1>20. ASSUME NEW i \in 1 .. LastLayer, NEW j \in Node(i)
       PROVE /\ B(i, j) \in Var(qu) /\ B(i, j) \notin Basics(qu) /\ B(i, j) \notin Inputs
             /\ B(i, j) # Constant(qu) /\ B(i, j) < NumNodes /\ B(i, j) \notin AuxVars
             /\ Aux(i, j) \in AuxVars /\ Aux(i, j) \in Basics(qu)
  BY <1>3, <1>4, <1>5, <1>7, <1>11, <1>12, <1>14, <1>19
<1>21. ASSUME NEW i \in Hidden, NEW j \in Node(i)
       PROVE /\ F(i, j) \in Var(qu) /\ F(i, j) \notin Basics(qu) /\ F(i, j) \notin Inputs
             /\ F(i, j) # Constant(qu) /\ F(i, j) < NumNodes /\ F(i, j) \notin AuxVars
  BY <1>3, <1>4, <1>5, <1>11, <1>12, <1>15
<1>22. ASSUME NEW s \in Inputs
       PROVE /\ s \in Var(qu) /\ s \notin Basics(qu) /\ s # Constant(qu)
             /\ s \notin AuxVars /\ s < NumNodes /\ F(0, s) = s
             /\ \A k \in 1 .. LastLayer : \A l \in Node(k) : s # B(k, l)
  BY <1>3, <1>4, <1>5, <1>11, <1>12, <1>13, <1>14, <1>16
<1>23. ASSUME NEW y \in AuxVars
       PROVE  y \in Var(qu) /\ y < NumNodes /\ y # Constant(qu)
  BY <1>3, <1>4, <1>5, <1>8, <1>12
<1>24. Constant(qu) \in Var(qu) /\ Constant(qu) >= NumNodes
  BY <1>3, <1>5, <1>12
<1>25. ASSUME NEW o \in qu.others
       PROVE  /\ Slack(qu, o) \in Var(qu) /\ Slack(qu, o) >= NumNodes /\ Slack(qu, o) \notin AuxVars
              /\ Slack(qu, o) \notin Inputs
  BY <1>3, <1>4, <1>5, <1>8, <1>16, <1>17
<1> QED
  BY <1>1, <1>3, <1>6, <1>15, <1>17, <1>18, <1>20, <1>21, <1>22, <1>23, <1>24, <1>25

\* The pairs are those of the hidden nodes; no other variable has one.
LEMMA PairFacts ==
  /\ \A p \in Pairs : \E i \in Hidden : \E j \in Node(i) : p = <<B(i, j), F(i, j)>>
  /\ \A i \in Hidden : \A j \in Node(i) :
       /\ <<B(i, j), F(i, j)>> \in Pairs
       /\ IsRelu(B(i, j)) /\ PairOf(B(i, j)) = <<B(i, j), F(i, j)>>
  /\ \A i, k \in Hidden : \A j \in Node(i), l \in Node(k) :
       B(i, j) = B(k, l) => i = k /\ j = l
  /\ \A j \in Outputs : ~IsRelu(B(LastLayer, j))
  /\ \A v : v >= NumNodes /\ v \in Int => ~IsRelu(v)
<1>1. \A p \in Pairs : \E i \in Hidden : \E j \in Node(i) : p = <<B(i, j), F(i, j)>>
  BY DEF Pairs
<1>2. \A i \in Hidden : \A j \in Node(i) : <<B(i, j), F(i, j)>> \in Pairs
  BY DEF Pairs
<1>3. \A i, k \in Hidden : \A j \in Node(i), l \in Node(k) :
        /\ B(i, j) = B(k, l) => i = k /\ j = l
        /\ F(i, j) # B(k, l)
  <2> TAKE i, k \in Hidden
  <2> TAKE j \in Node(i), l \in Node(k)
  <2>1. i \in 1 .. LastLayer /\ k \in 1 .. LastLayer /\ i + 1 \in 1 .. LastLayer /\ (i + 1) - 1 = i
    BY LayerIndices
  <2>2. F((i + 1) - 1, j) # B(k, l)
    BY <2>1, Numbering
  <2> QED
    BY <2>1, <2>2, Numbering
<1>4. ASSUME NEW i \in Hidden, NEW j \in Node(i)
      PROVE  IsRelu(B(i, j)) /\ PairOf(B(i, j)) = <<B(i, j), F(i, j)>>
  <2> DEFINE v == B(i, j) q == <<B(i, j), F(i, j)>>
  <2>1. q \in Pairs /\ q[1] = v
    BY <1>2
  <2>2. \A p \in Pairs : v \in {p[1], p[2]} => p = q
    <3> SUFFICES ASSUME NEW p \in Pairs, v \in {p[1], p[2]} PROVE p = q
      OBVIOUS
    <3>1. PICK k \in Hidden : \E l \in Node(k) : p = <<B(k, l), F(k, l)>>
      BY <1>1
    <3>2. PICK l \in Node(k) : p = <<B(k, l), F(k, l)>>
      BY <3>1
    <3>3. v = B(k, l)
      BY <1>3, <3>2
    <3>4. i = k /\ j = l
      BY <1>3, <3>3
    <3> QED
      BY <3>2, <3>4
  <2> HIDE DEF v, q
  <2>3. IsRelu(v)
    BY <2>1 DEF IsRelu
  <2>4. PairOf(v) = q
    BY <2>1, <2>2 DEF PairOf
  <2> QED
    BY <2>3, <2>4 DEF v, q
<1>5. ASSUME NEW j \in Outputs PROVE ~IsRelu(B(LastLayer, j))
  <2> SUFFICES ASSUME NEW p \in Pairs, B(LastLayer, j) \in {p[1], p[2]} PROVE FALSE
    BY DEF IsRelu
  <2>1. PICK k \in Hidden : \E l \in Node(k) : p = <<B(k, l), F(k, l)>>
    BY <1>1
  <2>2. PICK l \in Node(k) : p = <<B(k, l), F(k, l)>>
    BY <2>1
  <2>3. /\ k \in 1 .. LastLayer /\ k + 1 \in 1 .. LastLayer /\ (k + 1) - 1 = k /\ k # LastLayer
        /\ LastLayer \in 1 .. LastLayer /\ Outputs = Node(LastLayer)
    BY LayerIndices
  <2>4. F((k + 1) - 1, l) # B(LastLayer, j)
    BY <2>3, Numbering
  <2>5. B(LastLayer, j) # B(k, l)
    BY <2>3, Numbering
  <2> QED
    BY <2>2, <2>3, <2>4, <2>5
<1>6. ASSUME NEW v \in Int, v >= NumNodes PROVE ~IsRelu(v)
  <2> SUFFICES ASSUME NEW p \in Pairs, v \in {p[1], p[2]} PROVE FALSE
    BY DEF IsRelu
  <2>1. PICK k \in Hidden : \E l \in Node(k) : p = <<B(k, l), F(k, l)>>
    BY <1>1
  <2>2. PICK l \in Node(k) : p = <<B(k, l), F(k, l)>>
    BY <2>1
  <2>3. k \in 1 .. LastLayer /\ k + 1 \in 1 .. LastLayer /\ (k + 1) - 1 = k
    BY LayerIndices
  <2>4. F((k + 1) - 1, l) \in 0 .. NumNodes - 1 /\ B(k, l) \in 0 .. NumNodes - 1 /\ NumNodes \in Nat
    BY <2>3, Numbering
  <2> QED
    BY <2>2, <2>3, <2>4, <1>6
<1> QED
  BY <1>1, <1>2, <1>3, <1>4, <1>5, <1>6

-----------------------------------------------------------------------------
(***************************************************************************)
(* What the network computes.                                              *)
(***************************************************************************)
\* Integer weights and biases.
IsNetwork(n) ==
  \A i \in 1 .. LastLayer : \A j \in Node(i) :
    n.bias[i][j] \in Int /\ \A s \in Node(i - 1) : n.weight[i][s][j] \in Int

\* A layer's values, from those of the layer before.
LayerOf(n, i, previous) ==
  [j \in Node(i) |-> IF i = LastLayer THEN WeightedSum(n, i, j, previous)
                     ELSE Relu(WeightedSum(n, i, j, previous))]

\* The values of all layers; the outputs are the last ones.
IsValues(n, x, value) ==
  value = [i \in 0 .. LastLayer |-> IF i = 0 THEN x ELSE LayerOf(n, i, value[i - 1])]
\* The values of the layers, one for each node.
Values(n, x) == CHOOSE value : IsValues(n, x, value)

\* evaluate_network returns the last layer's values.
LEMMA EvaluateIsLast ==
  ASSUME NEW n, NEW x
  PROVE  Evaluate(n, x) = Values(n, x)[LastLayer]
BY DEF Evaluate, Values, IsValues, LayerOf

\* A node's sum is an integer.
LEMMA WeightedSumInt ==
  ASSUME NEW n, IsNetwork(n), NEW i \in 1 .. LastLayer, NEW j \in Node(i),
         NEW previous \in [Node(i - 1) -> Int]
  PROVE  WeightedSum(n, i, j, previous) \in Int
<1> DEFINE w == [s \in Node(i - 1) |-> n.weight[i][s][j]]
<1>1. IsFiniteSet(Node(i - 1))
  BY LayerIndices, NodeFinite
<1>2. IntOn(w, Node(i - 1)) /\ IntOn(previous, Node(i - 1))
  BY DEF IsNetwork, IntOn
<1>3. Dot(w, previous, Node(i - 1)) \in Int
  BY <1>1, <1>2, DotInt
<1>4. n.bias[i][j] \in Int
  BY DEF IsNetwork
<1> QED
  BY <1>3, <1>4 DEF WeightedSum

\* So are a layer's values.
LEMMA LayerOfInt ==
  ASSUME NEW n, IsNetwork(n), NEW i \in 1 .. LastLayer,
         NEW previous \in [Node(i - 1) -> Int]
  PROVE  LayerOf(n, i, previous) \in [Node(i) -> Int]
<1>1. \A j \in Node(i) : WeightedSum(n, i, j, previous) \in Int
  BY WeightedSumInt
<1> QED
  BY <1>1 DEF LayerOf, Relu

\* There are such values, and they are integers.
LEMMA ValuesFacts ==
  ASSUME NEW n, IsNetwork(n), NEW x \in [Inputs -> Int]
  PROVE  /\ Values(n, x)[0] = x
         /\ \A i \in 0 .. LastLayer : Values(n, x)[i] \in [Node(i) -> Int]
         /\ \A i \in 1 .. LastLayer : Values(n, x)[i] = LayerOf(n, i, Values(n, x)[i - 1])
<1> DEFINE Type == [i \in 0 .. LastLayer |-> [Node(i) -> Int]]
           All == UNION {[Node(i) -> Int] : i \in 0 .. LastLayer}
           step == [p \in (0 .. LastLayer) \X All |-> LayerOf(n, p[1], p[2])]
<1>1. /\ 0 \in Int /\ LastLayer \in Int /\ 0 \in 0 .. LastLayer
      /\ \A i \in 1 .. LastLayer : i - 1 \in 0 .. LastLayer /\ i \in 0 .. LastLayer /\ i # 0
      /\ \A i \in 0 .. LastLayer : i # 0 => i \in 1 .. LastLayer
  BY Sizes
<1>2. ASSUME NEW i \in 1 .. LastLayer, NEW v \in [Node(i - 1) -> Int]
      PROVE  step[<<i, v>>] = LayerOf(n, i, v) /\ step[<<i, v>>] \in [Node(i) -> Int]
  <2>1. v \in All
    BY <1>1
  <2>2. LayerOf(n, i, v) \in [Node(i) -> Int]
    BY LayerOfInt
  <2> HIDE DEF All
  <2> QED
    BY <1>1, <2>1, <2>2
<1> HIDE DEF step, Type
<1>3. x \in [Node(0) -> Int]
  BY DEF Inputs
<1>4. \E value : IsValues(n, x, value)
  <2>1. TypedStep(step, 0, LastLayer, Type)
    <3> SUFFICES ASSUME NEW i \in 0 + 1 .. LastLayer, NEW v \in Type[i - 1]
                 PROVE  step[<<i, v>>] \in Type[i]
      BY DEF TypedStep
    <3>1. i \in 1 .. LastLayer
      OBVIOUS
    <3>2. Type[i - 1] = [Node(i - 1) -> Int] /\ Type[i] = [Node(i) -> Int]
      BY <1>1, <3>1 DEF Type
    <3> QED
      BY <3>1, <3>2, <1>2
  <2>2. x \in Type[0]
    BY <1>1, <1>3 DEF Type
  <2>3. PICK g : Recursive(g, 0, LastLayer, x, step) /\ Typed(g, 0, LastLayer, Type)
    BY <2>1, <2>2, <1>1, Recursion
  <2>4. \A i \in 0 .. LastLayer : g[i] \in [Node(i) -> Int]
    BY <2>3 DEF Typed, Type
  <2>5. g = [i \in 0 .. LastLayer |-> g[i]]
    BY <2>3 DEF Recursive
  <2>6. ASSUME NEW i \in 0 .. LastLayer
        PROVE  g[i] = IF i = 0 THEN x ELSE LayerOf(n, i, g[i - 1])
    <3>1. g[i] = IF i = 0 THEN x ELSE step[<<i, g[i - 1]>>]
      BY <2>3 DEF Recursive
    <3>2. CASE i # 0
      <4>1. i \in 1 .. LastLayer /\ g[i - 1] \in [Node(i - 1) -> Int]
        BY <1>1, <2>4, <3>2
      <4> QED
        BY <3>1, <3>2, <4>1, <1>2
    <3> QED
      BY <3>1, <3>2
  <2>7. IsValues(n, x, g)
    BY <2>5, <2>6 DEF IsValues
  <2> QED
    BY <2>7
<1> DEFINE V == Values(n, x)
<1>5. IsValues(n, x, V)
  BY <1>4 DEF Values
<1> HIDE DEF V
<1>6. V[0] = x
  BY <1>1, <1>5 DEF IsValues
<1>7. \A i \in 1 .. LastLayer : V[i] = LayerOf(n, i, V[i - 1])
  BY <1>1, <1>5 DEF IsValues
<1>8. \A i \in 0 .. LastLayer : V[i] \in [Node(i) -> Int]
  <2> DEFINE S == {i \in 0 .. LastLayer : V[i] \in [Node(i) -> Int]}
  <2>1. 0 \in S
    BY <1>1, <1>3, <1>6
  <2>2. ASSUME NEW i \in 0 .. LastLayer - 1, i \in S PROVE i + 1 \in S
    <3>1. i + 1 \in 1 .. LastLayer /\ (i + 1) - 1 = i /\ i + 1 \in 0 .. LastLayer
      BY <1>1
    <3>2. V[i] \in [Node(i) -> Int]
      BY <2>2
    <3>3. V[i + 1] = LayerOf(n, i + 1, V[i])
      BY <3>1, <1>7
    <3>4. LayerOf(n, i + 1, V[i]) \in [Node(i + 1) -> Int]
      BY <3>1, <3>2, LayerOfInt
    <3> QED
      BY <3>1, <3>3, <3>4
  <2> HIDE DEF S
  <2>3. 0 .. LastLayer \subseteq S
    BY <2>1, <2>2, <1>1, Reaches
  <2> QED
    BY <2>3 DEF S
<1> QED
  BY <1>6, <1>7, <1>8 DEF V

\* The value of a node before its ReLU.
Pre(n, x, i, j) == WeightedSum(n, i, j, Values(n, x)[i - 1])

\* A hidden node's value is its sum or 0; an output's is its sum.
LEMMA PreFacts ==
  ASSUME NEW n, IsNetwork(n), NEW x \in [Inputs -> Int], NEW i \in 1 .. LastLayer,
         NEW j \in Node(i)
  PROVE  /\ Pre(n, x, i, j) \in Int
         /\ i \in Hidden => Values(n, x)[i][j] = Relu(Pre(n, x, i, j))
         /\ i = LastLayer => Evaluate(n, x)[j] = Pre(n, x, i, j)
<1>1. Values(n, x)[i - 1] \in [Node(i - 1) -> Int]
  BY ValuesFacts, LayerIndices
<1>2. Pre(n, x, i, j) \in Int
  BY <1>1, WeightedSumInt DEF Pre
<1>3. Values(n, x)[i] = LayerOf(n, i, Values(n, x)[i - 1])
  BY ValuesFacts
<1>4. i \in Hidden => i # LastLayer
  BY LayerIndices
<1> QED
  BY <1>2, <1>3, <1>4, EvaluateIsLast DEF LayerOf, Pre

\* Every variable is of one of the kinds.
LEMMA VariableCases ==
  ASSUME NEW qu, IsQuestion(qu), NEW v \in Var(qu)
  PROVE  \/ v \in Inputs \/ v = Constant(qu) \/ v \in AuxVars
         \/ \E o \in qu.others : v = Slack(qu, o)
         \/ \E i \in 1 .. LastLayer : \E j \in Node(i) : v = B(i, j)
         \/ \E i \in Hidden : \E j \in Node(i) : v = F(i, j)
<1>1. NumNodes \in Nat /\ Cardinality(qu.others) \in Nat
  BY Numbering, Sizes, SlackNumbers
<1>2. v \in 0 .. NumNodes + Cardinality(qu.others)
  BY SlackNumbers
<1>3. CASE v \in NumNodes .. NumNodes + Cardinality(qu.others)
  BY <1>3, SlackNumbers
<1>4. CASE v \in 0 .. NumNodes - 1
  <2>1. PICK i \in 1 .. LastLayer : \/ \E s \in Node(i - 1) : v = F(i - 1, s)
                                    \/ \E j \in Node(i) : v = B(i, j) \/ v = Aux(i, j)
    BY <1>4, Numbered
  <2>2. CASE \E s \in Node(i - 1) : v = F(i - 1, s)
    <3>1. PICK s \in Node(i - 1) : v = F(i - 1, s)
      BY <2>2
    <3>2. i - 1 = 0 \/ i - 1 \in Hidden
      BY LayerIndices
    <3>3. CASE i - 1 = 0
      <4>1. s \in Inputs /\ F(0, s) = s
        BY <3>3, LayerIndices, NodeVariables
      <4> QED
        BY <3>1, <3>3, <4>1
    <3> QED
      BY <3>1, <3>2, <3>3
  <2>3. CASE \E j \in Node(i) : v = B(i, j) \/ v = Aux(i, j)
    BY <2>3, NodeVariables
  <2> QED
    BY <2>1, <2>2, <2>3
<1> QED
  BY <1>1, <1>2, <1>3, <1>4

-----------------------------------------------------------------------------
(***************************************************************************)
(* The values of all variables of a query, when the inputs are x and what  *)
(* follows from them is what the network computes.                         *)
(***************************************************************************)
\* The node whose variable v is.
NodeAt(v) == CHOOSE m \in Nodes : v = B(m[1], m[2]) \/ (m[1] \in Hidden /\ v = F(m[1], m[2]))

\* The values of a query's variables at inputs x.
Val(n, qu, x) ==
  [v \in Var(qu) |->
     IF v \in Inputs THEN x[v]
     ELSE IF v = Constant(qu) THEN 1
     ELSE IF v \in AuxVars THEN 0
     ELSE IF v >= NumNodes
     THEN Pre(n, x, LastLayer, qu.target)
            - Pre(n, x, LastLayer, CHOOSE o \in qu.others : v = Slack(qu, o))
     ELSE IF v = B(NodeAt(v)[1], NodeAt(v)[2])
     THEN Pre(n, x, NodeAt(v)[1], NodeAt(v)[2])
     ELSE Relu(Pre(n, x, NodeAt(v)[1], NodeAt(v)[2]))]

\* A variable belongs to one node.
LEMMA NodeAtFacts ==
  /\ \A i \in 1 .. LastLayer : \A j \in Node(i) : NodeAt(B(i, j)) = <<i, j>>
  /\ \A i \in Hidden : \A j \in Node(i) : NodeAt(F(i, j)) = <<i, j>>
<1>1. ASSUME NEW i \in 1 .. LastLayer, NEW j \in Node(i) PROVE NodeAt(B(i, j)) = <<i, j>>
  <2> DEFINE v == B(i, j) q == <<i, j>>
  <2>1. q \in Nodes /\ v = B(q[1], q[2])
    BY DEF Nodes
  <2>2. \A m \in Nodes : v = B(m[1], m[2]) \/ (m[1] \in Hidden /\ v = F(m[1], m[2])) => m = q
    <3> SUFFICES ASSUME NEW k \in 1 .. LastLayer, NEW l \in Node(k),
                        v = B(k, l) \/ (k \in Hidden /\ v = F(k, l))
                 PROVE  <<k, l>> = q
      BY DEF Nodes
    <3>1. CASE v = B(k, l)
      BY <3>1, Numbering
    <3>2. CASE k \in Hidden /\ v = F(k, l)
      <4>1. k + 1 \in 1 .. LastLayer /\ (k + 1) - 1 = k
        BY <3>2, LayerIndices
      <4>2. F((k + 1) - 1, l) # B(i, j)
        BY <4>1, Numbering
      <4> QED
        BY <3>2, <4>1, <4>2
    <3> QED
      BY <3>1, <3>2
  <2> HIDE DEF v, q
  <2>3. NodeAt(v) = q
    BY <2>1, <2>2 DEF NodeAt
  <2> QED
    BY <2>3 DEF v, q
<1>2. ASSUME NEW i \in Hidden, NEW j \in Node(i) PROVE NodeAt(F(i, j)) = <<i, j>>
  <2> DEFINE v == F(i, j) q == <<i, j>>
  <2>0. i + 1 \in 1 .. LastLayer /\ (i + 1) - 1 = i /\ i \in 1 .. LastLayer /\ i \in Int
    BY LayerIndices
  <2>1. q \in Nodes /\ q[1] \in Hidden /\ v = F(q[1], q[2])
    BY <2>0 DEF Nodes
  <2>2. \A m \in Nodes : v = B(m[1], m[2]) \/ (m[1] \in Hidden /\ v = F(m[1], m[2])) => m = q
    <3> SUFFICES ASSUME NEW k \in 1 .. LastLayer, NEW l \in Node(k),
                        v = B(k, l) \/ (k \in Hidden /\ v = F(k, l))
                 PROVE  <<k, l>> = q
      BY DEF Nodes
    <3>1. CASE v = B(k, l)
      <4>1. F((i + 1) - 1, j) # B(k, l)
        BY <2>0, Numbering
      <4> QED
        BY <2>0, <3>1, <4>1
    <3>2. CASE k \in Hidden /\ v = F(k, l)
      <4>1. k + 1 \in 1 .. LastLayer /\ (k + 1) - 1 = k /\ k \in Int
        BY <3>2, LayerIndices
      <4>2. i + 1 = k + 1 /\ j = l
        BY <2>0, <4>1, <3>2, Numbering
      <4> QED
        BY <2>0, <4>1, <4>2
    <3> QED
      BY <3>1, <3>2
  <2> HIDE DEF v, q
  <2>3. NodeAt(v) = q
    BY <2>1, <2>2 DEF NodeAt
  <2> QED
    BY <2>3 DEF v, q
<1> QED
  BY <1>1, <1>2

\* The values of each kind of variable.
LEMMA ValFacts ==
  ASSUME NEW n, IsNetwork(n), NEW qu, IsQuestion(qu), NEW x \in [Inputs -> Int]
  PROVE  /\ \A i \in 1 .. LastLayer : \A j \in Node(i) : Val(n, qu, x)[B(i, j)] = Pre(n, x, i, j)
         /\ \A i \in Hidden : \A j \in Node(i) : Val(n, qu, x)[F(i, j)] = Relu(Pre(n, x, i, j))
         /\ \A s \in Inputs : Val(n, qu, x)[s] = x[s]
         /\ \A i \in 1 .. LastLayer : \A s \in Node(i - 1) :
              Val(n, qu, x)[F(i - 1, s)] = Values(n, x)[i - 1][s]
         /\ \A y \in AuxVars : Val(n, qu, x)[y] = 0
         /\ Val(n, qu, x)[Constant(qu)] = 1
         /\ \A o \in qu.others : Val(n, qu, x)[Slack(qu, o)]
              = Pre(n, x, LastLayer, qu.target) - Pre(n, x, LastLayer, o)
         /\ IntOn(Val(n, qu, x), Var(qu))
<1> DEFINE W == Val(n, qu, x)
<1>1. ASSUME NEW i \in 1 .. LastLayer, NEW j \in Node(i) PROVE W[B(i, j)] = Pre(n, x, i, j)
  <2>1. /\ B(i, j) \in Var(qu) /\ B(i, j) \notin Inputs /\ B(i, j) # Constant(qu)
        /\ B(i, j) \notin AuxVars /\ ~(B(i, j) >= NumNodes)
    <3>1. B(i, j) \in Int /\ NumNodes \in Int
      BY Numbering
    <3> QED
      BY <3>1, NodeVariables
  <2>2. NodeAt(B(i, j)) = <<i, j>>
    BY NodeAtFacts
  <2> QED
    BY <2>1, <2>2 DEF Val
<1>2. ASSUME NEW i \in Hidden, NEW j \in Node(i) PROVE W[F(i, j)] = Relu(Pre(n, x, i, j))
  <2>1. /\ F(i, j) \in Var(qu) /\ F(i, j) \notin Inputs /\ F(i, j) # Constant(qu)
        /\ F(i, j) \notin AuxVars /\ ~(F(i, j) >= NumNodes) /\ F(i, j) # B(i, j)
    <3>1. F(i, j) \in Int /\ NumNodes \in Int /\ i \in 1 .. LastLayer
      BY NodeVariables, LayerIndices
    <3> QED
      BY <3>1, NodeVariables
  <2>2. NodeAt(F(i, j)) = <<i, j>>
    BY NodeAtFacts
  <2> QED
    BY <2>1, <2>2 DEF Val
<1>3. \A s \in Inputs : W[s] = x[s]
  BY NodeVariables DEF Val
<1>4. ASSUME NEW i \in 1 .. LastLayer, NEW s \in Node(i - 1)
      PROVE  W[F(i - 1, s)] = Values(n, x)[i - 1][s]
  <2>1. CASE i - 1 = 0
    <3>1. s \in Inputs /\ F(0, s) = s
      BY <2>1, LayerIndices, NodeVariables
    <3>2. Values(n, x)[0] = x
      BY ValuesFacts
    <3> QED
      BY <2>1, <3>1, <3>2, <1>3
  <2>2. CASE i - 1 \in Hidden
    <3>1. i - 1 \in 1 .. LastLayer
      BY <2>2, LayerIndices
    <3>2. Values(n, x)[i - 1][s] = Relu(Pre(n, x, i - 1, s))
      BY <2>2, <3>1, PreFacts
    <3> QED
      BY <2>2, <3>2, <1>2
  <2> QED
    BY <2>1, <2>2, LayerIndices
<1>5. \A y \in AuxVars : W[y] = 0
  <2> TAKE y \in AuxVars
  <2>1. y \in Var(qu) /\ y # Constant(qu) /\ y \notin Inputs
    BY NodeVariables
  <2> QED
    BY <2>1 DEF Val
<1>6. W[Constant(qu)] = 1
  <2>1. Constant(qu) \in Var(qu) /\ Constant(qu) \notin Inputs
    BY NodeVariables
  <2> QED
    BY <2>1 DEF Val
<1>7. \A o \in qu.others : W[Slack(qu, o)]
              = Pre(n, x, LastLayer, qu.target) - Pre(n, x, LastLayer, o)
  <2> TAKE o \in qu.others
  <2>1. /\ Slack(qu, o) \in Var(qu) /\ Slack(qu, o) >= NumNodes /\ Slack(qu, o) \notin AuxVars
        /\ Slack(qu, o) # Constant(qu) /\ Slack(qu, o) \notin Inputs
    BY NodeVariables
  <2>2. (CHOOSE p \in qu.others : Slack(qu, o) = Slack(qu, p)) = o
    BY SlackNumbers
  <2> QED
    BY <2>1, <2>2 DEF Val
<1>8. IntOn(W, Var(qu))
  <2> HIDE DEF W
  <2> SUFFICES ASSUME NEW v \in Var(qu) PROVE W[v] \in Int
    BY DEF IntOn
  <2>1. CASE v \in Inputs
    BY <2>1, <1>3
  <2>2. CASE v = Constant(qu)
    BY <2>2, <1>6
  <2>3. CASE v \in AuxVars
    BY <2>3, <1>5
  <2>4. CASE \E o \in qu.others : v = Slack(qu, o)
    <3>1. PICK o \in qu.others : v = Slack(qu, o)
      BY <2>4
    <3>2. o \in Node(LastLayer) /\ qu.target \in Node(LastLayer) /\ LastLayer \in 1 .. LastLayer
      BY LayerIndices DEF IsQuestion
    <3>3. Pre(n, x, LastLayer, qu.target) \in Int /\ Pre(n, x, LastLayer, o) \in Int
      BY <3>2, PreFacts
    <3> QED
      BY <3>1, <3>3, <1>7
  <2>5. CASE \E i \in 1 .. LastLayer : \E j \in Node(i) : v = B(i, j)
    BY <2>5, <1>1, PreFacts
  <2>6. CASE \E i \in Hidden : \E j \in Node(i) : v = F(i, j)
    <3>1. PICK i \in Hidden : \E j \in Node(i) : v = F(i, j)
      BY <2>6
    <3>2. PICK j \in Node(i) : v = F(i, j)
      BY <3>1
    <3>3. Pre(n, x, i, j) \in Int
      BY LayerIndices, PreFacts
    <3> QED
      BY <3>2, <3>3, <1>2 DEF Relu
  <2> QED
    BY <2>1, <2>2, <2>3, <2>4, <2>5, <2>6, VariableCases
<1> QED
  BY <1>1, <1>2, <1>3, <1>4, <1>5, <1>6, <1>7, <1>8

-----------------------------------------------------------------------------
(***************************************************************************)
(* Rows.  The row of a node's auxiliary variable holds the variables of the*)
(* layer before, and its own b, or f when the pair has been merged.        *)
(***************************************************************************)
\* The variables that the rows of layer i take from the layer before.
Sources(i) == {F(i - 1, s) : s \in Node(i - 1)}

\* The row of a node: its inputs, the bias, and its own variable, with -1.
IsNodeRow(r, n, qu, i, j, own) ==
  /\ DOMAIN r = {Aux(i, j), own, Constant(qu)} \cup Sources(i)
  /\ r[Aux(i, j)] = -1 /\ r[own] = -1 /\ r[Constant(qu)] = n.bias[i][j]
  /\ \A s \in Node(i - 1) : r[F(i - 1, s)] = n.weight[i][s][j]

\* The row of a slack variable: the target less the other output.
IsSlackRow(r, qu, o) ==
  /\ DOMAIN r = {B(LastLayer, qu.target), Slack(qu, o), B(LastLayer, o)}
  /\ r[B(LastLayer, qu.target)] = 1 /\ r[Slack(qu, o)] = -1 /\ r[B(LastLayer, o)] = -1

\* A merge leaves f in the place of b.
Own(q, i, j) == IF Merged(q, i, j) THEN F(i, j) ELSE B(i, j)

\* All rows are of these forms.
RowsForm(n, qu, q) ==
  /\ DOMAIN q.rows = Basics(qu)
  /\ \A i \in 1 .. LastLayer : \A j \in Node(i) :
       IsNodeRow(q.rows[Aux(i, j)], n, qu, i, j, Own(q, i, j))
  /\ \A o \in qu.others : IsSlackRow(q.rows[Slack(qu, o)], qu, o)

\* A term more.
LEMMA DotAdd ==
  ASSUME NEW T, NEW x \in T, IsFiniteSet(T \ {x}), NEW r, NEW a, IntOn(r, T), IntOn(a, T)
  PROVE  IsFiniteSet(T) /\ Dot(r, a, T) = r[x] * a[x] + Dot(r, a, T \ {x})
<1>1. IsFiniteSet((T \ {x}) \cup {x}) /\ (T \ {x}) \cup {x} = T
  BY FS_AddElement
<1>2. IsFiniteSet(T)
  BY <1>1
<1> QED
  BY <1>2, DotRemove

\* The value of a sum does not depend on the names of its terms.
ImageOf(g, S) == {g[s] : s \in S}
OneToOne(g, S) == \A s, t \in S : g[s] = g[t] => s = t
Renamed(g, S, r, a, p, b) == \A s \in S : p[s] = r[g[s]] /\ b[s] = a[g[s]]

\* So a sum may be taken over either set of names.
LEMMA DotImage ==
  ASSUME NEW S, IsFiniteSet(S), NEW g, OneToOne(g, S),
         NEW r, NEW a, NEW p, IntOn(p, S), NEW b, IntOn(b, S), Renamed(g, S, r, a, p, b)
  PROVE  IsFiniteSet(ImageOf(g, S)) /\ Dot(r, a, ImageOf(g, S)) = Dot(p, b, S)
<1> DEFINE Bad == {X \in SUBSET S : ~(IsFiniteSet(ImageOf(g, X))
                                      /\ Dot(r, a, ImageOf(g, X)) = Dot(p, b, X))}
<1> SUFFICES ASSUME Bad # {} PROVE FALSE
  <2>1. S \in SUBSET S
    OBVIOUS
  <2> QED
    BY <2>1
<1>0. Bad \subseteq SUBSET S
  OBVIOUS
<1>1. PICK X \in Bad : \A Y \in Bad : Y \subseteq X => Y = X
  <2> HIDE DEF Bad
  <2> QED
    BY <1>0, MinimalSubset
<1>2. X \in SUBSET S /\ IsFiniteSet(X)
  BY FS_Subset
<1>3. X # {}
  <2>1. ImageOf(g, {}) = {}
    BY DEF ImageOf
  <2>2. IsFiniteSet({}) /\ Dot(r, a, {}) = Dot(p, b, {})
    BY DotEmpty, FS_EmptySet
  <2> QED
    BY <2>1, <2>2
<1>4. PICK e \in X : TRUE
  BY <1>3
<1> DEFINE Y == X \ {e}
           P == ImageOf(g, Y)
           Q == ImageOf(g, X)
           x == g[e]
<1>5. Y \notin Bad /\ Y \in SUBSET S
  BY <1>1, <1>4
<1>6. IsFiniteSet(P) /\ Dot(r, a, P) = Dot(p, b, Y)
  BY <1>5
<1>7. Q = P \cup {x} /\ x \notin P
  <2>1. \A s \in X : g[s] = g[e] => s = e
    BY <1>2, <1>4 DEF OneToOne
  <2>2. \A s \in X : s = e \/ s \in Y
    OBVIOUS
  <2>3. x \notin P
    BY <2>1 DEF ImageOf
  <2>4. Q \subseteq P \cup {x} /\ P \cup {x} \subseteq Q
    BY <2>2, <1>4 DEF ImageOf
  <2> QED
    BY <2>3, <2>4
<1>9. IntOn(r, Q) /\ IntOn(a, Q)
  <2>1. \A s \in X : r[g[s]] \in Int /\ a[g[s]] \in Int
    BY <1>2 DEF IntOn, Renamed
  <2> QED
    BY <2>1 DEF IntOn, ImageOf
<1>10. IsFiniteSet(Q) /\ Dot(r, a, Q) = r[x] * a[x] + Dot(r, a, P)
  <2> HIDE DEF P, Q, x
  <2>1. Q \ {x} = P /\ x \in Q /\ IsFiniteSet(P)
    BY <1>6, <1>7
  <2>2. IsFiniteSet(Q \ {x})
    BY <2>1
  <2>3. IsFiniteSet(Q) /\ Dot(r, a, Q) = r[x] * a[x] + Dot(r, a, Q \ {x})
    BY <2>1, <2>2, <1>9, DotAdd
  <2> QED
    BY <2>1, <2>3
<1>11. Dot(p, b, X) = p[e] * b[e] + Dot(p, b, Y)
  <2>1. IntOn(p, X) /\ IntOn(b, X)
    BY <1>2 DEF IntOn
  <2> QED
    BY <2>1, <1>2, <1>4, DotRemove
<1>12. p[e] = r[x] /\ b[e] = a[x]
  BY <1>2, <1>4 DEF Renamed
<1>13. Dot(r, a, Q) = Dot(p, b, X)
  BY <1>6, <1>10, <1>11, <1>12
<1> QED
  BY <1>1, <1>10, <1>13

\* The variable of a row that is its node's, and those of the layer before.
IsOwn(i, j, own) == own = B(i, j) \/ (i \in Hidden /\ own = F(i, j))

\* The variables of a node's row are different ones.
LEMMA RowVariables ==
  ASSUME NEW qu, IsQuestion(qu), NEW i \in 1 .. LastLayer, NEW j \in Node(i), NEW own,
         IsOwn(i, j, own)
  PROVE  /\ own # Aux(i, j) /\ own # Constant(qu) /\ Aux(i, j) # Constant(qu)
         /\ \A s \in Node(i - 1) : /\ F(i - 1, s) # Aux(i, j) /\ F(i - 1, s) # own
                                   /\ F(i - 1, s) # Constant(qu)
                                   /\ F(i - 1, s) \in Var(qu) /\ F(i - 1, s) \notin Basics(qu)
         /\ {Aux(i, j), own, Constant(qu)} \subseteq Var(qu)
         /\ own \notin Basics(qu) /\ Constant(qu) \notin Basics(qu) /\ Aux(i, j) \in Basics(qu)
<1>1. ASSUME NEW s \in Node(i - 1)
      PROVE  /\ F(i - 1, s) # Aux(i, j) /\ F(i - 1, s) # own
             /\ F(i - 1, s) # Constant(qu)
             /\ F(i - 1, s) \in Var(qu) /\ F(i - 1, s) \notin Basics(qu)
  <2>1. F(i - 1, s) # Aux(i, j) /\ F(i - 1, s) # B(i, j)
    BY Numbering
  <2>2. i \in Hidden => F(i - 1, s) # F(i, j)
    <3> SUFFICES ASSUME i \in Hidden PROVE F(i - 1, s) # F(i, j)
      OBVIOUS
    <3>1. i + 1 \in 1 .. LastLayer /\ (i + 1) - 1 = i /\ i \in Int
      BY LayerIndices
    <3>2. F(i - 1, s) = F((i + 1) - 1, j) => i = i + 1
      BY <3>1, Numbering
    <3> QED
      BY <3>1, <3>2
  <2>3. F(i - 1, s) # Constant(qu) /\ F(i - 1, s) \in Var(qu) /\ F(i - 1, s) \notin Basics(qu)
    <3>1. CASE i - 1 = 0
      <4>1. s \in Inputs /\ F(i - 1, s) = s
        BY <3>1, LayerIndices, NodeVariables
      <4> QED
        BY <4>1, NodeVariables
    <3>2. CASE i - 1 \in Hidden
      BY <3>2, NodeVariables
    <3> QED
      BY <3>1, <3>2, LayerIndices
  <2> QED
    BY <2>1, <2>2, <2>3 DEF IsOwn
<1>2. own # Aux(i, j) /\ own # Constant(qu) /\ Aux(i, j) # Constant(qu)
      /\ {Aux(i, j), own, Constant(qu)} \subseteq Var(qu)
      /\ own \notin Basics(qu) /\ Constant(qu) \notin Basics(qu) /\ Aux(i, j) \in Basics(qu)
  BY NodeVariables DEF IsOwn
<1> QED
  BY <1>1, <1>2

\* What the row of a node sums up to.
LEMMA NodeRowSum ==
  ASSUME NEW n, IsNetwork(n), NEW qu, IsQuestion(qu), NEW i \in 1 .. LastLayer,
         NEW j \in Node(i), NEW own, IsOwn(i, j, own), NEW r, IsNodeRow(r, n, qu, i, j, own)
  PROVE  /\ IsFiniteSet(DOMAIN r) /\ IntOn(r, DOMAIN r) /\ DOMAIN r \subseteq Var(qu)
         /\ DOMAIN r \cap Basics(qu) = {Aux(i, j)}
         /\ \A a : IntOn(a, DOMAIN r) =>
              Dot(r, a, DOMAIN r)
                = n.bias[i][j] * a[Constant(qu)]
                    + Dot([s \in Node(i - 1) |-> n.weight[i][s][j]],
                          [s \in Node(i - 1) |-> a[F(i - 1, s)]], Node(i - 1))
                    - a[own] - a[Aux(i, j)]
<1> DEFINE S == Node(i - 1)
           g == [s \in S |-> F(i - 1, s)]
           w == [s \in S |-> n.weight[i][s][j]]
           D == Sources(i)
           y == Aux(i, j)
           c == Constant(qu)
<1>1. IsFiniteSet(S)
  BY LayerIndices, NodeFinite
<1>2. OneToOne(g, S)
  <2> SUFFICES ASSUME NEW s \in S, NEW t \in S, g[s] = g[t] PROVE s = t
    BY DEF OneToOne
  <2> QED
    BY Numbering
<1>3. D = ImageOf(g, S)
  BY DEF Sources, ImageOf
<1>4. y # own /\ c # own /\ y # c /\ y \notin D /\ own \notin D /\ c \notin D
  BY RowVariables DEF Sources
<1>5. n.bias[i][j] \in Int /\ \A s \in S : n.weight[i][s][j] \in Int
  BY DEF IsNetwork
<1>6. DOMAIN r = {y, own, c} \cup D /\ r[y] = -1 /\ r[own] = -1 /\ r[c] = n.bias[i][j]
      /\ \A s \in S : r[g[s]] = w[s]
  BY DEF IsNodeRow
<1>7. IntOn(w, S)
  BY <1>5 DEF IntOn
<1>8. IntOn(r, DOMAIN r)
  BY <1>3, <1>5, <1>6 DEF IntOn, ImageOf
<1>9. DOMAIN r \subseteq Var(qu) /\ DOMAIN r \cap Basics(qu) = {y}
  BY <1>6, RowVariables DEF Sources
<1> HIDE DEF w, D, g, S, y, c
<1>10. IsFiniteSet(D)
  <2> DEFINE b == [s \in S |-> 0]
             e == [v \in D |-> 0]
  <2>1. IntOn(b, S) /\ \A s \in S : b[s] = e[g[s]]
    BY <1>3 DEF IntOn, ImageOf
  <2> HIDE DEF b, e
  <2>2. Renamed(g, S, r, e, w, b)
    BY <1>6, <2>1 DEF Renamed
  <2> QED
    BY <1>1, <1>2, <1>3, <1>7, <2>1, <2>2, DotImage
<1>11. IsFiniteSet(DOMAIN r)
  <2>1. IsFiniteSet(D \cup {y})
    BY <1>10, FS_AddElement
  <2>2. IsFiniteSet((D \cup {y}) \cup {own})
    BY <2>1, FS_AddElement
  <2>3. IsFiniteSet(((D \cup {y}) \cup {own}) \cup {c})
    BY <2>2, FS_AddElement
  <2>4. ((D \cup {y}) \cup {own}) \cup {c} = DOMAIN r
    BY <1>6
  <2> QED
    BY <2>3, <2>4
<1>12. ASSUME NEW a, IntOn(a, DOMAIN r)
       PROVE  Dot(r, a, DOMAIN r) = n.bias[i][j] * a[c] + Dot(w, [s \in S |-> a[g[s]]], S)
                                      - a[own] - a[y]
  <2> DEFINE X == DOMAIN r
             e == [s \in S |-> a[g[s]]]
  <2>1. X \ {y} = {own, c} \cup D /\ (X \ {y}) \ {own} = {c} \cup D
        /\ ((X \ {y}) \ {own}) \ {c} = D
    BY <1>4, <1>6
  <2>2. /\ IsFiniteSet(X \ {y}) /\ IsFiniteSet((X \ {y}) \ {own})
    BY <1>11, FS_RemoveElement
  <2>3. /\ IntOn(r, X) /\ IntOn(r, X \ {y}) /\ IntOn(r, (X \ {y}) \ {own})
        /\ IntOn(a, X) /\ IntOn(a, X \ {y}) /\ IntOn(a, (X \ {y}) \ {own})
    BY <1>8, <1>12 DEF IntOn
  <2>4. Dot(r, a, X) = r[y] * a[y] + Dot(r, a, X \ {y}) /\ Dot(r, a, X \ {y}) \in Int
    <3>1. y \in X
      BY <1>6
    <3> HIDE DEF X
    <3> QED
      BY <3>1, <2>3, <1>11, DotRemove DEF X
  <2>5. Dot(r, a, X \ {y}) = r[own] * a[own] + Dot(r, a, (X \ {y}) \ {own})
        /\ Dot(r, a, (X \ {y}) \ {own}) \in Int
    <3>1. own \in X \ {y}
      BY <1>4, <1>6
    <3> HIDE DEF X
    <3> QED
      BY <3>1, <2>2, <2>3, DotRemove
  <2>6. Dot(r, a, (X \ {y}) \ {own}) = r[c] * a[c] + Dot(r, a, ((X \ {y}) \ {own}) \ {c})
    <3>1. c \in (X \ {y}) \ {own}
      BY <1>4, <1>6
    <3> HIDE DEF X
    <3> QED
      BY <3>1, <2>2, <2>3, DotRemove
  <2>7. a[y] \in Int /\ a[own] \in Int /\ a[c] \in Int /\ \A s \in S : a[g[s]] \in Int
    BY <1>3, <1>6, <1>12 DEF IntOn, ImageOf
  <2>8. Dot(r, a, D) = Dot(w, e, S)
    <3>1. IntOn(e, S) /\ Renamed(g, S, r, a, w, e)
      BY <1>6, <2>7 DEF IntOn, Renamed
    <3> HIDE DEF e
    <3> QED
      BY <1>1, <1>2, <1>3, <1>7, <3>1, DotImage
  <2>9. Dot(w, e, S) \in Int
    <3>1. IntOn(e, S)
      BY <2>7 DEF IntOn
    <3> HIDE DEF e
    <3> QED
      BY <1>1, <1>7, <3>1, DotInt
  <2> DEFINE d == Dot(w, e, S)
  <2> HIDE DEF X, e, d
  <2>10. Dot(r, a, X) = (-1) * a[y] + ((-1) * a[own] + (n.bias[i][j] * a[c] + d))
    <3>1. Dot(r, a, ((X \ {y}) \ {own}) \ {c}) = d
      BY <2>1, <2>8 DEF d
    <3>2. Dot(r, a, (X \ {y}) \ {own}) = n.bias[i][j] * a[c] + d
      BY <3>1, <2>6, <1>6
    <3>3. Dot(r, a, X \ {y}) = (-1) * a[own] + (n.bias[i][j] * a[c] + d)
      BY <3>2, <2>5, <1>6
    <3> QED
      BY <3>3, <2>4, <1>6
  <2>11. d \in Int /\ n.bias[i][j] * a[c] \in Int
    BY <2>9, <2>7, <1>5 DEF d
  <2>12. (-1) * a[y] + ((-1) * a[own] + (n.bias[i][j] * a[c] + d))
           = n.bias[i][j] * a[c] + d - a[own] - a[y]
    BY <2>7, <2>11
  <2> QED
    BY <2>10, <2>12 DEF X, d, e
<1>13. \A a : [s \in S |-> a[g[s]]] = [s \in S |-> a[F(i - 1, s)]]
  BY DEF g
<1> QED
  BY <1>8, <1>9, <1>11, <1>12, <1>13 DEF w, S, y, c

\* What the row of a slack variable sums up to.
LEMMA SlackRowSum ==
  ASSUME NEW qu, IsQuestion(qu), NEW o \in qu.others, NEW r, IsSlackRow(r, qu, o)
  PROVE  /\ IsFiniteSet(DOMAIN r) /\ IntOn(r, DOMAIN r) /\ DOMAIN r \subseteq Var(qu)
         /\ DOMAIN r \cap Basics(qu) = {Slack(qu, o)}
         /\ \A a : IntOn(a, DOMAIN r) =>
              Dot(r, a, DOMAIN r)
                = a[B(LastLayer, qu.target)] - a[Slack(qu, o)] - a[B(LastLayer, o)]
<1> DEFINE t == B(LastLayer, qu.target)
           y == Slack(qu, o)
           p == B(LastLayer, o)
           X == DOMAIN r
<1>1. X = {t, y, p} /\ r[t] = 1 /\ r[y] = -1 /\ r[p] = -1
  BY DEF IsSlackRow
<1>2. t # p
  <2>1. LastLayer \in 1 .. LastLayer /\ qu.target \in Node(LastLayer) /\ o \in Node(LastLayer)
        /\ o # qu.target
    BY LayerIndices DEF IsQuestion, Outputs
  <2> QED
    BY <2>1, Numbering
<1>3. /\ t \in Var(qu) /\ t \notin Basics(qu) /\ p \in Var(qu) /\ p \notin Basics(qu)
      /\ y \in Var(qu) /\ y \in Basics(qu)
  BY NodeVariables, LayerIndices DEF IsQuestion, Outputs
<1> HIDE DEF t, y, p, X
<1>4. t # y /\ y # p
  BY <1>3
<1>5. IntOn(r, X)
  BY <1>1 DEF IntOn
<1>6. IsFiniteSet({t}) /\ IsFiniteSet({t, y}) /\ IsFiniteSet(X)
  <2>1. IsFiniteSet({t})
    BY FS_Singleton
  <2>2. IsFiniteSet({t} \cup {y}) /\ {t} \cup {y} = {t, y}
    BY <2>1, FS_AddElement
  <2>3. IsFiniteSet({t, y})
    BY <2>2
  <2>4. IsFiniteSet({t, y} \cup {p}) /\ {t, y} \cup {p} = X
    BY <2>3, <1>1, FS_AddElement
  <2> QED
    BY <2>1, <2>3, <2>4
<1>7. ASSUME NEW a, IntOn(a, X)
      PROVE  Dot(r, a, X) = a[t] - a[y] - a[p]
  <2>1. IntOn(r, {t, y}) /\ IntOn(a, {t, y}) /\ IntOn(r, {t}) /\ IntOn(a, {t})
        /\ a[t] \in Int /\ a[y] \in Int /\ a[p] \in Int
    BY <1>1, <1>5, <1>7 DEF IntOn
  <2>2. X \ {p} = {t, y} /\ {t, y} \ {y} = {t} /\ {t} \ {t} = {}
        /\ p \in X /\ y \in {t, y} /\ t \in {t}
    BY <1>1, <1>2, <1>4
  <2>3. Dot(r, a, X) = r[p] * a[p] + Dot(r, a, X \ {p})
    BY <1>5, <1>6, <1>7, <2>2, DotRemove
  <2>4. Dot(r, a, {t, y}) = r[y] * a[y] + Dot(r, a, {t, y} \ {y})
    BY <1>6, <2>1, <2>2, DotRemove
  <2>5. Dot(r, a, {t}) = r[t] * a[t] + Dot(r, a, {t} \ {t})
    BY <1>6, <2>1, <2>2, DotRemove
  <2>6. Dot(r, a, {t}) = a[t]
    <3>1. Dot(r, a, {t} \ {t}) = 0
      BY <2>2, DotEmpty
    <3> QED
      BY <2>1, <2>5, <3>1, <1>1
  <2>7. Dot(r, a, {t, y}) = a[t] - a[y]
    <3>1. Dot(r, a, {t, y} \ {y}) = a[t]
      BY <2>2, <2>6
    <3> QED
      BY <3>1, <2>1, <2>4, <1>1
  <2>8. Dot(r, a, X \ {p}) = a[t] - a[y]
    BY <2>2, <2>7
  <2> QED
    BY <2>1, <2>3, <2>8, <1>1
<1> QED
  BY <1>1, <1>3, <1>5, <1>6, <1>7 DEF t, y, p, X

\* Every row is that of a node or of a slack variable.
LEMMA BasicCases ==
  ASSUME NEW qu, IsQuestion(qu), NEW y \in Basics(qu)
  PROVE  \/ \E i \in 1 .. LastLayer : \E j \in Node(i) : y = Aux(i, j)
         \/ \E o \in qu.others : y = Slack(qu, o)
  BY NodeVariables DEF Basics, SlackVars

\* A node's row holds one of the node's variables.
LEMMA OwnIsOwn ==
  ASSUME NEW q, NEW i, NEW j
  PROVE  IsOwn(i, j, Own(q, i, j))
  BY DEF IsOwn, Own, Merged

\* The rows' domains, and the coefficients of the basic variables.
RowOk(qu, r, y) ==
  /\ IsFiniteSet(DOMAIN r) /\ IntOn(r, DOMAIN r) /\ DOMAIN r \subseteq Var(qu)
  /\ DOMAIN r \cap Basics(qu) = {y} /\ y \in DOMAIN r /\ r[y] = -1

\* Every row has one basic variable, with the coefficient -1.
LEMMA RowsOk ==
  ASSUME NEW n, IsNetwork(n), NEW qu, IsQuestion(qu), NEW q, RowsForm(n, qu, q),
         NEW y \in Basics(qu)
  PROVE  RowOk(qu, q.rows[y], y)
<1>1. ASSUME NEW i \in 1 .. LastLayer, NEW j \in Node(i), y = Aux(i, j)
      PROVE  RowOk(qu, q.rows[y], y)
  <2>1. IsNodeRow(q.rows[y], n, qu, i, j, Own(q, i, j))
    BY <1>1 DEF RowsForm
  <2>2. y \in DOMAIN q.rows[y] /\ q.rows[y][y] = -1
    BY <2>1, <1>1 DEF IsNodeRow
  <2>3. IsOwn(i, j, Own(q, i, j))
    BY OwnIsOwn
  <2>4. /\ IsFiniteSet(DOMAIN q.rows[y]) /\ IntOn(q.rows[y], DOMAIN q.rows[y])
        /\ DOMAIN q.rows[y] \subseteq Var(qu)
        /\ DOMAIN q.rows[y] \cap Basics(qu) = {y}
    BY <1>1, <2>1, <2>3, NodeRowSum
  <2> QED
    BY <2>2, <2>4 DEF RowOk
<1>2. ASSUME NEW o \in qu.others, y = Slack(qu, o)
      PROVE  RowOk(qu, q.rows[y], y)
  <2>1. IsSlackRow(q.rows[y], qu, o)
    BY <1>2 DEF RowsForm
  <2>2. y \in DOMAIN q.rows[y] /\ q.rows[y][y] = -1
    BY <2>1, <1>2 DEF IsSlackRow
  <2>3. /\ IsFiniteSet(DOMAIN q.rows[y]) /\ IntOn(q.rows[y], DOMAIN q.rows[y])
        /\ DOMAIN q.rows[y] \subseteq Var(qu)
        /\ DOMAIN q.rows[y] \cap Basics(qu) = {y}
    BY <1>2, <2>1, SlackRowSum
  <2> QED
    BY <2>2, <2>3 DEF RowOk
<1> QED
  BY <1>1, <1>2, BasicCases

\* What the network computes satisfies the rows, if the merged pairs are active.
MergedActive(n, q, x) ==
  \A i \in Hidden : \A j \in Node(i) : Merged(q, i, j) => Pre(n, x, i, j) >= 0

\* A node's variable in its row has the value of the node's sum.
LEMMA ValOwn ==
  ASSUME NEW n, IsNetwork(n), NEW qu, IsQuestion(qu), NEW x \in [Inputs -> Int],
         NEW q, MergedActive(n, q, x), NEW i \in 1 .. LastLayer, NEW j \in Node(i)
  PROVE  Val(n, qu, x)[Own(q, i, j)] = Pre(n, x, i, j)
<1>1. Pre(n, x, i, j) \in Int
  BY PreFacts
<1>2. CASE Merged(q, i, j)
  <2>1. i \in Hidden /\ Own(q, i, j) = F(i, j)
    BY <1>2 DEF Merged, Own
  <2>2. Pre(n, x, i, j) >= 0
    BY <1>2, <2>1 DEF MergedActive
  <2>3. Val(n, qu, x)[F(i, j)] = Relu(Pre(n, x, i, j))
    BY <2>1, ValFacts
  <2>4. Relu(Pre(n, x, i, j)) = Pre(n, x, i, j)
    BY <1>1, <2>2 DEF Relu
  <2> QED
    BY <2>1, <2>3, <2>4
<1>3. CASE ~Merged(q, i, j)
  BY <1>3, ValFacts DEF Own
<1> QED
  BY <1>2, <1>3

\* The rows hold of what the network computes.
LEMMA ValRows ==
  ASSUME NEW n, IsNetwork(n), NEW qu, IsQuestion(qu), NEW x \in [Inputs -> Int],
         NEW q, RowsForm(n, qu, q), MergedActive(n, q, x), NEW y \in Basics(qu)
  PROVE  /\ Dot(q.rows[y], Val(n, qu, x), DOMAIN q.rows[y]) = 0
         /\ IntOn(Val(n, qu, x), DOMAIN q.rows[y])
<1> DEFINE a == Val(n, qu, x)
           r == q.rows[y]
<1>1. DOMAIN r \subseteq Var(qu) /\ IntOn(a, Var(qu))
  BY RowsOk, ValFacts DEF RowOk
<1>2. IntOn(a, DOMAIN r)
  BY <1>1 DEF IntOn
<1>3. ASSUME NEW i \in 1 .. LastLayer, NEW j \in Node(i), y = Aux(i, j)
      PROVE  Dot(r, a, DOMAIN r) = 0
  <2> DEFINE own == Own(q, i, j)
             s0 == Dot([s \in Node(i - 1) |-> n.weight[i][s][j]],
                       [s \in Node(i - 1) |-> a[F(i - 1, s)]], Node(i - 1))
             s1 == Dot([s \in Node(i - 1) |-> n.weight[i][s][j]],
                       Values(n, x)[i - 1], Node(i - 1))
  <2>1. IsNodeRow(r, n, qu, i, j, own)
    BY <1>3 DEF RowsForm
  <2>2. IsOwn(i, j, own)
    BY OwnIsOwn
  <2>3. Dot(r, a, DOMAIN r) = n.bias[i][j] * a[Constant(qu)] + s0 - a[own] - a[y]
    <3> HIDE DEF a, r, own
    <3> QED
      BY <1>2, <1>3, <2>1, <2>2, NodeRowSum
  <2>4. [s \in Node(i - 1) |-> a[F(i - 1, s)]] = Values(n, x)[i - 1]
    <3>1. Values(n, x)[i - 1] \in [Node(i - 1) -> Int]
      BY ValuesFacts, LayerIndices
    <3>2. \A s \in Node(i - 1) : a[F(i - 1, s)] = Values(n, x)[i - 1][s]
      BY ValFacts
    <3> QED
      BY <3>1, <3>2
  <2>5. s0 = s1
    BY <2>4
  <2>6. a[own] = Pre(n, x, i, j) /\ Pre(n, x, i, j) \in Int
    BY ValOwn, PreFacts
  <2>7. Pre(n, x, i, j) = n.bias[i][j] + s1
    BY DEF Pre, WeightedSum
  <2>8. a[Constant(qu)] = 1 /\ a[y] = 0
    <3>1. y \in AuxVars
      BY <1>3, NodeVariables
    <3> QED
      BY <3>1, ValFacts
  <2>9. s1 \in Int /\ n.bias[i][j] \in Int
    <3>1. n.bias[i][j] \in Int /\ \A s \in Node(i - 1) : n.weight[i][s][j] \in Int
      BY DEF IsNetwork
    <3>2. Values(n, x)[i - 1] \in [Node(i - 1) -> Int] /\ IsFiniteSet(Node(i - 1))
      BY ValuesFacts, LayerIndices, NodeFinite
    <3>3. IntOn([s \in Node(i - 1) |-> n.weight[i][s][j]], Node(i - 1))
          /\ IntOn(Values(n, x)[i - 1], Node(i - 1))
      BY <3>1, <3>2 DEF IntOn
    <3> QED
      BY <3>1, <3>2, <3>3, DotInt
  <2> HIDE DEF s0, s1, a, r, own
  <2> QED
    BY <2>3, <2>5, <2>6, <2>7, <2>8, <2>9
<1>4. ASSUME NEW o \in qu.others, y = Slack(qu, o)
      PROVE  Dot(r, a, DOMAIN r) = 0
  <2>1. IsSlackRow(r, qu, o)
    BY <1>4 DEF RowsForm
  <2>2. Dot(r, a, DOMAIN r) = a[B(LastLayer, qu.target)] - a[y] - a[B(LastLayer, o)]
    <3> HIDE DEF a, r
    <3> QED
      BY <1>2, <1>4, <2>1, SlackRowSum
  <2>3. LastLayer \in 1 .. LastLayer /\ qu.target \in Node(LastLayer) /\ o \in Node(LastLayer)
    BY LayerIndices DEF IsQuestion, Outputs
  <2>4. /\ a[B(LastLayer, qu.target)] = Pre(n, x, LastLayer, qu.target)
        /\ a[B(LastLayer, o)] = Pre(n, x, LastLayer, o)
        /\ a[y] = Pre(n, x, LastLayer, qu.target) - Pre(n, x, LastLayer, o)
    BY <1>4, <2>3, ValFacts
  <2>5. Pre(n, x, LastLayer, qu.target) \in Int /\ Pre(n, x, LastLayer, o) \in Int
    BY <2>3, PreFacts
  <2> HIDE DEF a, r
  <2> QED
    BY <2>2, <2>4, <2>5
<1> QED
  BY <1>2, <1>3, <1>4, BasicCases

-----------------------------------------------------------------------------
(***************************************************************************)
(* The values that a query's rows give to its variables are those that the *)
(* network computes.                                                       *)
(***************************************************************************)
\* The values that layer i's rows give to the layer's variables.
BackLayer(q, qu, x, i, previous) ==
  [j \in Node(i) |->
     -(q.rows[Aux(i, j)][Constant(qu)]
         + Dot([s \in Node(i - 1) |-> q.rows[Aux(i, j)][F(i - 1, s)]],
               [s \in Node(i - 1) |->
                  IF i = 1 THEN x[s] ELSE Forward(q, i - 1, s, previous[s])],
               Node(i - 1)))
       * q.rows[Aux(i, j)][Own(q, i, j)]]

\* The values of all layers.
IsBackward(q, qu, x, b) ==
  b = [i \in 1 .. LastLayer |-> BackLayer(q, qu, x, i, b[i - 1])]

\* Backward is the function that this describes.
LEMMA BackwardChosen ==
  ASSUME NEW q, NEW x
  PROVE  Backward(q, x) = CHOOSE b : IsBackward(q, question, x, b)
BY DEF Backward, IsBackward, BackLayer, Own

\* The sums of a layer's nodes.
PreLayer(n, x, i) == [j \in Node(i) |-> Pre(n, x, i, j)]

\* A layer's rows compute the sums of its nodes.
LEMMA BackLayerIsPre ==
  ASSUME NEW n, IsNetwork(n), NEW qu, IsQuestion(qu), NEW x \in [Inputs -> Int],
         NEW q, RowsForm(n, qu, q), MergedActive(n, q, x),
         NEW i \in 1 .. LastLayer, NEW previous, i = 1 \/ previous = PreLayer(n, x, i - 1)
  PROVE  BackLayer(q, qu, x, i, previous) = PreLayer(n, x, i)
<1> DEFINE inner == [s \in Node(i - 1) |->
                       IF i = 1 THEN x[s] ELSE Forward(q, i - 1, s, previous[s])]
<1>1. inner = Values(n, x)[i - 1]
  <2>1. Values(n, x)[i - 1] \in [Node(i - 1) -> Int] /\ Values(n, x)[0] = x
    BY ValuesFacts, LayerIndices
  <2>2. ASSUME NEW s \in Node(i - 1), i # 1
        PROVE  Forward(q, i - 1, s, previous[s]) = Values(n, x)[i - 1][s]
    <3>1. i - 1 \in Hidden /\ i - 1 \in 1 .. LastLayer
      <4>1. i \in Int /\ i - 1 # 0
        BY <2>2, LayerIndices
      <4> QED
        BY <4>1, LayerIndices
    <3>2. previous[s] = Pre(n, x, i - 1, s)
      BY <2>2 DEF PreLayer
    <3>3. Pre(n, x, i - 1, s) \in Int /\ Values(n, x)[i - 1][s] = Relu(Pre(n, x, i - 1, s))
      BY <3>1, PreFacts
    <3>4. Merged(q, i - 1, s) => Pre(n, x, i - 1, s) >= 0
      BY <3>1 DEF MergedActive
    <3> QED
      BY <3>2, <3>3, <3>4 DEF Forward, Relu
  <2>3. ASSUME NEW s \in Node(i - 1), i = 1
        PROVE  x[s] = Values(n, x)[i - 1][s]
    BY <2>1, <2>3
  <2> QED
    BY <2>1, <2>2, <2>3
<1>2. ASSUME NEW j \in Node(i)
      PROVE  -(q.rows[Aux(i, j)][Constant(qu)]
                 + Dot([s \in Node(i - 1) |-> q.rows[Aux(i, j)][F(i - 1, s)]], inner, Node(i - 1)))
               * q.rows[Aux(i, j)][Own(q, i, j)] = Pre(n, x, i, j)
  <2> DEFINE r == q.rows[Aux(i, j)]
             d == Dot([s \in Node(i - 1) |-> n.weight[i][s][j]], Values(n, x)[i - 1], Node(i - 1))
  <2>1. IsNodeRow(r, n, qu, i, j, Own(q, i, j))
    BY DEF RowsForm
  <2>2. r[Constant(qu)] = n.bias[i][j] /\ r[Own(q, i, j)] = -1
        /\ \A s \in Node(i - 1) : r[F(i - 1, s)] = n.weight[i][s][j]
    BY <2>1 DEF IsNodeRow
  <2>3. [s \in Node(i - 1) |-> r[F(i - 1, s)]] = [s \in Node(i - 1) |-> n.weight[i][s][j]]
    BY <2>2
  <2>4. Dot([s \in Node(i - 1) |-> r[F(i - 1, s)]], inner, Node(i - 1)) = d
    BY <2>3, <1>1
  <2>5. Pre(n, x, i, j) = n.bias[i][j] + d /\ Pre(n, x, i, j) \in Int
    BY PreFacts DEF Pre, WeightedSum
  <2> DEFINE dd == Dot([s \in Node(i - 1) |-> r[F(i - 1, s)]], inner, Node(i - 1))
             p == n.bias[i][j] + d
             k == r[Own(q, i, j)]
  <2>6. r[Constant(qu)] + dd = p /\ p \in Int /\ k = -1
    BY <2>2, <2>4, <2>5
  <2>7. -(r[Constant(qu)] + dd) * k = p
    <3> HIDE DEF r, dd, p, k, d
    <3> QED
      BY <2>6
  <2> QED
    BY <2>5, <2>7
<1> QED
  BY <1>2 DEF BackLayer, PreLayer

\* Hence all layers' rows do.
LEMMA BackwardIsPre ==
  ASSUME NEW n, IsNetwork(n), IsQuestion(question), NEW x \in [Inputs -> Int],
         NEW q, RowsForm(n, question, q), MergedActive(n, q, x)
  PROVE  \A i \in 1 .. LastLayer : Backward(q, x)[i] = PreLayer(n, x, i)
<1> DEFINE c == [i \in 1 .. LastLayer |-> PreLayer(n, x, i)]
<1>1. IsBackward(q, question, x, c)
  <2>1. ASSUME NEW i \in 1 .. LastLayer
        PROVE  BackLayer(q, question, x, i, c[i - 1]) = PreLayer(n, x, i)
    <3>1. i = 1 \/ c[i - 1] = PreLayer(n, x, i - 1)
      BY LayerIndices DEF Hidden
    <3> HIDE DEF c
    <3> QED
      BY <3>1, BackLayerIsPre
  <2> QED
    BY <2>1 DEF IsBackward
<1> DEFINE b == Backward(q, x)
<1>2. IsBackward(q, question, x, b)
  <2> HIDE DEF c
  <2> QED
    BY <1>1, BackwardChosen
<1> HIDE DEF b
<1> DEFINE S == {i \in 1 .. LastLayer : b[i] = PreLayer(n, x, i)}
<1>3. ASSUME NEW i \in 1 .. LastLayer
      PROVE  b[i] = BackLayer(q, question, x, i, b[i - 1])
  BY <1>2 DEF IsBackward
<1>4. 1 \in S
  <2>1. 1 \in 1 .. LastLayer
    BY LayerIndices
  <2>2. b[1] = BackLayer(q, question, x, 1, b[1 - 1])
    BY <2>1, <1>3
  <2>3. BackLayer(q, question, x, 1, b[1 - 1]) = PreLayer(n, x, 1)
    BY <2>1, BackLayerIsPre
  <2> QED
    BY <2>1, <2>2, <2>3
<1>5. \A i \in 1 .. LastLayer - 1 : i \in S => i + 1 \in S
  <2> SUFFICES ASSUME NEW i \in 1 .. LastLayer - 1, i \in S PROVE i + 1 \in S
    OBVIOUS
  <2>1. i + 1 \in 1 .. LastLayer /\ (i + 1) - 1 = i
    BY LayerIndices DEF Hidden
  <2>2. b[i + 1] = BackLayer(q, question, x, i + 1, b[(i + 1) - 1])
    BY <2>1, <1>3
  <2>3. b[(i + 1) - 1] = PreLayer(n, x, (i + 1) - 1)
    BY <2>1
  <2>4. BackLayer(q, question, x, i + 1, b[(i + 1) - 1]) = PreLayer(n, x, i + 1)
    BY <2>1, <2>3, BackLayerIsPre
  <2> QED
    BY <2>1, <2>2, <2>4
<1>6. 1 .. LastLayer \subseteq S
  <2>1. LastLayer \in Int /\ 1 \in Int
    BY Sizes
  <2> HIDE DEF S
  <2> QED
    BY <2>1, <1>4, <1>5, Reaches
<1> QED
  BY <1>6 DEF b

\* The values that a query's rows give to its variables, variable by variable.
PropagatedAt(q, x, v) ==
  IF v \in Inputs THEN x[v]
  ELSE IF v = Constant(question) THEN 1
  ELSE IF v \in AuxVars THEN 0
  ELSE IF v >= NumNodes
  THEN q.rows[v][B(LastLayer, question.target)] * Backward(q, x)[LastLayer][question.target]
         + q.rows[v][B(LastLayer, CHOOSE o \in question.others : v = Slack(question, o))]
             * Backward(q, x)[LastLayer][CHOOSE o \in question.others : v = Slack(question, o)]
  ELSE IF v = B(NodeAt(v)[1], NodeAt(v)[2])
  THEN Backward(q, x)[NodeAt(v)[1]][NodeAt(v)[2]]
  ELSE Forward(q, NodeAt(v)[1], NodeAt(v)[2], Backward(q, x)[NodeAt(v)[1]][NodeAt(v)[2]])

\* The two descriptions agree.
LEMMA PropagatedEach ==
  ASSUME NEW q, NEW x
  PROVE  Propagated(q, x) = [v \in Vars(q) |-> PropagatedAt(q, x, v)]
BY DEF Propagated, PropagatedAt, NodeAt

\* What the rows give to the variables is what the network computes.
LEMMA PropagatedIsVal ==
  ASSUME NEW n, IsNetwork(n), IsQuestion(question), NEW x \in [Inputs -> Int],
         NEW q, RowsForm(n, question, q), MergedActive(n, q, x), Vars(q) = Var(question)
  PROVE  Propagated(q, x) = Val(n, question, x)
<1> DEFINE a == Val(n, question, x)
           b == Backward(q, x)
<1>1. \A i \in 1 .. LastLayer : \A j \in Node(i) : b[i][j] = Pre(n, x, i, j)
  <2>1. \A i \in 1 .. LastLayer : b[i] = PreLayer(n, x, i)
    BY BackwardIsPre
  <2> HIDE DEF b
  <2> QED
    BY <2>1 DEF PreLayer
<1>2. ASSUME NEW v \in Inputs
      PROVE  PropagatedAt(q, x, v) = a[v]
  BY ValFacts DEF PropagatedAt
<1>3. PropagatedAt(q, x, Constant(question)) = a[Constant(question)]
  <2>1. Constant(question) \notin Inputs
    BY NodeVariables
  <2> QED
    BY <2>1, ValFacts DEF PropagatedAt
<1>4. ASSUME NEW v \in AuxVars
      PROVE  PropagatedAt(q, x, v) = a[v]
  <2>1. v \notin Inputs /\ v # Constant(question)
    BY NodeVariables
  <2> QED
    BY <2>1, ValFacts DEF PropagatedAt
<1>5. ASSUME NEW o \in question.others
      PROVE  PropagatedAt(q, x, Slack(question, o)) = a[Slack(question, o)]
  <2> DEFINE v == Slack(question, o)
             t == question.target
  <2>1. v \notin Inputs /\ v # Constant(question) /\ v \notin AuxVars /\ v >= NumNodes
    BY NodeVariables
  <2>2. (CHOOSE p \in question.others : v = Slack(question, p)) = o
    BY SlackNumbers
  <2>3. IsSlackRow(q.rows[v], question, o)
    BY DEF RowsForm
  <2>4. q.rows[v][B(LastLayer, t)] = 1 /\ q.rows[v][B(LastLayer, o)] = -1
    BY <2>3 DEF IsSlackRow
  <2>5. LastLayer \in 1 .. LastLayer /\ t \in Node(LastLayer) /\ o \in Node(LastLayer)
    BY LayerIndices DEF IsQuestion, Outputs
  <2>6. b[LastLayer][t] = Pre(n, x, LastLayer, t) /\ b[LastLayer][o] = Pre(n, x, LastLayer, o)
        /\ Pre(n, x, LastLayer, t) \in Int /\ Pre(n, x, LastLayer, o) \in Int
    BY <1>1, <2>5, PreFacts
  <2>7. a[v] = Pre(n, x, LastLayer, t) - Pre(n, x, LastLayer, o)
    BY ValFacts
  <2>8. PropagatedAt(q, x, v)
          = q.rows[v][B(LastLayer, t)] * b[LastLayer][t] + q.rows[v][B(LastLayer, o)] * b[LastLayer][o]
    BY <2>1, <2>2 DEF PropagatedAt
  <2> HIDE DEF a, b, v, t
  <2> QED
    BY <2>4, <2>6, <2>7, <2>8 DEF v
<1>6. ASSUME NEW i \in 1 .. LastLayer, NEW j \in Node(i)
      PROVE  PropagatedAt(q, x, B(i, j)) = a[B(i, j)]
  <2> DEFINE v == B(i, j)
  <2>1. v \notin Inputs /\ v # Constant(question) /\ v \notin AuxVars /\ ~(v >= NumNodes)
    <3>1. v \notin Inputs /\ v # Constant(question) /\ v \notin AuxVars /\ v < NumNodes
          /\ v \in Int /\ NumNodes \in Int
      BY NodeVariables
    <3> QED
      BY <3>1
  <2>2. NodeAt(v) = <<i, j>>
    BY NodeAtFacts
  <2>3. a[v] = Pre(n, x, i, j)
    BY ValFacts
  <2> QED
    BY <1>1, <2>1, <2>2, <2>3 DEF PropagatedAt
<1>7. ASSUME NEW i \in Hidden, NEW j \in Node(i)
      PROVE  PropagatedAt(q, x, F(i, j)) = a[F(i, j)]
  <2> DEFINE v == F(i, j)
  <2>0. i \in 1 .. LastLayer
    BY LayerIndices
  <2>1. v \notin Inputs /\ v # Constant(question) /\ v \notin AuxVars /\ ~(v >= NumNodes)
    <3>1. v \notin Inputs /\ v # Constant(question) /\ v \notin AuxVars /\ v < NumNodes
          /\ v \in Int /\ NumNodes \in Int
      BY NodeVariables
    <3> QED
      BY <3>1
  <2>2. NodeAt(v) = <<i, j>>
    BY NodeAtFacts
  <2>3. v # B(i, j)
    BY <2>0, NodeVariables
  <2>4. PropagatedAt(q, x, v) = Forward(q, i, j, b[i][j])
    BY <2>1, <2>2, <2>3 DEF PropagatedAt
  <2>5. b[i][j] = Pre(n, x, i, j) /\ Pre(n, x, i, j) \in Int
    BY <1>1, <2>0, PreFacts
  <2>6. Merged(q, i, j) => Pre(n, x, i, j) >= 0
    BY DEF MergedActive
  <2>7. a[v] = Relu(Pre(n, x, i, j))
    BY ValFacts
  <2> QED
    BY <2>4, <2>5, <2>6, <2>7 DEF Forward, Relu
<1>8. \A v \in Var(question) : PropagatedAt(q, x, v) = a[v]
  <2> SUFFICES ASSUME NEW v \in Var(question) PROVE PropagatedAt(q, x, v) = a[v]
    OBVIOUS
  <2> HIDE DEF a
  <2> QED
    BY <1>2, <1>3, <1>4, <1>5, <1>6, <1>7, VariableCases
<1>9. a = [v \in Var(question) |-> a[v]]
  BY DEF Val
<1> QED
  <2> HIDE DEF a
  <2>1. Propagated(q, x) = [v \in Var(question) |-> PropagatedAt(q, x, v)]
    BY PropagatedEach
  <2>2. Propagated(q, x) = [v \in Var(question) |-> a[v]]
    BY <2>1, <1>8
  <2> QED
    BY <2>2, <1>9 DEF a

-----------------------------------------------------------------------------
(***************************************************************************)
(* Queries, and what moving a variable changes.                            *)
(***************************************************************************)
\* A query is a record of these fields.
IsQuery(q) ==
  q = [rows |-> q.rows, lower |-> q.lower, upper |-> q.upper,
       assignment |-> q.assignment, dissolved |-> q.dissolved, consistent |-> q.consistent]

\* Every row holds of the assignment.
Equations(qu, q) ==
  \A y \in Basics(qu) : Dot(q.rows[y], q.assignment, DOMAIN q.rows[y]) = 0

\* The form of the query that experiments work on.
QueryForm(n, qu, q) ==
  /\ IsQuery(q)
  /\ RowsForm(n, qu, q)
  /\ DOMAIN q.lower \subseteq Var(qu) /\ IntOn(q.lower, DOMAIN q.lower)
  /\ DOMAIN q.upper \subseteq Var(qu) /\ IntOn(q.upper, DOMAIN q.upper)
  /\ q.assignment \in [Var(qu) -> Int]
  /\ DOMAIN q.dissolved = Pairs
  /\ Equations(qu, q)

\* u is q, with another assignment: that of non-basic variables not in W is the same.
Moved(qu, q, u, W) ==
  /\ IsQuery(u)
  /\ u.rows = q.rows /\ u.lower = q.lower /\ u.upper = q.upper
  /\ u.dissolved = q.dissolved /\ u.consistent = q.consistent
  /\ u.assignment \in [Var(qu) -> Int]
  /\ Equations(qu, u)
  /\ \A v \in Var(qu) \ Basics(qu) : v \notin W => u.assignment[v] = q.assignment[v]

\* A move keeps the form.
LEMMA MovedForm ==
  ASSUME NEW n, NEW qu, NEW q, QueryForm(n, qu, q), NEW W, NEW u, Moved(qu, q, u, W)
  PROVE  QueryForm(n, qu, u)
<1>1. u.rows = q.rows /\ u.lower = q.lower /\ u.upper = q.upper /\ u.dissolved = q.dissolved
  BY DEF Moved
<1>2. RowsForm(n, qu, u)
  BY <1>1 DEF QueryForm, RowsForm, Own, Merged
<1> QED
  BY <1>1, <1>2 DEF QueryForm, Moved

\* No move is a move.
LEMMA MovedNot ==
  ASSUME NEW n, NEW qu, NEW q, QueryForm(n, qu, q)
  PROVE  Moved(qu, q, q, {})
BY DEF QueryForm, Moved

\* Two moves are one.
LEMMA MovedTwice ==
  ASSUME NEW qu, NEW q, NEW u, NEW w, NEW V, NEW W, Moved(qu, q, u, V), Moved(qu, u, w, W)
  PROVE  Moved(qu, q, w, V \cup W)
BY DEF Moved

\* The assignment of an updated query.
UpdatedAssignment(q, v, value) ==
  [x \in Vars(q) |->
     IF x = v THEN value
     ELSE IF x \in DOMAIN q.rows /\ v \in DOMAIN q.rows[x]
     THEN q.assignment[x] + (value - q.assignment[v]) * q.rows[x][v]
     ELSE q.assignment[x]]

\* update() changes the assignment only.
LEMMA UpdateFields ==
  ASSUME NEW q, IsQuery(q), NEW v, NEW value
  PROVE  LET u == Update(q, v, value) IN
         /\ IsQuery(u)
         /\ u.rows = q.rows /\ u.lower = q.lower /\ u.upper = q.upper
         /\ u.dissolved = q.dissolved /\ u.consistent = q.consistent
         /\ u.assignment = UpdatedAssignment(q, v, value)
<1> DEFINE a == UpdatedAssignment(q, v, value)
<1>1. Update(q, v, value) = [q EXCEPT !.assignment = a]
  BY DEF Update, UpdatedAssignment
<1> HIDE DEF a
<1>2. LET u == [q EXCEPT !.assignment = a] IN
      /\ IsQuery(u)
      /\ u.rows = q.rows /\ u.lower = q.lower /\ u.upper = q.upper
      /\ u.dissolved = q.dissolved /\ u.consistent = q.consistent
      /\ u.assignment = a
  BY DEF IsQuery
<1> QED
  BY <1>1, <1>2 DEF a

\* A row's sum after a move of one of its terms.
LEMMA MoveArithmetic ==
  ASSUME NEW r \in Int, NEW a \in Int, NEW value \in Int, NEW basic \in Int, NEW rest \in Int,
         r * a + (-basic + rest) = 0
  PROVE  r * value + (-(basic + (value - a) * r) + rest) = 0
<1>1. (value - a) * r = r * value - r * a
  OBVIOUS
<1> DEFINE u == r * value
           w == r * a
<1>2. u \in Int /\ w \in Int /\ (value - a) * r = u - w
  BY <1>1
<1> HIDE DEF u, w
<1>3. u + (-(basic + (u - w)) + rest) = 0
  <2>1. w + (-basic + rest) = 0
    BY DEF w
  <2> QED
    BY <2>1, <1>2
<1> QED
  BY <1>2, <1>3 DEF u

\* A non-basic variable's move takes the basic variable of a row along.
LEMMA RowMoves ==
  ASSUME NEW X, IsFiniteSet(X), NEW r, IntOn(r, X), NEW a, IntOn(a, X), NEW b, IntOn(b, X),
         NEW v \in X, NEW y \in X, v # y, r[y] = -1, NEW value \in Int,
         b[v] = value, b[y] = a[y] + (value - a[v]) * r[v],
         \A x \in X \ {v, y} : b[x] = a[x], Dot(r, a, X) = 0
  PROVE  Dot(r, b, X) = 0
<1> DEFINE Y == X \ {v}
           Z == Y \ {y}
<1>1. IsFiniteSet(Y) /\ IsFiniteSet(Z)
  BY FS_RemoveElement
<1>2. /\ IntOn(r, Y) /\ IntOn(a, Y) /\ IntOn(b, Y) /\ IntOn(r, Z) /\ IntOn(a, Z) /\ IntOn(b, Z)
      /\ r[v] \in Int /\ a[v] \in Int /\ a[y] \in Int /\ b[y] \in Int /\ y \in Y
  BY DEF IntOn
<1>3. \A x \in Z : r[x] * b[x] = r[x] * a[x]
  OBVIOUS
<1> HIDE DEF Y, Z
<1>4. Dot(r, a, X) = r[v] * a[v] + Dot(r, a, Y) /\ Dot(r, b, X) = r[v] * b[v] + Dot(r, b, Y)
  BY DotRemove DEF Y
<1>5. /\ Dot(r, a, Y) = r[y] * a[y] + Dot(r, a, Z)
      /\ Dot(r, b, Y) = r[y] * b[y] + Dot(r, b, Z)
  BY <1>1, <1>2, DotRemove DEF Z
<1>6. Dot(r, b, Z) = Dot(r, a, Z)
  BY <1>1, <1>2, <1>3, DotEqual
<1> DEFINE d == Dot(r, a, Z)
<1>7. d \in Int
  BY <1>1, <1>2, DotInt
<1> HIDE DEF d
<1>8. r[y] * a[y] = -a[y] /\ r[y] * b[y] = -b[y]
  BY <1>2
<1>9. r[v] * a[v] + (-a[y] + d) = 0
  BY <1>4, <1>5, <1>8 DEF d
<1>10. r[v] * value + (-(a[y] + (value - a[v]) * r[v]) + d) = 0
  BY <1>2, <1>7, <1>9, MoveArithmetic
<1>11. Dot(r, b, X) = r[v] * value + (-(a[y] + (value - a[v]) * r[v]) + d)
  BY <1>4, <1>5, <1>6, <1>8 DEF d
<1> QED
  BY <1>10, <1>11

\* update() moves a non-basic variable and keeps all equations.
LEMMA UpdateMoves ==
  ASSUME NEW n, IsNetwork(n), NEW qu, IsQuestion(qu), NEW q, QueryForm(n, qu, q),
         NEW v \in Var(qu) \ Basics(qu), NEW value \in Int
  PROVE  Moved(qu, q, Update(q, v, value), {v}) /\ Update(q, v, value).assignment[v] = value
<1> DEFINE u == Update(q, v, value)
           a == q.assignment
           b == UpdatedAssignment(q, v, value)
<1>1. /\ IsQuery(u)
      /\ u.rows = q.rows /\ u.lower = q.lower /\ u.upper = q.upper
      /\ u.dissolved = q.dissolved /\ u.consistent = q.consistent
      /\ u.assignment = b
  BY UpdateFields DEF QueryForm
<1>2. a \in [Var(qu) -> Int] /\ Vars(q) = Var(qu) /\ DOMAIN q.rows = Basics(qu)
  BY DEF QueryForm, Vars, RowsForm
<1>3. \A y \in Basics(qu) : RowOk(qu, q.rows[y], y)
  BY RowsOk DEF QueryForm
<1>4. \A x \in Var(qu) :
        b[x] = IF x = v THEN value
               ELSE IF x \in Basics(qu) /\ v \in DOMAIN q.rows[x]
               THEN a[x] + (value - a[v]) * q.rows[x][v]
               ELSE a[x]
  BY <1>2 DEF UpdatedAssignment
<1>5. ASSUME NEW x \in Var(qu)
      PROVE  b[x] \in Int
  <2>1. CASE x \in Basics(qu) /\ v \in DOMAIN q.rows[x] /\ x # v
    <3>1. q.rows[x][v] \in Int
      BY <2>1, <1>3 DEF RowOk, IntOn
    <3> DEFINE c == q.rows[x][v]
    <3> HIDE DEF c
    <3>2. b[x] = a[x] + (value - a[v]) * c /\ a[x] \in Int /\ a[v] \in Int
      BY <2>1, <1>2, <1>4 DEF c
    <3> QED
      BY <3>1, <3>2 DEF c
  <2>2. CASE ~(x \in Basics(qu) /\ v \in DOMAIN q.rows[x]) \/ x = v
    BY <2>2, <1>2, <1>4
  <2> QED
    BY <2>1, <2>2
<1>6. b \in [Var(qu) -> Int]
  BY <1>2, <1>5 DEF UpdatedAssignment
<1>7. ASSUME NEW y \in Basics(qu)
      PROVE  Dot(q.rows[y], b, DOMAIN q.rows[y]) = 0
  <2> DEFINE r == q.rows[y]
             X == DOMAIN r
  <2>1. /\ IsFiniteSet(X) /\ IntOn(r, X) /\ X \subseteq Var(qu) /\ y \in X /\ r[y] = -1
        /\ \A x \in X : x \in Basics(qu) => x = y
    BY <1>3 DEF RowOk
  <2>2. IntOn(a, X) /\ IntOn(b, X)
    BY <2>1, <1>2, <1>6 DEF IntOn
  <2>3. Dot(r, a, X) = 0
    BY DEF QueryForm, Equations
  <2>4. v # y
    OBVIOUS
  <2>5. CASE v \in X
    <3>1. b[v] = value /\ b[y] = a[y] + (value - a[v]) * r[v]
      BY <2>1, <2>4, <2>5, <1>4
    <3>2. \A x \in X \ {v, y} : b[x] = a[x]
      BY <2>1, <1>4
    <3> HIDE DEF a, b, r, X
    <3>3. Dot(r, b, X) = 0
      BY <2>1, <2>2, <2>3, <2>4, <2>5, <3>1, <3>2, RowMoves
    <3> QED
      BY <3>3 DEF r, X
  <2>6. CASE v \notin X
    <3>1. \A x \in X : b[x] = a[x]
      BY <2>1, <2>6, <1>4
    <3> HIDE DEF a, b, r, X
    <3>2. \A x \in X : r[x] * b[x] = r[x] * a[x]
      BY <3>1
    <3>3. Dot(r, b, X) = Dot(r, a, X)
      BY <2>1, <2>2, <3>2, DotEqual
    <3> QED
      BY <3>3, <2>3 DEF r, X
  <2> HIDE DEF a, b, r, X
  <2> QED
    BY <2>5, <2>6 DEF r, X
<1>8. \A x \in Var(qu) \ Basics(qu) : x \notin {v} => b[x] = a[x]
  BY <1>4
<1>9. b[v] = value
  BY <1>4
<1> HIDE DEF a, b
<1>10. Equations(qu, u)
  BY <1>1, <1>7 DEF Equations
<1>11. u.assignment \in [Var(qu) -> Int]
  BY <1>1, <1>6
<1>12. \A x \in Var(qu) \ Basics(qu) : x \notin {v} => u.assignment[x] = q.assignment[x]
  BY <1>1, <1>8 DEF a
<1> HIDE DEF u
<1> QED
  BY <1>1, <1>9, <1>10, <1>11, <1>12 DEF Moved, u

-----------------------------------------------------------------------------
(***************************************************************************)
(* Bounds, and moves into them.                                            *)
(***************************************************************************)
\* c is within the bounds of v.
Allows(q, v, c) ==
  /\ v \in DOMAIN q.lower => q.lower[v] <= c
  /\ v \in DOMAIN q.upper => c <= q.upper[v]

\* The non-basic variables, but for those in W, are within their bounds.
NonBasicsIn(qu, q, W) == \A v \in Var(qu) \ Basics(qu) : v \notin W => ~OutOfBounds(q, v)

\* A variable with an allowed value is within its bounds.
LEMMA AllowedIn ==
  ASSUME NEW q, NEW v, NEW c \in Int, q.assignment[v] = c, Allows(q, v, c),
         IntOn(q.lower, DOMAIN q.lower), IntOn(q.upper, DOMAIN q.upper)
  PROVE  ~OutOfBounds(q, v)
BY DEF Allows, OutOfBounds, TooLow, TooHigh, IntOn

\* A move of some variables is one of more.
LEMMA MovedMore ==
  ASSUME NEW qu, NEW q, NEW u, NEW V, NEW W, Moved(qu, q, u, V), V \subseteq W
  PROVE  Moved(qu, q, u, W)
BY DEF Moved

\* A variable that did not move is in or out of its bounds as before.
LEMMA MovedStaysIn ==
  ASSUME NEW qu, NEW q, NEW u, NEW W, Moved(qu, q, u, W), NEW v \in Var(qu) \ Basics(qu),
         v \notin W
  PROVE  OutOfBounds(u, v) = OutOfBounds(q, v)
BY DEF Moved, OutOfBounds, TooLow, TooHigh

\* If those that moved came into their bounds, the others are as before.
LEMMA MovedIn ==
  ASSUME NEW qu, NEW q, NEW u, NEW V, NEW W, Moved(qu, q, u, V), NonBasicsIn(qu, q, W),
         \A v \in V : v \in Var(qu) \ Basics(qu) => ~OutOfBounds(u, v)
  PROVE  NonBasicsIn(qu, u, W)
<1> SUFFICES ASSUME NEW v \in Var(qu) \ Basics(qu), v \notin W, v \notin V
             PROVE  ~OutOfBounds(u, v)
  BY DEF NonBasicsIn
<1>1. ~OutOfBounds(q, v)
  BY DEF NonBasicsIn
<1> QED
  BY <1>1, MovedStaysIn

\* A variable updated to an allowed value is within its bounds.
LEMMA UpdateIn ==
  ASSUME NEW n, IsNetwork(n), NEW qu, IsQuestion(qu), NEW q, QueryForm(n, qu, q),
         NEW v \in Var(qu) \ Basics(qu), NEW c \in Int, Allows(q, v, c)
  PROVE  Moved(qu, q, Update(q, v, c), {v}) /\ ~OutOfBounds(Update(q, v, c), v)
<1> DEFINE u == Update(q, v, c)
<1>1. Moved(qu, q, u, {v}) /\ u.assignment[v] = c
  BY UpdateMoves
<1> HIDE DEF u
<1>2. u.lower = q.lower /\ u.upper = q.upper
  BY <1>1 DEF Moved
<1>3. Allows(u, v, c)
  BY <1>2 DEF Allows
<1>4. IntOn(u.lower, DOMAIN u.lower) /\ IntOn(u.upper, DOMAIN u.upper)
  BY <1>2 DEF QueryForm
<1>5. ~OutOfBounds(u, v)
  BY <1>1, <1>3, <1>4, AllowedIn
<1> QED
  BY <1>1, <1>5 DEF u

\* Moving nothing, again.
LEMMA StaysMoved ==
  ASSUME NEW n, NEW qu, NEW q, QueryForm(n, qu, q), NEW W
  PROVE  Moved(qu, q, q, W)
BY MovedNot, MovedMore

\* An update that is left out when the value is the same.
LEMMA MoveToIn ==
  ASSUME NEW n, IsNetwork(n), NEW qu, IsQuestion(qu), NEW q, QueryForm(n, qu, q),
         NEW v \in Var(qu) \ Basics(qu), NEW c \in Int, Allows(q, v, c)
  PROVE  Moved(qu, q, MoveTo(q, v, c), {v}) /\ ~OutOfBounds(MoveTo(q, v, c), v)
<1>1. CASE OutOfBounds(q, v)
  <2>1. MoveTo(q, v, c) = Update(q, v, c)
    BY <1>1 DEF MoveTo, NonBasic, QueryForm, RowsForm
  <2> QED
    BY <2>1, UpdateIn
<1>2. CASE ~OutOfBounds(q, v)
  <2>1. MoveTo(q, v, c) = q
    BY <1>2 DEF MoveTo
  <2> QED
    BY <2>1, <1>2, StaysMoved
<1> QED
  BY <1>1, <1>2

\* The update of a variable out of its bounds, unless it is basic.
LEMMA MoveAloneIn ==
  ASSUME NEW n, IsNetwork(n), NEW qu, IsQuestion(qu), NEW q, QueryForm(n, qu, q),
         NEW v \in Var(qu), NEW c \in Int, Allows(q, v, c), ~Active(q, v)
  PROVE  /\ Moved(qu, q, MoveAlone(q, v, c), {v})
         /\ v \notin Basics(qu) => ~OutOfBounds(MoveAlone(q, v, c), v)
<1>1. CASE OutOfBounds(q, v) /\ v \notin Basics(qu)
  <2>1. MoveAlone(q, v, c) = UpdateBoth(q, v, c)
    BY <1>1 DEF MoveAlone, NonBasic, QueryForm, RowsForm
  <2>2. UpdateBoth(q, v, c) = Update(q, v, c)
    BY DEF UpdateBoth
  <2> QED
    BY <1>1, <2>1, <2>2, UpdateIn
<1>2. CASE ~OutOfBounds(q, v) \/ v \in Basics(qu)
  <2>1. MoveAlone(q, v, c) = q
    BY <1>2 DEF MoveAlone, NonBasic, QueryForm, RowsForm
  <2> QED
    BY <2>1, <1>2, StaysMoved
<1> QED
  BY <1>1, <1>2

-----------------------------------------------------------------------------
\* A bound set for some variables.
BoundSet(bounds, vs, c) == [x \in vs \union DOMAIN bounds |-> IF x \in vs THEN c ELSE bounds[x]]

\* A new upper bound changes nothing else.
LEMMA SetUpperFields ==
  ASSUME NEW q, IsQuery(q), NEW vs, NEW c
  PROVE  LET u == SetUpper(q, vs, c) IN
         /\ IsQuery(u)
         /\ u.rows = q.rows /\ u.lower = q.lower /\ u.upper = BoundSet(q.upper, vs, c)
         /\ u.dissolved = q.dissolved /\ u.consistent = q.consistent
         /\ u.assignment = q.assignment
<1> DEFINE a == BoundSet(q.upper, vs, c)
<1>1. SetUpper(q, vs, c) = [q EXCEPT !.upper = a]
  BY DEF SetUpper, BoundSet
<1> HIDE DEF a
<1>2. LET u == [q EXCEPT !.upper = a] IN
      /\ IsQuery(u)
      /\ u.rows = q.rows /\ u.lower = q.lower /\ u.upper = a
      /\ u.dissolved = q.dissolved /\ u.consistent = q.consistent
      /\ u.assignment = q.assignment
  BY DEF IsQuery
<1> QED
  BY <1>1, <1>2 DEF a

\* A new lower bound changes nothing else.
LEMMA SetLowerFields ==
  ASSUME NEW q, IsQuery(q), NEW vs, NEW c
  PROVE  LET u == SetLower(q, vs, c) IN
         /\ IsQuery(u)
         /\ u.rows = q.rows /\ u.upper = q.upper /\ u.lower = BoundSet(q.lower, vs, c)
         /\ u.dissolved = q.dissolved /\ u.consistent = q.consistent
         /\ u.assignment = q.assignment
<1> DEFINE a == BoundSet(q.lower, vs, c)
<1>1. SetLower(q, vs, c) = [q EXCEPT !.lower = a]
  BY DEF SetLower, BoundSet
<1> HIDE DEF a
<1>2. LET u == [q EXCEPT !.lower = a] IN
      /\ IsQuery(u)
      /\ u.rows = q.rows /\ u.upper = q.upper /\ u.lower = a
      /\ u.dissolved = q.dissolved /\ u.consistent = q.consistent
      /\ u.assignment = q.assignment
  BY DEF IsQuery
<1> QED
  BY <1>1, <1>2 DEF a

\* The bounds after one is set.
LEMMA BoundSetFacts ==
  ASSUME NEW bounds, NEW vs, NEW c
  PROVE  /\ DOMAIN BoundSet(bounds, vs, c) = vs \cup DOMAIN bounds
         /\ \A x \in vs : BoundSet(bounds, vs, c)[x] = c
         /\ \A x \in DOMAIN bounds : x \notin vs => BoundSet(bounds, vs, c)[x] = bounds[x]
BY DEF BoundSet

\* They are integers, of the same variables.
LEMMA BoundSetForm ==
  ASSUME NEW bounds, NEW S, DOMAIN bounds \subseteq S, IntOn(bounds, DOMAIN bounds),
         NEW vs, vs \subseteq S, NEW c \in Int
  PROVE  /\ DOMAIN BoundSet(bounds, vs, c) \subseteq S
         /\ IntOn(BoundSet(bounds, vs, c), DOMAIN BoundSet(bounds, vs, c))
BY DEF BoundSet, IntOn

\* A new upper bound keeps the form of a query.
LEMMA SetUpperForm ==
  ASSUME NEW n, NEW qu, NEW q, QueryForm(n, qu, q), NEW vs, vs \subseteq Var(qu), NEW c \in Int
  PROVE  QueryForm(n, qu, SetUpper(q, vs, c))
<1> DEFINE u == SetUpper(q, vs, c)
<1>1. /\ IsQuery(u)
      /\ u.rows = q.rows /\ u.lower = q.lower /\ u.upper = BoundSet(q.upper, vs, c)
      /\ u.dissolved = q.dissolved /\ u.consistent = q.consistent
      /\ u.assignment = q.assignment
  BY SetUpperFields DEF QueryForm
<1>2. DOMAIN u.upper \subseteq Var(qu) /\ IntOn(u.upper, DOMAIN u.upper)
  BY <1>1, BoundSetForm DEF QueryForm
<1> HIDE DEF u
<1>3. RowsForm(n, qu, u) /\ Equations(qu, u)
  BY <1>1 DEF QueryForm, RowsForm, Own, Merged, Equations
<1> QED
  BY <1>1, <1>2, <1>3 DEF QueryForm, u

\* A new lower bound keeps the form of a query.
LEMMA SetLowerForm ==
  ASSUME NEW n, NEW qu, NEW q, QueryForm(n, qu, q), NEW vs, vs \subseteq Var(qu), NEW c \in Int
  PROVE  QueryForm(n, qu, SetLower(q, vs, c))
<1> DEFINE u == SetLower(q, vs, c)
<1>1. /\ IsQuery(u)
      /\ u.rows = q.rows /\ u.upper = q.upper /\ u.lower = BoundSet(q.lower, vs, c)
      /\ u.dissolved = q.dissolved /\ u.consistent = q.consistent
      /\ u.assignment = q.assignment
  BY SetLowerFields DEF QueryForm
<1>2. DOMAIN u.lower \subseteq Var(qu) /\ IntOn(u.lower, DOMAIN u.lower)
  BY <1>1, BoundSetForm DEF QueryForm
<1> HIDE DEF u
<1>3. RowsForm(n, qu, u) /\ Equations(qu, u)
  BY <1>1 DEF QueryForm, RowsForm, Own, Merged, Equations
<1> QED
  BY <1>1, <1>2, <1>3 DEF QueryForm, u

\* A refutation changes nothing else.
LEMMA RefuseFields ==
  ASSUME NEW q, IsQuery(q)
  PROVE  LET u == [q EXCEPT !.consistent = FALSE] IN
         /\ IsQuery(u)
         /\ u.rows = q.rows /\ u.lower = q.lower /\ u.upper = q.upper
         /\ u.dissolved = q.dissolved /\ u.consistent = FALSE
         /\ u.assignment = q.assignment
<1>1. ASSUME NEW c
      PROVE  LET u == [q EXCEPT !.consistent = c] IN
             /\ IsQuery(u)
             /\ u.rows = q.rows /\ u.lower = q.lower /\ u.upper = q.upper
             /\ u.dissolved = q.dissolved /\ u.consistent = c
             /\ u.assignment = q.assignment
  BY DEF IsQuery
<1> QED
  BY <1>1

\* A refuted query keeps its form.
LEMMA RefuseForm ==
  ASSUME NEW n, NEW qu, NEW q, QueryForm(n, qu, q)
  PROVE  QueryForm(n, qu, [q EXCEPT !.consistent = FALSE])
<1> DEFINE u == [q EXCEPT !.consistent = FALSE]
<1>1. /\ IsQuery(u)
      /\ u.rows = q.rows /\ u.lower = q.lower /\ u.upper = q.upper
      /\ u.dissolved = q.dissolved /\ u.assignment = q.assignment
  BY RefuseFields DEF QueryForm
<1> HIDE DEF u
<1>2. RowsForm(n, qu, u) /\ Equations(qu, u)
  BY <1>1 DEF QueryForm, RowsForm, Own, Merged, Equations
<1> QED
  BY <1>1, <1>2 DEF QueryForm, u

\* No bounds were found to cross.
Consistent(q) == q.consistent = TRUE

\* u is q with the given bounds; it is refuted if those of v cross, and the
\* non-basic variables that left their bounds are v at most.
Bounded(n, qu, q, u, v, lower, upper) ==
  /\ QueryForm(n, qu, u)
  /\ u.rows = q.rows /\ u.dissolved = q.dissolved
  /\ u.lower = lower /\ u.upper = upper
  /\ \/ ~BoundInvariantHolds(u, v) /\ u.consistent = FALSE
     \/ /\ BoundInvariantHolds(u, v)
        /\ u.consistent = TRUE
        /\ NonBasicsIn(qu, q, {}) => NonBasicsIn(qu, u, {})

\* Whether bounds cross depends on the bounds only.
LEMMA InvariantKept ==
  ASSUME NEW q, NEW u, NEW v, u.lower = q.lower, u.upper = q.upper
  PROVE  BoundInvariantHolds(u, v) = BoundInvariantHolds(q, v)
BY DEF BoundInvariantHolds, Finite

\* A bound of a variable without an active pair.
LEMMA BoundAlone ==
  ASSUME NEW n, IsNetwork(n), NEW qu, IsQuestion(qu), NEW q, QueryForm(n, qu, q),
         NEW v \in Var(qu), NEW c \in Int, ~Active(q, v), Consistent(q),
         NEW alone, QueryForm(n, qu, alone), alone.rows = q.rows,
         alone.dissolved = q.dissolved, Consistent(alone),
         BoundInvariantHolds(alone, v) => Allows(alone, v, c),
         \A x \in Var(qu) : x # v => OutOfBounds(alone, x) = OutOfBounds(q, x)
  PROVE  Bounded(n, qu, q, Checked(alone, {v}, MoveAlone(alone, v, c)), v,
                 alone.lower, alone.upper)
<1> DEFINE u == Checked(alone, {v}, MoveAlone(alone, v, c))
<1>1. CASE ~BoundInvariantHolds(alone, v)
  <2> DEFINE w == [alone EXCEPT !.consistent = FALSE]
  <2>1. u = w
    BY <1>1 DEF Checked
  <2>2. /\ IsQuery(w)
        /\ w.rows = alone.rows /\ w.lower = alone.lower /\ w.upper = alone.upper
        /\ w.dissolved = alone.dissolved /\ w.consistent = FALSE
    BY RefuseFields DEF QueryForm
  <2>3. QueryForm(n, qu, w)
    BY RefuseForm
  <2> HIDE DEF w, u
  <2>4. ~BoundInvariantHolds(w, v)
    BY <1>1, <2>2, InvariantKept
  <2> QED
    BY <2>1, <2>2, <2>3, <2>4 DEF Bounded, u
<1>2. CASE BoundInvariantHolds(alone, v)
  <2> DEFINE w == MoveAlone(alone, v, c)
  <2>1. u = w
    BY <1>2 DEF Checked
  <2>2. ~Active(alone, v) /\ Allows(alone, v, c)
    BY <1>2 DEF Active
  <2>3. Moved(qu, alone, w, {v}) /\ (v \notin Basics(qu) => ~OutOfBounds(w, v))
    BY <2>2, MoveAloneIn
  <2> HIDE DEF w, u
  <2>4. QueryForm(n, qu, w)
    BY <2>3, MovedForm
  <2>5. /\ w.rows = q.rows /\ w.lower = alone.lower /\ w.upper = alone.upper
        /\ w.dissolved = q.dissolved /\ w.consistent = TRUE
    BY <2>3 DEF Moved, Consistent
  <2>6. BoundInvariantHolds(w, v)
    BY <1>2, <2>5, InvariantKept
  <2>7. ASSUME NonBasicsIn(qu, q, {})
        PROVE  NonBasicsIn(qu, w, {})
    <3> SUFFICES ASSUME NEW x \in Var(qu) \ Basics(qu) PROVE ~OutOfBounds(w, x)
      BY DEF NonBasicsIn
    <3>1. CASE x = v
      BY <3>1, <2>3
    <3>2. CASE x # v
      <4>1. OutOfBounds(w, x) = OutOfBounds(alone, x)
        BY <2>3, <3>2, MovedStaysIn
      <4>2. ~OutOfBounds(q, x)
        BY <2>7 DEF NonBasicsIn
      <4> QED
        BY <4>1, <4>2, <3>2
    <3> QED
      BY <3>1, <3>2
  <2> QED
    BY <2>1, <2>4, <2>5, <2>6, <2>7 DEF Bounded, u
<1> QED
  BY <1>1, <1>2

\* updateUpperBound of a variable without an active pair.
LEMMA PlainUpper ==
  ASSUME NEW n, IsNetwork(n), NEW qu, IsQuestion(qu), NEW q, QueryForm(n, qu, q),
         NEW v \in Var(qu), NEW c \in Int, ~Active(q, v), Consistent(q)
  PROVE  Bounded(n, qu, q, UpdateUpperBound(q, v, c), v, q.lower, BoundSet(q.upper, {v}, c))
<1> DEFINE alone == SetUpper(q, {v}, c)
<1>1. /\ alone.rows = q.rows /\ alone.lower = q.lower /\ alone.upper = BoundSet(q.upper, {v}, c)
      /\ alone.dissolved = q.dissolved /\ alone.consistent = q.consistent
      /\ alone.assignment = q.assignment
  BY SetUpperFields DEF QueryForm
<1>2. QueryForm(n, qu, alone)
  BY SetUpperForm
<1>3. UpdateUpperBound(q, v, c) = Checked(alone, {v}, MoveAlone(alone, v, c))
  BY DEF UpdateUpperBound
<1> HIDE DEF alone
<1>4. /\ DOMAIN alone.upper = {v} \cup DOMAIN q.upper /\ alone.upper[v] = c
      /\ \A x \in DOMAIN q.upper : x # v => alone.upper[x] = q.upper[x]
  <2> DEFINE set == BoundSet(q.upper, {v}, c)
  <2>1. /\ DOMAIN set = {v} \cup DOMAIN q.upper
        /\ \A x \in {v} : set[x] = c
        /\ \A x \in DOMAIN q.upper : x \notin {v} => set[x] = q.upper[x]
    BY DEF BoundSet
  <2> HIDE DEF set
  <2>2. alone.upper = set
    BY <1>1 DEF set
  <2> QED
    BY <2>1, <2>2
<1>5. BoundInvariantHolds(alone, v) => Allows(alone, v, c)
  BY <1>4 DEF BoundInvariantHolds, Allows, Finite
<1>6. \A x \in Var(qu) : x # v => OutOfBounds(alone, x) = OutOfBounds(q, x)
  BY <1>1, <1>4 DEF OutOfBounds, TooLow, TooHigh
<1>7. Bounded(n, qu, q, Checked(alone, {v}, MoveAlone(alone, v, c)), v, alone.lower, alone.upper)
  <2>1. Consistent(alone)
    BY <1>1 DEF Consistent
  <2> QED
    BY <2>1, <1>1, <1>2, <1>5, <1>6, BoundAlone
<1> QED
  BY <1>1, <1>3, <1>7

\* updateLowerBound of a variable without an active pair.
LEMMA PlainLower ==
  ASSUME NEW n, IsNetwork(n), NEW qu, IsQuestion(qu), NEW q, QueryForm(n, qu, q),
         NEW v \in Var(qu), NEW c \in Int, ~Active(q, v), Consistent(q)
  PROVE  Bounded(n, qu, q, UpdateLowerBound(q, v, c), v, BoundSet(q.lower, {v}, c), q.upper)
<1> DEFINE alone == SetLower(q, {v}, c)
<1>1. /\ alone.rows = q.rows /\ alone.upper = q.upper /\ alone.lower = BoundSet(q.lower, {v}, c)
      /\ alone.dissolved = q.dissolved /\ alone.consistent = q.consistent
      /\ alone.assignment = q.assignment
  BY SetLowerFields DEF QueryForm
<1>2. QueryForm(n, qu, alone)
  BY SetLowerForm
<1>3. UpdateLowerBound(q, v, c) = Checked(alone, {v}, MoveAlone(alone, v, c))
  BY DEF UpdateLowerBound
<1> HIDE DEF alone
<1>4. /\ DOMAIN alone.lower = {v} \cup DOMAIN q.lower /\ alone.lower[v] = c
      /\ \A x \in DOMAIN q.lower : x # v => alone.lower[x] = q.lower[x]
  <2> DEFINE set == BoundSet(q.lower, {v}, c)
  <2>1. /\ DOMAIN set = {v} \cup DOMAIN q.lower
        /\ \A x \in {v} : set[x] = c
        /\ \A x \in DOMAIN q.lower : x \notin {v} => set[x] = q.lower[x]
    BY DEF BoundSet
  <2> HIDE DEF set
  <2>2. alone.lower = set
    BY <1>1 DEF set
  <2> QED
    BY <2>1, <2>2
<1>5. BoundInvariantHolds(alone, v) => Allows(alone, v, c)
  BY <1>4 DEF BoundInvariantHolds, Allows, Finite
<1>6. \A x \in Var(qu) : x # v => OutOfBounds(alone, x) = OutOfBounds(q, x)
  BY <1>1, <1>4 DEF OutOfBounds, TooLow, TooHigh
<1>7. Bounded(n, qu, q, Checked(alone, {v}, MoveAlone(alone, v, c)), v, alone.lower, alone.upper)
  <2>1. Consistent(alone)
    BY <1>1 DEF Consistent
  <2> QED
    BY <2>1, <1>1, <1>2, <1>5, <1>6, BoundAlone
<1> QED
  BY <1>1, <1>3, <1>7

-----------------------------------------------------------------------------
(***************************************************************************)
(* The bounds of a pair's variables.                                       *)
(***************************************************************************)
\* The variables of a pair are non-basic.
LEMMA PairVariables ==
  ASSUME NEW qu, IsQuestion(qu), NEW i \in Hidden, NEW j \in Node(i)
  PROVE  /\ B(i, j) \in Var(qu) \ Basics(qu) /\ F(i, j) \in Var(qu) \ Basics(qu)
         /\ B(i, j) # F(i, j)
         /\ <<B(i, j), F(i, j)>> \in Pairs
<1>1. i \in 1 .. LastLayer
  BY LayerIndices
<1> QED
  BY <1>1, NodeVariables, PairFacts

\* A pair is active until it is dissolved.
LEMMA ActivePair ==
  ASSUME NEW q, NEW i \in Hidden, NEW j \in Node(i)
  PROVE  /\ PairOf(B(i, j)) = <<B(i, j), F(i, j)>>
         /\ Active(q, B(i, j)) <=> q.dissolved[<<B(i, j), F(i, j)>>] = "no"
BY PairFacts DEF Active

\* Both variables are moved into their bounds.
LEMMA TwoMoves ==
  ASSUME NEW n, IsNetwork(n), NEW qu, IsQuestion(qu), NEW q, QueryForm(n, qu, q),
         NEW b \in Var(qu) \ Basics(qu), NEW f \in Var(qu) \ Basics(qu), b # f,
         NEW c \in Int, NEW d \in Int, Allows(q, b, c), Allows(q, f, d)
  PROVE  LET u == MoveTo(MoveTo(q, b, c), f, d) IN
         /\ Moved(qu, q, u, {b, f})
         /\ ~OutOfBounds(u, b) /\ ~OutOfBounds(u, f)
         /\ QueryForm(n, qu, u)
<1> DEFINE w == MoveTo(q, b, c)
<1>1. Moved(qu, q, w, {b}) /\ ~OutOfBounds(w, b)
  BY MoveToIn
<1> HIDE DEF w
<1>2. QueryForm(n, qu, w)
  BY <1>1, MovedForm
<1>3. Allows(w, f, d)
  BY <1>1 DEF Moved, Allows
<1> DEFINE u == MoveTo(w, f, d)
<1>4. Moved(qu, w, u, {f}) /\ ~OutOfBounds(u, f)
  BY <1>2, <1>3, MoveToIn
<1> HIDE DEF u
<1>5. ~OutOfBounds(u, b)
  BY <1>1, <1>4, MovedStaysIn
<1>6. Moved(qu, q, u, {b} \cup {f}) /\ {b} \cup {f} = {b, f}
  BY <1>1, <1>4, MovedTwice
<1>7. Moved(qu, q, u, {b, f})
  BY <1>6
<1>8. QueryForm(n, qu, u)
  BY <1>2, <1>4, MovedForm
<1> QED
  BY <1>4, <1>5, <1>7, <1>8 DEF u, w

\* From q, with other bounds for a pair and another phase, to u.
PairBounded(n, qu, q, u, lower, upper, dissolved) ==
  /\ QueryForm(n, qu, u)
  /\ Consistent(u)
  /\ u.lower = lower /\ u.upper = upper /\ u.dissolved = dissolved
  /\ NonBasicsIn(qu, u, {})

\* Only b and f left their bounds, or came into them.
OthersStay(qu, q, u, b, f) ==
  \A x \in Var(qu) : x # b /\ x # f => OutOfBounds(u, x) = OutOfBounds(q, x)

\* A pair's bounds allow the moves that follow them.
LEMMA PairMoved ==
  ASSUME NEW n, IsNetwork(n), NEW qu, IsQuestion(qu), NEW q, NonBasicsIn(qu, q, {}),
         NEW b \in Var(qu) \ Basics(qu), NEW f \in Var(qu) \ Basics(qu), b # f,
         NEW set, QueryForm(n, qu, set), Consistent(set),
         NEW c \in Int, NEW d \in Int, Allows(set, b, c), Allows(set, f, d),
         OthersStay(qu, q, set, b, f), NEW u, u = MoveTo(MoveTo(set, b, c), f, d)
  PROVE  /\ PairBounded(n, qu, q, u, set.lower, set.upper, set.dissolved)
         /\ u.rows = set.rows
<1>1. /\ Moved(qu, set, u, {b, f})
      /\ ~OutOfBounds(u, b) /\ ~OutOfBounds(u, f)
      /\ QueryForm(n, qu, u)
  BY TwoMoves
<1>2. NonBasicsIn(qu, u, {})
  <2> SUFFICES ASSUME NEW x \in Var(qu) \ Basics(qu) PROVE ~OutOfBounds(u, x)
    BY DEF NonBasicsIn
  <2>1. CASE x = b \/ x = f
    BY <2>1, <1>1
  <2>2. CASE x # b /\ x # f
    <3>1. x \notin {b, f}
      BY <2>2
    <3>2. OutOfBounds(u, x) = OutOfBounds(set, x)
      BY <1>1, <3>1, MovedStaysIn
    <3>3. ~OutOfBounds(q, x)
      BY DEF NonBasicsIn
    <3> QED
      BY <2>2, <3>2, <3>3 DEF OthersStay
  <2> QED
    BY <2>1, <2>2
<1>3. /\ u.rows = set.rows /\ u.lower = set.lower /\ u.upper = set.upper
      /\ u.dissolved = set.dissolved /\ Consistent(u)
  BY <1>1 DEF Moved, Consistent
<1> QED
  BY <1>1, <1>2, <1>3 DEF PairBounded

\* The pair has a phase for good.
Dissolve(q, p, phase) == [q EXCEPT !.dissolved[p] = phase]

\* A phase changes nothing else.
LEMMA DissolveFields ==
  ASSUME NEW q, IsQuery(q), NEW p, NEW phase
  PROVE  LET u == Dissolve(q, p, phase) IN
         /\ IsQuery(u)
         /\ u.rows = q.rows /\ u.lower = q.lower /\ u.upper = q.upper
         /\ u.dissolved = [q.dissolved EXCEPT ![p] = phase] /\ u.consistent = q.consistent
         /\ u.assignment = q.assignment
<1> DEFINE a == [q.dissolved EXCEPT ![p] = phase]
<1>1. Dissolve(q, p, phase) = [q EXCEPT !.dissolved = a]
  BY DEF Dissolve
<1> HIDE DEF a
<1>2. LET u == [q EXCEPT !.dissolved = a] IN
      /\ IsQuery(u)
      /\ u.rows = q.rows /\ u.lower = q.lower /\ u.upper = q.upper
      /\ u.dissolved = a /\ u.consistent = q.consistent
      /\ u.assignment = q.assignment
  BY DEF IsQuery
<1> QED
  BY <1>1, <1>2 DEF a

\* A split pair keeps the form of a query.
LEMMA SplitForm ==
  ASSUME NEW n, NEW qu, NEW q, QueryForm(n, qu, q), NEW p \in Pairs, q.dissolved[p] = "no"
  PROVE  QueryForm(n, qu, Dissolve(q, p, "split"))
<1> DEFINE u == Dissolve(q, p, "split")
<1>1. /\ IsQuery(u)
      /\ u.rows = q.rows /\ u.lower = q.lower /\ u.upper = q.upper
      /\ u.dissolved = [q.dissolved EXCEPT ![p] = "split"] /\ u.consistent = q.consistent
      /\ u.assignment = q.assignment
  BY DissolveFields DEF QueryForm
<1> HIDE DEF u
<1>2. \A i, j : Merged(u, i, j) = Merged(q, i, j)
  <2> TAKE i, j
  <2>1. CASE i \in Hidden /\ <<B(i, j), F(i, j)>> = p
    BY <2>1, <1>1 DEF Merged, QueryForm
  <2>2. CASE i \in Hidden /\ <<B(i, j), F(i, j)>> # p
    <3>1. u.dissolved[<<B(i, j), F(i, j)>>] = q.dissolved[<<B(i, j), F(i, j)>>]
      BY <2>2, <1>1
    <3> QED
      BY <3>1 DEF Merged
  <2>3. CASE i \notin Hidden
    BY <2>3 DEF Merged
  <2> QED
    BY <2>1, <2>2, <2>3
<1>3. RowsForm(n, qu, u) /\ Equations(qu, u)
  BY <1>1, <1>2 DEF QueryForm, RowsForm, Own, Equations
<1>4. DOMAIN u.dissolved = Pairs
  BY <1>1 DEF QueryForm
<1> QED
  BY <1>1, <1>3, <1>4 DEF QueryForm, u

\* The first bounds of a hidden node's b, from its row.
Unvisited(q, i, j) ==
  /\ q.dissolved[<<B(i, j), F(i, j)>>] = "no"
  /\ B(i, j) \notin DOMAIN q.lower /\ B(i, j) \notin DOMAIN q.upper
  /\ F(i, j) \in DOMAIN q.lower /\ q.lower[F(i, j)] = 0
  /\ F(i, j) \notin DOMAIN q.upper

\* A positive first upper bound of b becomes that of f.
LEMMA HiddenUpperActive ==
  ASSUME NEW n, IsNetwork(n), NEW qu, IsQuestion(qu), NEW q, QueryForm(n, qu, q),
         Consistent(q), NonBasicsIn(qu, q, {}),
         NEW i \in Hidden, NEW j \in Node(i), Unvisited(q, i, j), NEW c \in Int, c > 0
  PROVE  LET u == UpdateUpperBound(q, B(i, j), c) IN
         /\ PairBounded(n, qu, q, u, q.lower, BoundSet(q.upper, {B(i, j), F(i, j)}, c),
                        q.dissolved)
         /\ u.rows = q.rows
<1> DEFINE b == B(i, j)
           f == F(i, j)
           set == SetUpper(q, {b, f}, c)
           w == MoveTo(MoveTo(set, b, c), f, c)
<1>1. /\ b \in Var(qu) \ Basics(qu) /\ f \in Var(qu) \ Basics(qu) /\ b # f
  BY PairVariables
<1>2. Active(q, b) /\ PairOf(b) = <<b, f>>
  BY ActivePair DEF Unvisited
<1>3. UpdateUpperBound(q, b, c) = Checked(set, {b, f}, w)
  BY <1>2 DEF UpdateUpperBound
<1> HIDE DEF set, w
<1>4. /\ set.rows = q.rows /\ set.lower = q.lower /\ set.upper = BoundSet(q.upper, {b, f}, c)
      /\ set.dissolved = q.dissolved /\ Consistent(set)
      /\ set.assignment = q.assignment
  BY SetUpperFields DEF QueryForm, set, Consistent
<1>5. QueryForm(n, qu, set)
  <2>1. {b, f} \subseteq Var(qu)
    BY <1>1
  <2> QED
    BY <2>1, SetUpperForm DEF set
<1>6. /\ DOMAIN set.upper = {b, f} \cup DOMAIN q.upper /\ set.upper[b] = c /\ set.upper[f] = c
      /\ \A x \in DOMAIN q.upper : x # b /\ x # f => set.upper[x] = q.upper[x]
  BY <1>4 DEF BoundSet
<1>7. b \notin DOMAIN set.lower /\ f \in DOMAIN set.lower /\ set.lower[f] = 0
  BY <1>4 DEF Unvisited
<1>8. Allows(set, b, c) /\ Allows(set, f, c)
  BY <1>6, <1>7 DEF Allows
<1>9. BoundInvariantHolds(set, b) /\ BoundInvariantHolds(set, f)
  BY <1>6, <1>7 DEF BoundInvariantHolds, Finite
<1>10. OthersStay(qu, q, set, b, f)
  BY <1>4, <1>6 DEF OthersStay, OutOfBounds, TooLow, TooHigh
<1>11. UpdateUpperBound(q, b, c) = w
  BY <1>3, <1>9 DEF Checked
<1>12. PairBounded(n, qu, q, w, set.lower, set.upper, set.dissolved) /\ w.rows = set.rows
  <2> HIDE DEF b, f
  <2>1. NonBasicsIn(qu, q, {}) /\ Consistent(set) /\ b # f
    BY <1>1, <1>4
  <2>2. w = MoveTo(MoveTo(set, b, c), f, c)
    BY DEF w
  <2> QED
    BY <2>1, <2>2, <1>1, <1>5, <1>8, <1>10, PairMoved
<1> QED
  BY <1>4, <1>11, <1>12

\* Another first upper bound of b splits the pair, and f is 0.
LEMMA HiddenUpperInactive ==
  ASSUME NEW n, IsNetwork(n), NEW qu, IsQuestion(qu), NEW q, QueryForm(n, qu, q),
         Consistent(q), NonBasicsIn(qu, q, {}),
         NEW i \in Hidden, NEW j \in Node(i), Unvisited(q, i, j), NEW c \in Int, c <= 0
  PROVE  LET u == UpdateUpperBound(q, B(i, j), c) IN
         /\ PairBounded(n, qu, q, u, q.lower,
                        BoundSet(BoundSet(q.upper, {B(i, j)}, c), {F(i, j)}, 0),
                        [q.dissolved EXCEPT ![<<B(i, j), F(i, j)>>] = "split"])
         /\ u.rows = q.rows
<1> DEFINE b == B(i, j)
           f == F(i, j)
           one == SetUpper(q, {b}, c)
           two == SetUpper(one, {f}, 0)
           set == Dissolve(two, <<b, f>>, "split")
           w == MoveTo(MoveTo(set, b, c), f, 0)
<1>1. /\ b \in Var(qu) \ Basics(qu) /\ f \in Var(qu) \ Basics(qu) /\ b # f /\ <<b, f>> \in Pairs
  BY PairVariables
<1>2. Active(q, b) /\ PairOf(b) = <<b, f>>
  BY ActivePair DEF Unvisited
<1>3. UpdateUpperBound(q, b, c) = Checked(set, {b, f}, w)
  BY <1>1, <1>2 DEF UpdateUpperBound, Dissolve
<1> HIDE DEF one, two, set, w
<1>4. /\ one.rows = q.rows /\ one.lower = q.lower /\ one.upper = BoundSet(q.upper, {b}, c)
      /\ one.dissolved = q.dissolved /\ Consistent(one)
      /\ one.assignment = q.assignment /\ QueryForm(n, qu, one)
  <2>1. {b} \subseteq Var(qu)
    BY <1>1
  <2>2. QueryForm(n, qu, one)
    BY <2>1, SetUpperForm DEF one
  <2>3. IsQuery(q)
    BY DEF QueryForm
  <2> QED
    BY <2>2, <2>3, SetUpperFields DEF one, Consistent
<1>5. /\ two.rows = q.rows /\ two.lower = q.lower /\ two.upper = BoundSet(one.upper, {f}, 0)
      /\ two.dissolved = q.dissolved /\ Consistent(two)
      /\ two.assignment = q.assignment /\ QueryForm(n, qu, two)
  <2>1. {f} \subseteq Var(qu) /\ 0 \in Int
    BY <1>1
  <2>2. QueryForm(n, qu, two)
    BY <1>4, <2>1, SetUpperForm DEF two
  <2>3. IsQuery(one)
    BY <1>4 DEF QueryForm
  <2> QED
    BY <1>4, <2>2, <2>3, SetUpperFields DEF two, Consistent
<1>6. /\ set.rows = q.rows /\ set.lower = q.lower
      /\ set.upper = BoundSet(BoundSet(q.upper, {b}, c), {f}, 0)
      /\ set.dissolved = [q.dissolved EXCEPT ![<<b, f>>] = "split"] /\ Consistent(set)
      /\ set.assignment = q.assignment /\ QueryForm(n, qu, set)
  <2>1. QueryForm(n, qu, set)
    <3>1. two.dissolved[<<b, f>>] = "no"
      BY <1>5 DEF Unvisited
    <3> QED
      BY <1>1, <1>5, <3>1, SplitForm DEF set
  <2>2. IsQuery(two)
    BY <1>5 DEF QueryForm
  <2>3. /\ set.rows = two.rows /\ set.lower = two.lower /\ set.upper = two.upper
        /\ set.dissolved = [two.dissolved EXCEPT ![<<b, f>>] = "split"]
        /\ set.consistent = two.consistent /\ set.assignment = two.assignment
    <3> DEFINE p == <<b, f>>
    <3> HIDE DEF p
    <3>1. LET u == Dissolve(two, p, "split") IN
          /\ u.rows = two.rows /\ u.lower = two.lower /\ u.upper = two.upper
          /\ u.dissolved = [two.dissolved EXCEPT ![p] = "split"] /\ u.consistent = two.consistent
          /\ u.assignment = two.assignment
      BY <2>2, DissolveFields
    <3> QED
      BY <3>1 DEF set, p
  <2> QED
    BY <1>4, <1>5, <2>1, <2>3 DEF Consistent
<1>7. /\ DOMAIN set.upper = {b, f} \cup DOMAIN q.upper /\ set.upper[b] = c /\ set.upper[f] = 0
      /\ \A x \in DOMAIN q.upper : x # b /\ x # f => set.upper[x] = q.upper[x]
  BY <1>1, <1>6 DEF BoundSet
<1>8. b \notin DOMAIN set.lower /\ f \in DOMAIN set.lower /\ set.lower[f] = 0
  BY <1>6 DEF Unvisited
<1>9. Allows(set, b, c) /\ Allows(set, f, 0)
  BY <1>7, <1>8 DEF Allows
<1>10. BoundInvariantHolds(set, b) /\ BoundInvariantHolds(set, f)
  BY <1>7, <1>8 DEF BoundInvariantHolds, Finite
<1>11. OthersStay(qu, q, set, b, f)
  BY <1>6, <1>7 DEF OthersStay, OutOfBounds, TooLow, TooHigh
<1>12. UpdateUpperBound(q, b, c) = w
  BY <1>3, <1>10 DEF Checked
<1>13. PairBounded(n, qu, q, w, set.lower, set.upper, set.dissolved) /\ w.rows = set.rows
  <2>1. 0 \in Int
    OBVIOUS
  <2> HIDE DEF b, f
  <2>2. NonBasicsIn(qu, q, {}) /\ Consistent(set) /\ b # f /\ QueryForm(n, qu, set)
    BY <1>1, <1>6
  <2>3. w = MoveTo(MoveTo(set, b, c), f, 0)
    BY DEF w
  <2> QED
    BY <2>1, <2>2, <2>3, <1>1, <1>9, <1>11, PairMoved
<1> QED
  BY <1>6, <1>12, <1>13

-----------------------------------------------------------------------------
(***************************************************************************)
(* Merging a pair.                                                         *)
(***************************************************************************)
\* A row without the column of b stays.
LEMMA OtherNodeRows ==
  ASSUME NEW qu, IsQuestion(qu), NEW i \in Hidden, NEW j \in Node(i), NEW n,
         NEW k \in 1 .. LastLayer, NEW l \in Node(k), k # i \/ l # j,
         NEW own, IsOwn(k, l, own), NEW r, IsNodeRow(r, n, qu, k, l, own)
  PROVE  B(i, j) \notin DOMAIN r
<1>1. i \in 1 .. LastLayer
  BY LayerIndices
<1>2. B(i, j) # Aux(k, l) /\ B(i, j) # B(k, l) /\ B(i, j) # Constant(qu)
  BY <1>1, Numbering, NodeVariables
<1>3. k \in Hidden => B(i, j) # F(k, l)
  BY <1>1, NodeVariables
<1>4. B(i, j) \notin Sources(k)
  <2> SUFFICES ASSUME NEW s \in Node(k - 1) PROVE F(k - 1, s) # B(i, j)
    BY DEF Sources
  <2> QED
    BY <1>1, Numbering
<1> QED
  BY <1>2, <1>3, <1>4 DEF IsNodeRow, IsOwn

\* Nor does the row of a slack variable have it.
LEMMA OtherSlackRows ==
  ASSUME NEW qu, IsQuestion(qu), NEW i \in Hidden, NEW j \in Node(i),
         NEW o \in qu.others, NEW r, IsSlackRow(r, qu, o)
  PROVE  B(i, j) \notin DOMAIN r
<1>1. i \in 1 .. LastLayer /\ i # LastLayer /\ LastLayer \in 1 .. LastLayer
  BY LayerIndices
<1>2. qu.target \in Node(LastLayer) /\ o \in Node(LastLayer)
  BY DEF IsQuestion, Outputs
<1>3. B(i, j) # B(LastLayer, qu.target) /\ B(i, j) # B(LastLayer, o)
  BY <1>1, <1>2, Numbering
<1>4. B(i, j) # Slack(qu, o)
  BY <1>1, NodeVariables
<1> QED
  BY <1>3, <1>4 DEF IsSlackRow

\* The row of the pair has f in the place of b.
LEMMA OwnRowMerged ==
  ASSUME NEW qu, IsQuestion(qu), NEW i \in Hidden, NEW j \in Node(i), NEW n,
         NEW r, IsNodeRow(r, n, qu, i, j, B(i, j))
  PROVE  IsNodeRow(ColumnAdded(r, B(i, j), F(i, j)), n, qu, i, j, F(i, j))
<1> DEFINE b == B(i, j)
           f == F(i, j)
           y == Aux(i, j)
           c == Constant(qu)
           w == ColumnAdded(r, b, f)
<1>1. i \in 1 .. LastLayer
  BY LayerIndices
<1>2. IsOwn(i, j, b) /\ IsOwn(i, j, f)
  BY DEF IsOwn
<1>3. /\ b # y /\ b # c /\ y # c /\ f # y /\ f # c /\ b # f
      /\ \A s \in Node(i - 1) : F(i - 1, s) # b /\ F(i - 1, s) # f
  BY <1>1, <1>2, RowVariables, PairVariables
<1>4. /\ DOMAIN r = {y, b, c} \cup Sources(i)
      /\ r[y] = -1 /\ r[b] = -1 /\ r[c] = n.bias[i][j]
      /\ \A s \in Node(i - 1) : r[F(i - 1, s)] = n.weight[i][s][j]
  BY DEF IsNodeRow
<1>5. b \in DOMAIN r /\ f \notin DOMAIN r
  BY <1>3, <1>4 DEF Sources
<1>6. w = [x \in (DOMAIN r \ {b}) \union {f} |-> IF x # f THEN r[x] ELSE r[b] + 0]
  BY <1>5 DEF ColumnAdded
<1>7. (DOMAIN r \ {b}) \union {f} = {y, f, c} \cup Sources(i)
  BY <1>3, <1>4 DEF Sources
<1>8. \A s \in Node(i - 1) : F(i - 1, s) \in Sources(i)
  BY DEF Sources
<1> HIDE DEF b, f, y, c, w
<1>9. DOMAIN w = {y, f, c} \cup Sources(i)
  BY <1>6, <1>7
<1>10. \A x \in {y, f, c} \cup Sources(i) : w[x] = IF x # f THEN r[x] ELSE r[b] + 0
  BY <1>6, <1>7
<1>11. w[y] = -1 /\ w[f] = -1 /\ w[c] = n.bias[i][j]
  BY <1>3, <1>4, <1>10
<1>12. \A s \in Node(i - 1) : w[F(i - 1, s)] = n.weight[i][s][j]
  BY <1>3, <1>4, <1>8, <1>10
<1> QED
  BY <1>9, <1>11, <1>12 DEF IsNodeRow, b, f, y, c, w

\* unifyReluPair adds the column of b to that of f, in every row.
RowsMerged(q, b, f) == [y \in DOMAIN q.rows |-> ColumnAdded(q.rows[y], b, f)]

\* The row of the pair keeps its value, if b and f have the same one.
LEMMA OwnRowValue ==
  ASSUME NEW n, IsNetwork(n), NEW qu, IsQuestion(qu), NEW i \in Hidden, NEW j \in Node(i),
         NEW r, IsNodeRow(r, n, qu, i, j, B(i, j)), NEW a, IntOn(a, Var(qu)),
         a[B(i, j)] = a[F(i, j)], NEW w, IsNodeRow(w, n, qu, i, j, F(i, j))
  PROVE  Dot(w, a, DOMAIN w) = Dot(r, a, DOMAIN r)
<1>1. i \in 1 .. LastLayer
  BY LayerIndices
<1>2. IsOwn(i, j, B(i, j)) /\ IsOwn(i, j, F(i, j))
  BY DEF IsOwn
<1>3. DOMAIN r \subseteq Var(qu) /\ DOMAIN w \subseteq Var(qu)
  BY <1>1, <1>2, NodeRowSum
<1>4. IntOn(a, DOMAIN r) /\ IntOn(a, DOMAIN w)
  BY <1>3 DEF IntOn
<1> DEFINE s0 == Dot([s \in Node(i - 1) |-> n.weight[i][s][j]],
                     [s \in Node(i - 1) |-> a[F(i - 1, s)]], Node(i - 1))
<1>5. Dot(r, a, DOMAIN r) = n.bias[i][j] * a[Constant(qu)] + s0 - a[B(i, j)] - a[Aux(i, j)]
  BY <1>1, <1>2, <1>4, NodeRowSum
<1>6. Dot(w, a, DOMAIN w) = n.bias[i][j] * a[Constant(qu)] + s0 - a[F(i, j)] - a[Aux(i, j)]
  BY <1>1, <1>2, <1>4, NodeRowSum
<1> QED
  BY <1>5, <1>6

\* The rows of a query after a merge.
LEMMA MergedRows ==
  ASSUME NEW n, IsNetwork(n), NEW qu, IsQuestion(qu), NEW q, RowsForm(n, qu, q),
         DOMAIN q.dissolved = Pairs, NEW i \in Hidden, NEW j \in Node(i), ~Merged(q, i, j),
         NEW u, u.rows = RowsMerged(q, B(i, j), F(i, j)),
         u.dissolved = [q.dissolved EXCEPT ![<<B(i, j), F(i, j)>>] = "merge"]
  PROVE  /\ RowsForm(n, qu, u)
         /\ \A y \in Basics(qu) : y # Aux(i, j) => u.rows[y] = q.rows[y]
<1> DEFINE b == B(i, j)
           f == F(i, j)
<1>0. i \in 1 .. LastLayer
  BY LayerIndices
<1>1. DOMAIN u.rows = Basics(qu) /\ \A y \in Basics(qu) : u.rows[y] = ColumnAdded(q.rows[y], b, f)
  BY DEF RowsForm, RowsMerged
<1>2. Merged(u, i, j)
  BY PairVariables DEF Merged
<1>3. ASSUME NEW k \in 1 .. LastLayer, NEW l \in Node(k), k # i \/ l # j
      PROVE  Merged(u, k, l) = Merged(q, k, l)
  <2>1. CASE k \in Hidden
    <3>1. <<B(k, l), F(k, l)>> # <<b, f>>
      BY <1>0, <1>3, Numbering
    <3>2. u.dissolved[<<B(k, l), F(k, l)>>] = q.dissolved[<<B(k, l), F(k, l)>>]
      BY <3>1
    <3> QED
      BY <3>2 DEF Merged
  <2>2. CASE k \notin Hidden
    BY <2>2 DEF Merged
  <2> QED
    BY <2>1, <2>2
<1>4. ASSUME NEW k \in 1 .. LastLayer, NEW l \in Node(k), k # i \/ l # j
      PROVE  /\ u.rows[Aux(k, l)] = q.rows[Aux(k, l)]
             /\ IsNodeRow(u.rows[Aux(k, l)], n, qu, k, l, Own(u, k, l))
  <2>1. Aux(k, l) \in Basics(qu)
    BY NodeVariables
  <2>2. Own(u, k, l) = Own(q, k, l) /\ IsOwn(k, l, Own(q, k, l))
    BY <1>3, <1>4, OwnIsOwn DEF Own
  <2>3. IsNodeRow(q.rows[Aux(k, l)], n, qu, k, l, Own(q, k, l))
    BY DEF RowsForm
  <2>4. b \notin DOMAIN q.rows[Aux(k, l)]
    BY <1>4, <2>2, <2>3, OtherNodeRows
  <2>5. u.rows[Aux(k, l)] = q.rows[Aux(k, l)]
    BY <1>1, <2>1, <2>4 DEF ColumnAdded
  <2> QED
    BY <2>2, <2>3, <2>5
<1>5. IsNodeRow(u.rows[Aux(i, j)], n, qu, i, j, Own(u, i, j))
  <2>1. Aux(i, j) \in Basics(qu)
    BY <1>0, NodeVariables
  <2>2. Own(q, i, j) = b /\ Own(u, i, j) = f
    BY <1>2 DEF Own
  <2>3. IsNodeRow(q.rows[Aux(i, j)], n, qu, i, j, b)
    BY <1>0, <2>2 DEF RowsForm
  <2>4. IsNodeRow(ColumnAdded(q.rows[Aux(i, j)], b, f), n, qu, i, j, f)
    BY <2>3, OwnRowMerged
  <2> QED
    BY <1>1, <2>1, <2>2, <2>4
<1>6. ASSUME NEW o \in qu.others
      PROVE  u.rows[Slack(qu, o)] = q.rows[Slack(qu, o)] /\ IsSlackRow(u.rows[Slack(qu, o)], qu, o)
  <2>1. Slack(qu, o) \in Basics(qu)
    BY NodeVariables
  <2>2. IsSlackRow(q.rows[Slack(qu, o)], qu, o)
    BY DEF RowsForm
  <2>3. b \notin DOMAIN q.rows[Slack(qu, o)]
    BY <2>2, OtherSlackRows
  <2>4. u.rows[Slack(qu, o)] = q.rows[Slack(qu, o)]
    BY <1>1, <2>1, <2>3 DEF ColumnAdded
  <2> QED
    BY <2>2, <2>4
<1>7. RowsForm(n, qu, u)
  <2> SUFFICES ASSUME NEW k \in 1 .. LastLayer, NEW l \in Node(k)
               PROVE  IsNodeRow(u.rows[Aux(k, l)], n, qu, k, l, Own(u, k, l))
    BY <1>1, <1>6 DEF RowsForm
  <2> QED
    BY <1>4, <1>5
<1>8. ASSUME NEW y \in Basics(qu), y # Aux(i, j)
      PROVE  u.rows[y] = q.rows[y]
  <2>1. ASSUME NEW k \in 1 .. LastLayer, NEW l \in Node(k), y = Aux(k, l)
        PROVE  u.rows[y] = q.rows[y]
    BY <1>4, <1>8, <2>1
  <2>2. ASSUME NEW o \in qu.others, y = Slack(qu, o)
        PROVE  u.rows[y] = q.rows[y]
    BY <1>6, <2>2
  <2> QED
    BY <2>1, <2>2, BasicCases
<1> QED
  BY <1>7, <1>8

\* b and f have the same finite bounds.
SameBounds(q, b, f) ==
  /\ b \in DOMAIN q.lower /\ f \in DOMAIN q.lower /\ q.lower[b] = q.lower[f]
  /\ b \in DOMAIN q.upper /\ f \in DOMAIN q.upper /\ q.upper[b] = q.upper[f]

\* unifyReluPair keeps all equations, and the bounds of the non-basic variables.
LEMMA MergePair ==
  ASSUME NEW n, IsNetwork(n), NEW qu, IsQuestion(qu), NEW q, QueryForm(n, qu, q),
         Consistent(q), NonBasicsIn(qu, q, {}),
         NEW i \in Hidden, NEW j \in Node(i), ~Merged(q, i, j), SameBounds(q, B(i, j), F(i, j))
  PROVE  PairBounded(n, qu, q, UnifyReluPair(q, <<B(i, j), F(i, j)>>), q.lower, q.upper,
                     [q.dissolved EXCEPT ![<<B(i, j), F(i, j)>>] = "merge"])
<1> DEFINE b == B(i, j)
           f == F(i, j)
           p == <<b, f>>
           equal == Update(q, b, q.assignment[f])
           rows == RowsMerged(q, b, f)
           u == UnifyReluPair(q, p)
<1>1. /\ b \in Var(qu) \ Basics(qu) /\ f \in Var(qu) \ Basics(qu) /\ b # f /\ p \in Pairs
      /\ i \in 1 .. LastLayer
  BY PairVariables, LayerIndices
<1>2. ~TooLow(q, f) /\ ~TooHigh(q, f)
  BY <1>1 DEF NonBasicsIn, OutOfBounds
<1>3. Aux(i, j) \in DOMAIN q.rows /\ b \in DOMAIN q.rows[Aux(i, j)]
  <2>1. IsNodeRow(q.rows[Aux(i, j)], n, qu, i, j, b)
    BY <1>1 DEF QueryForm, RowsForm, Own
  <2> QED
    BY <2>1, <1>1, NodeVariables DEF QueryForm, RowsForm, IsNodeRow
<1>4. u = [equal EXCEPT !.rows = rows, !.dissolved[p] = "merge"]
  BY <1>2, <1>3 DEF UnifyReluPair, RowsMerged
<1>5. Moved(qu, q, equal, {b}) /\ equal.assignment[b] = q.assignment[f]
  <2>1. q.assignment[f] \in Int
    BY <1>1 DEF QueryForm
  <2> QED
    BY <1>1, <2>1, UpdateMoves
<1> DEFINE a == equal.assignment
           dissolved == [q.dissolved EXCEPT ![p] = "merge"]
<1>6. a[f] = q.assignment[f] /\ a[b] = a[f] /\ a \in [Var(qu) -> Int]
  BY <1>1, <1>5 DEF Moved
<1>7. IsQuery(equal) /\ equal.rows = q.rows /\ equal.lower = q.lower /\ equal.upper = q.upper
      /\ equal.dissolved = q.dissolved /\ equal.consistent = q.consistent /\ Equations(qu, equal)
  BY <1>5 DEF Moved
<1>8. /\ IsQuery(u)
      /\ u.rows = rows /\ u.lower = q.lower /\ u.upper = q.upper
      /\ u.dissolved = dissolved /\ u.consistent = q.consistent /\ u.assignment = a
  <2> HIDE DEF equal, rows, p
  <2>1. equal = [rows |-> q.rows, lower |-> q.lower, upper |-> q.upper,
                 assignment |-> a, dissolved |-> q.dissolved,
                 consistent |-> q.consistent]
    BY <1>7 DEF IsQuery
  <2>2. u = [rows |-> rows, lower |-> q.lower, upper |-> q.upper,
             assignment |-> a, dissolved |-> dissolved,
             consistent |-> q.consistent]
    <3> HIDE DEF a, u
    <3> QED
      BY <1>4, <2>1
  <2> HIDE DEF u, a, dissolved
  <2> QED
    BY <2>2 DEF IsQuery
<1> HIDE DEF equal, u
<1>9. RowsForm(n, qu, u) /\ \A y \in Basics(qu) : y # Aux(i, j) => u.rows[y] = q.rows[y]
  <2>1. RowsForm(n, qu, q) /\ DOMAIN q.dissolved = Pairs
    BY DEF QueryForm
  <2>2. u.rows = RowsMerged(q, B(i, j), F(i, j))
        /\ u.dissolved = [q.dissolved EXCEPT ![<<B(i, j), F(i, j)>>] = "merge"]
    BY <1>8
  <2> QED
    BY <2>1, <2>2, MergedRows
<1>10. Equations(qu, u)
  <2> SUFFICES ASSUME NEW y \in Basics(qu)
               PROVE  Dot(u.rows[y], a, DOMAIN u.rows[y]) = 0
    BY <1>8 DEF Equations
  <2>1. Dot(q.rows[y], a, DOMAIN q.rows[y]) = 0
    BY <1>7 DEF Equations
  <2>2. CASE y # Aux(i, j)
    BY <2>1, <2>2, <1>9
  <2>3. CASE y = Aux(i, j)
    <3>1. Own(q, i, j) = b /\ Own(u, i, j) = f
      BY <1>1, <1>8 DEF Own, Merged, QueryForm
    <3>2. IsNodeRow(q.rows[y], n, qu, i, j, b) /\ IsNodeRow(u.rows[y], n, qu, i, j, f)
      BY <2>3, <3>1, <1>1, <1>9 DEF QueryForm, RowsForm
    <3>3. IntOn(a, Var(qu)) /\ a[B(i, j)] = a[F(i, j)]
      BY <1>6 DEF IntOn
    <3>4. Dot(u.rows[y], a, DOMAIN u.rows[y]) = Dot(q.rows[y], a, DOMAIN q.rows[y])
      <4> HIDE DEF a
      <4> QED
        BY <3>2, <3>3, OwnRowValue
    <3> QED
      BY <2>1, <3>4
  <2> QED
    BY <2>2, <2>3
<1>11. NonBasicsIn(qu, u, {})
  <2> SUFFICES ASSUME NEW x \in Var(qu) \ Basics(qu) PROVE ~OutOfBounds(u, x)
    BY DEF NonBasicsIn
  <2>1. ~OutOfBounds(q, x) /\ ~OutOfBounds(q, f)
    BY <1>1 DEF NonBasicsIn
  <2>2. CASE x = b
    BY <2>1, <2>2, <1>6, <1>8 DEF SameBounds, OutOfBounds, TooLow, TooHigh
  <2>3. CASE x # b
    <3>1. a[x] = q.assignment[x]
      BY <2>3, <1>5 DEF Moved
    <3> QED
      BY <3>1, <2>1, <1>8 DEF OutOfBounds, TooLow, TooHigh
  <2> QED
    BY <2>2, <2>3
<1>12. DOMAIN u.dissolved = Pairs
  BY <1>8 DEF QueryForm
<1>13. QueryForm(n, qu, u)
  BY <1>6, <1>8, <1>9, <1>10, <1>12 DEF QueryForm
<1> QED
  BY <1>8, <1>11, <1>13 DEF PairBounded, Consistent, u

\* The lower bound of a b whose pair stays active.
LEMMA HiddenLowerActive ==
  ASSUME NEW n, IsNetwork(n), NEW qu, IsQuestion(qu), NEW q, QueryForm(n, qu, q),
         Consistent(q), NonBasicsIn(qu, q, {}),
         NEW i \in Hidden, NEW j \in Node(i), q.dissolved[<<B(i, j), F(i, j)>>] = "no",
         NEW c \in Int, c < 0, B(i, j) \in DOMAIN q.upper, c <= q.upper[B(i, j)]
  PROVE  PairBounded(n, qu, q, UpdateLowerBound(q, B(i, j), c),
                     BoundSet(q.lower, {B(i, j)}, c), q.upper, q.dissolved)
<1> DEFINE b == B(i, j)
           set == SetLower(q, {b}, c)
           u == MoveTo(set, b, c)
<1>1. b \in Var(qu) \ Basics(qu)
  BY PairVariables
<1>2. Active(q, b)
  BY ActivePair
<1>3. UpdateLowerBound(q, b, c) = Checked(set, {b}, u)
  BY <1>2 DEF UpdateLowerBound
<1> HIDE DEF set, u
<1>4. /\ set.rows = q.rows /\ set.upper = q.upper /\ set.lower = BoundSet(q.lower, {b}, c)
      /\ set.dissolved = q.dissolved /\ Consistent(set)
      /\ set.assignment = q.assignment
  BY SetLowerFields DEF QueryForm, set, Consistent
<1>5. QueryForm(n, qu, set)
  <2>1. {b} \subseteq Var(qu)
    BY <1>1
  <2> QED
    BY <2>1, SetLowerForm DEF set
<1>6. /\ DOMAIN set.lower = {b} \cup DOMAIN q.lower /\ set.lower[b] = c
      /\ \A x \in DOMAIN q.lower : x # b => set.lower[x] = q.lower[x]
  BY <1>4 DEF BoundSet
<1>7. Allows(set, b, c) /\ BoundInvariantHolds(set, b)
  BY <1>4, <1>6 DEF Allows, BoundInvariantHolds, Finite
<1>8. UpdateLowerBound(q, b, c) = u
  BY <1>3, <1>7 DEF Checked
<1>9. Moved(qu, set, u, {b}) /\ ~OutOfBounds(u, b)
  BY <1>1, <1>5, <1>7, MoveToIn DEF u
<1>10. QueryForm(n, qu, u)
  BY <1>5, <1>9, MovedForm
<1>11. NonBasicsIn(qu, u, {})
  <2> SUFFICES ASSUME NEW x \in Var(qu) \ Basics(qu) PROVE ~OutOfBounds(u, x)
    BY DEF NonBasicsIn
  <2>1. CASE x = b
    BY <2>1, <1>9
  <2>2. CASE x # b
    <3>1. x \notin {b}
      BY <2>2
    <3>2. OutOfBounds(u, x) = OutOfBounds(set, x)
      BY <1>9, <3>1, MovedStaysIn
    <3>3. OutOfBounds(set, x) = OutOfBounds(q, x)
      BY <2>2, <1>4, <1>6 DEF OutOfBounds, TooLow, TooHigh
    <3>4. ~OutOfBounds(q, x)
      BY DEF NonBasicsIn
    <3> QED
      BY <3>2, <3>3, <3>4
  <2> QED
    BY <2>1, <2>2
<1>12. /\ u.lower = set.lower /\ u.upper = set.upper /\ u.dissolved = set.dissolved
       /\ Consistent(u)
  BY <1>4, <1>9 DEF Moved, Consistent
<1> QED
  BY <1>4, <1>8, <1>10, <1>11, <1>12 DEF PairBounded

\* The lower bound that makes a pair active for good.
LEMMA HiddenLowerMerges ==
  ASSUME NEW n, IsNetwork(n), NEW qu, IsQuestion(qu), NEW q, QueryForm(n, qu, q),
         Consistent(q), NonBasicsIn(qu, q, {}),
         NEW i \in Hidden, NEW j \in Node(i), q.dissolved[<<B(i, j), F(i, j)>>] = "no",
         NEW c \in Int, c >= 0,
         B(i, j) \in DOMAIN q.upper, c <= q.upper[B(i, j)],
         F(i, j) \in DOMAIN q.upper, q.upper[F(i, j)] = q.upper[B(i, j)]
  PROVE  PairBounded(n, qu, q, UpdateLowerBound(q, B(i, j), c),
                     BoundSet(q.lower, {B(i, j), F(i, j)}, c), q.upper,
                     [q.dissolved EXCEPT ![<<B(i, j), F(i, j)>>] = "merge"])
<1> DEFINE b == B(i, j)
           f == F(i, j)
           set == SetLower(q, {b, f}, c)
           w == MoveTo(MoveTo(set, b, c), f, c)
           u == UnifyReluPair(w, <<b, f>>)
<1>1. b \in Var(qu) \ Basics(qu) /\ f \in Var(qu) \ Basics(qu) /\ b # f
  BY PairVariables
<1>2. Active(q, b) /\ PairOf(b) = <<b, f>>
  BY ActivePair
<1>3. UpdateLowerBound(q, b, c) = Checked(set, {b, f}, u)
  BY <1>2 DEF UpdateLowerBound
<1> HIDE DEF set, w, u
<1>4. /\ set.rows = q.rows /\ set.upper = q.upper /\ set.lower = BoundSet(q.lower, {b, f}, c)
      /\ set.dissolved = q.dissolved /\ Consistent(set)
      /\ set.assignment = q.assignment
  BY SetLowerFields DEF QueryForm, set, Consistent
<1>5. QueryForm(n, qu, set)
  <2>1. {b, f} \subseteq Var(qu)
    BY <1>1
  <2> QED
    BY <2>1, SetLowerForm DEF set
<1>6. /\ DOMAIN set.lower = {b, f} \cup DOMAIN q.lower /\ set.lower[b] = c /\ set.lower[f] = c
      /\ \A x \in DOMAIN q.lower : x # b /\ x # f => set.lower[x] = q.lower[x]
  BY <1>4 DEF BoundSet
<1>7. /\ Allows(set, b, c) /\ Allows(set, f, c)
      /\ BoundInvariantHolds(set, b) /\ BoundInvariantHolds(set, f)
  BY <1>4, <1>6 DEF Allows, BoundInvariantHolds, Finite
<1>8. UpdateLowerBound(q, b, c) = u
  BY <1>3, <1>7 DEF Checked
<1>9. OthersStay(qu, q, set, b, f)
  BY <1>4, <1>6 DEF OthersStay, OutOfBounds, TooLow, TooHigh
<1>10. PairBounded(n, qu, q, w, set.lower, set.upper, set.dissolved) /\ w.rows = set.rows
  <2> HIDE DEF b, f
  <2>1. w = MoveTo(MoveTo(set, b, c), f, c)
    BY DEF w
  <2> QED
    BY <2>1, <1>1, <1>4, <1>5, <1>7, <1>9, PairMoved
<1>11. SameBounds(w, b, f)
  BY <1>4, <1>6, <1>10 DEF SameBounds, PairBounded
<1>12. ~Merged(w, i, j)
  BY <1>4, <1>10 DEF Merged, PairBounded
<1>13. PairBounded(n, qu, w, u, w.lower, w.upper, [w.dissolved EXCEPT ![<<b, f>>] = "merge"])
  BY <1>10, <1>11, <1>12, MergePair DEF PairBounded, u
<1> QED
  BY <1>4, <1>8, <1>10, <1>13 DEF PairBounded

\* The phase that the first bounds of b decide.
Phase(min, max) == IF max <= 0 THEN "split" ELSE IF min >= 0 THEN "merge" ELSE "no"

\* What the row of a hidden node's auxiliary variable brings about.
VisitedPair(q, u, i, j, min, max) ==
  /\ DOMAIN u.lower = {B(i, j)} \cup DOMAIN q.lower
  /\ u.lower[B(i, j)] = min
  /\ u.lower[F(i, j)] = IF Phase(min, max) = "merge" THEN min ELSE 0
  /\ \A x \in DOMAIN q.lower : x # F(i, j) => u.lower[x] = q.lower[x]
  /\ DOMAIN u.upper = {B(i, j), F(i, j)} \cup DOMAIN q.upper
  /\ u.upper[B(i, j)] = max
  /\ u.upper[F(i, j)] = IF max > 0 THEN max ELSE 0
  /\ \A x \in DOMAIN q.upper : u.upper[x] = q.upper[x]
  /\ u.dissolved[<<B(i, j), F(i, j)>>] = Phase(min, max)
  /\ \A p \in Pairs : p # <<B(i, j), F(i, j)>> => u.dissolved[p] = q.dissolved[p]

\* Both bounds of a hidden node's b: updated from above, then from below, they
\* bound the pair, and decide its phase when they can.
LEMMA HiddenNode ==
  ASSUME NEW n, IsNetwork(n), NEW qu, IsQuestion(qu), NEW q, QueryForm(n, qu, q),
         Consistent(q), NonBasicsIn(qu, q, {}),
         NEW i \in Hidden, NEW j \in Node(i), Unvisited(q, i, j),
         NEW min \in Int, NEW max \in Int, min <= max
  PROVE  LET above == UpdateUpperBound(q, B(i, j), max)
             both == UpdateLowerBound(above, B(i, j), min)
         IN /\ Consistent(above) /\ above.lower = q.lower
            /\ QueryForm(n, qu, both) /\ Consistent(both) /\ NonBasicsIn(qu, both, {})
            /\ VisitedPair(q, both, i, j, min, max)
<1> DEFINE b == B(i, j)
           f == F(i, j)
           p == <<b, f>>
           above == UpdateUpperBound(q, b, max)
           both == UpdateLowerBound(above, b, min)
<1>1. b \in Var(qu) \ Basics(qu) /\ f \in Var(qu) \ Basics(qu) /\ b # f /\ p \in Pairs
  BY PairVariables
<1>2. /\ q.dissolved[p] = "no" /\ DOMAIN q.dissolved = Pairs
      /\ b \notin DOMAIN q.lower /\ b \notin DOMAIN q.upper
      /\ f \in DOMAIN q.lower /\ q.lower[f] = 0 /\ f \notin DOMAIN q.upper
  BY DEF Unvisited, QueryForm
<1>3. CASE max > 0
  <2>1. PairBounded(n, qu, q, above, q.lower, BoundSet(q.upper, {b, f}, max), q.dissolved)
    BY <1>3, HiddenUpperActive
  <2> HIDE DEF above, both
  <2>2. /\ QueryForm(n, qu, above) /\ Consistent(above) /\ NonBasicsIn(qu, above, {})
        /\ above.lower = q.lower /\ above.upper = BoundSet(q.upper, {b, f}, max)
        /\ above.dissolved = q.dissolved
    BY <2>1 DEF PairBounded
  <2>3. /\ DOMAIN above.upper = {b, f} \cup DOMAIN q.upper
        /\ above.upper[b] = max /\ above.upper[f] = max
        /\ \A x \in DOMAIN q.upper : above.upper[x] = q.upper[x]
    BY <1>2, <2>2 DEF BoundSet
  <2>4. CASE min < 0
    <3>1. PairBounded(n, qu, above, both, BoundSet(above.lower, {b}, min), above.upper,
                      above.dissolved)
      BY <1>2, <2>2, <2>3, <2>4, HiddenLowerActive DEF both
    <3>2. /\ QueryForm(n, qu, both) /\ Consistent(both) /\ NonBasicsIn(qu, both, {})
          /\ both.lower = BoundSet(q.lower, {b}, min) /\ both.upper = above.upper
          /\ both.dissolved = q.dissolved
      BY <2>2, <3>1 DEF PairBounded
    <3>3. Phase(min, max) = "no"
      BY <1>3, <2>4 DEF Phase
    <3>4. /\ DOMAIN both.lower = {b} \cup DOMAIN q.lower /\ both.lower[b] = min
          /\ both.lower[f] = 0 /\ \A x \in DOMAIN q.lower : both.lower[x] = q.lower[x]
      BY <1>1, <1>2, <3>2 DEF BoundSet
    <3>5. both.dissolved[p] = "no" /\ \A x \in Pairs : x # p => both.dissolved[x] = q.dissolved[x]
      BY <1>2, <3>2
    <3>6. VisitedPair(q, both, i, j, min, max)
      BY <1>3, <2>3, <3>2, <3>3, <3>4, <3>5 DEF VisitedPair
    <3> QED
      BY <2>2, <3>2, <3>6 DEF above, both
  <2>5. CASE min >= 0
    <3>1. PairBounded(n, qu, above, both, BoundSet(above.lower, {b, f}, min), above.upper,
                      [above.dissolved EXCEPT ![p] = "merge"])
      BY <1>2, <2>2, <2>3, <2>5, HiddenLowerMerges DEF both
    <3>2. /\ QueryForm(n, qu, both) /\ Consistent(both) /\ NonBasicsIn(qu, both, {})
          /\ both.lower = BoundSet(q.lower, {b, f}, min) /\ both.upper = above.upper
          /\ both.dissolved = [q.dissolved EXCEPT ![p] = "merge"]
      BY <2>2, <3>1 DEF PairBounded
    <3>3. Phase(min, max) = "merge"
      BY <1>3, <2>5 DEF Phase
    <3>4. /\ DOMAIN both.lower = {b} \cup DOMAIN q.lower /\ both.lower[b] = min
          /\ both.lower[f] = min
          /\ \A x \in DOMAIN q.lower : x # f => both.lower[x] = q.lower[x]
      BY <1>1, <1>2, <3>2 DEF BoundSet
    <3>5. both.dissolved[p] = "merge"
          /\ \A x \in Pairs : x # p => both.dissolved[x] = q.dissolved[x]
      BY <1>1, <1>2, <3>2
    <3>6. VisitedPair(q, both, i, j, min, max)
      BY <1>3, <2>3, <3>2, <3>3, <3>4, <3>5 DEF VisitedPair
    <3> QED
      BY <2>2, <3>2, <3>6 DEF above, both
  <2> QED
    BY <2>4, <2>5 DEF above, both
<1>4. CASE max <= 0
  <2>1. PairBounded(n, qu, q, above, q.lower, BoundSet(BoundSet(q.upper, {b}, max), {f}, 0),
                    [q.dissolved EXCEPT ![p] = "split"])
    BY <1>4, HiddenUpperInactive
  <2> HIDE DEF above, both
  <2>2. /\ QueryForm(n, qu, above) /\ Consistent(above) /\ NonBasicsIn(qu, above, {})
        /\ above.lower = q.lower /\ above.upper = BoundSet(BoundSet(q.upper, {b}, max), {f}, 0)
        /\ above.dissolved = [q.dissolved EXCEPT ![p] = "split"]
    BY <2>1 DEF PairBounded
  <2>3. /\ DOMAIN above.upper = {b, f} \cup DOMAIN q.upper
        /\ above.upper[b] = max /\ above.upper[f] = 0
        /\ \A x \in DOMAIN q.upper : above.upper[x] = q.upper[x]
    BY <1>1, <1>2, <2>2 DEF BoundSet
  <2>4. ~Active(above, b)
    <3>1. above.dissolved[p] = "split"
      BY <1>1, <1>2, <2>2
    <3> QED
      BY <3>1, ActivePair
  <2>5. Bounded(n, qu, above, both, b, BoundSet(above.lower, {b}, min), above.upper)
    <3>1. b \in Var(qu)
      BY <1>1
    <3> QED
      BY <2>2, <2>4, <3>1, PlainLower DEF both
  <2>6. /\ QueryForm(n, qu, both)
        /\ both.lower = BoundSet(q.lower, {b}, min) /\ both.upper = above.upper
        /\ both.dissolved = [q.dissolved EXCEPT ![p] = "split"]
    BY <2>2, <2>5 DEF Bounded
  <2>7. /\ DOMAIN both.lower = {b} \cup DOMAIN q.lower /\ both.lower[b] = min
        /\ both.lower[f] = 0 /\ \A x \in DOMAIN q.lower : both.lower[x] = q.lower[x]
    BY <1>1, <1>2, <2>6 DEF BoundSet
  <2>8. BoundInvariantHolds(both, b)
    BY <2>3, <2>6, <2>7 DEF BoundInvariantHolds
  <2>9. Consistent(both) /\ NonBasicsIn(qu, both, {})
    BY <2>2, <2>5, <2>8 DEF Bounded, Consistent
  <2>10. Phase(min, max) = "split"
    BY <1>4 DEF Phase
  <2>11. both.dissolved[p] = "split"
         /\ \A x \in Pairs : x # p => both.dissolved[x] = q.dissolved[x]
    BY <1>1, <1>2, <2>6
  <2>12. both.upper[f] = IF max > 0 THEN max ELSE 0
    BY <1>4, <2>3, <2>6
  <2>13. VisitedPair(q, both, i, j, min, max)
    <3> HIDE DEF b, f, p
    <3>1. both.lower[f] = IF Phase(min, max) = "merge" THEN min ELSE 0
      BY <2>7, <2>10
    <3> QED
      BY <3>1, <2>3, <2>6, <2>7, <2>10, <2>11, <2>12 DEF VisitedPair, b, f, p
  <2> QED
    BY <2>2, <2>6, <2>9, <2>13 DEF above, both
<1> QED
  BY <1>3, <1>4

-----------------------------------------------------------------------------
(***************************************************************************)
(* The bounds that a row leaves for one of its variables.                  *)
(***************************************************************************)
\* A product grows with its factor, or falls if the other one is negative.
LEMMA ProductMonotone ==
  ASSUME NEW k \in Int, NEW s \in Int, NEW t \in Int, s <= t
  PROVE  (k > 0 => k * s <= k * t) /\ (~(k > 0) => k * t <= k * s)
<1>1. k * (t - s) = k * t - k * s
  OBVIOUS
<1> DEFINE d == t - s
<1>2. d \in Nat
  OBVIOUS
<1> HIDE DEF d
<1>3. k > 0 => k * d >= 0
  BY <1>2
<1>4. ~(k > 0) => k * d <= 0
  BY <1>2
<1>5. k * d \in Int /\ k * t \in Int /\ k * s \in Int
  BY <1>2
<1> QED
  BY <1>1, <1>3, <1>4, <1>5 DEF d

\* The end of a variable's range that a coefficient makes the larger one, or
\* the smaller one.
Extreme(q, r, c, upper) == IF (r[c] > 0) = upper THEN q.upper[c] ELSE q.lower[c]

\* RowBound is the sum of the larger, or smaller, ends.
LEMMA RowBoundIs ==
  ASSUME NEW q, NEW y, NEW v \in DOMAIN q.rows[y], q.rows[y][v] = -1,
         IntOn(q.rows[y], DOMAIN q.rows[y]), IsFiniteSet(DOMAIN q.rows[y]),
         \A c \in DOMAIN q.rows[y] \ {v} : q.lower[c] \in Int /\ q.upper[c] \in Int,
         NEW upper \in BOOLEAN
  PROVE  LET r == q.rows[y]
             others == DOMAIN r \ {v}
             bound == [c \in others |-> Extreme(q, r, c, upper)]
         IN /\ RowBound(q, y, v, upper) = Dot(r, bound, others)
            /\ IntOn(bound, others)
<1> DEFINE r == q.rows[y]
           others == DOMAIN r \ {v}
           bound == [c \in others |-> Extreme(q, r, c, upper)]
           coefficient == [c \in others |-> -(r[c] * r[v])]
           given == [c \in others |-> IF (coefficient[c] > 0) = upper THEN q.upper[c]
                                      ELSE q.lower[c]]
<1>1. RowBound(q, y, v, upper) = Dot(coefficient, given, others)
  BY DEF RowBound
<1>2. \A c \in others : r[c] \in Int /\ coefficient[c] = r[c]
  BY DEF IntOn
<1>3. \A c \in others : given[c] = bound[c] /\ bound[c] \in Int
  BY <1>2 DEF Extreme
<1>4. IsFiniteSet(others)
  BY FS_RemoveElement
<1> HIDE DEF coefficient, given, bound, others
<1>5. /\ IntOn(coefficient, others) /\ IntOn(given, others) /\ IntOn(r, others)
      /\ IntOn(bound, others)
  BY <1>2, <1>3 DEF IntOn
<1>6. \A c \in others : coefficient[c] * given[c] = r[c] * bound[c]
  BY <1>2, <1>3
<1>7. Dot(coefficient, given, others) = Dot(r, bound, others)
  BY <1>4, <1>5, <1>6, DotEqual
<1> QED
  BY <1>1, <1>5, <1>7 DEF bound, others

\* Bounds that a valuation keeps.
Between(q, a, S) ==
  \A c \in S : /\ q.lower[c] \in Int /\ q.upper[c] \in Int
               /\ q.lower[c] <= a[c] /\ a[c] <= q.upper[c]

\* A valuation within the bounds gives sums between the extreme ones.
LEMMA DotExtremes ==
  ASSUME NEW q, NEW S, IsFiniteSet(S), NEW r, IntOn(r, S), NEW a, IntOn(a, S), Between(q, a, S)
  PROVE  /\ Dot(r, a, S) <= Dot(r, [c \in S |-> Extreme(q, r, c, TRUE)], S)
         /\ Dot(r, [c \in S |-> Extreme(q, r, c, FALSE)], S) <= Dot(r, a, S)
<1> DEFINE high == [c \in S |-> Extreme(q, r, c, TRUE)]
           low == [c \in S |-> Extreme(q, r, c, FALSE)]
<1>1. ASSUME NEW c \in S
      PROVE  /\ high[c] \in Int /\ low[c] \in Int
             /\ r[c] * low[c] <= r[c] * a[c] /\ r[c] * a[c] <= r[c] * high[c]
  <2>1. /\ r[c] \in Int /\ a[c] \in Int /\ q.lower[c] \in Int /\ q.upper[c] \in Int
        /\ q.lower[c] <= a[c] /\ a[c] <= q.upper[c]
    BY DEF IntOn, Between
  <2> DEFINE k == r[c]
             s == q.lower[c]
             t == q.upper[c]
             e == a[c]
  <2>2. k \in Int /\ s \in Int /\ t \in Int /\ e \in Int /\ s <= e /\ e <= t
    BY <2>1
  <2>3. /\ high[c] = IF k > 0 THEN t ELSE s
        /\ low[c] = IF k > 0 THEN s ELSE t
    BY <2>2 DEF Extreme
  <2> HIDE DEF k, s, t, e, high, low
  <2>4. /\ k > 0 => k * s <= k * e /\ k * e <= k * t
        /\ ~(k > 0) => k * t <= k * e /\ k * e <= k * s
    BY <2>2, ProductMonotone
  <2>5. high[c] \in Int /\ low[c] \in Int /\ k * low[c] <= k * e /\ k * e <= k * high[c]
    BY <2>2, <2>3, <2>4
  <2> QED
    BY <2>5 DEF k, e
<1> HIDE DEF high, low
<1>2. IntOn(high, S) /\ IntOn(low, S)
  BY <1>1 DEF IntOn
<1>3. Dot(r, a, S) <= Dot(r, high, S)
  BY <1>1, <1>2, DotMonotone
<1>4. Dot(r, low, S) <= Dot(r, a, S)
  BY <1>1, <1>2, DotMonotone
<1> QED
  BY <1>3, <1>4 DEF high, low

\* What a row says of the variable in it that has no bounds yet.
RowSays(r, v, q, a, min, max) ==
  IntOn(a, DOMAIN r) /\ Dot(r, a, DOMAIN r) = 0 /\ Between(q, a, DOMAIN r \ {v})
    => min <= a[v] /\ a[v] <= max

\* The bounds of a row hold in every valuation within the other bounds.
LEMMA RowBounds ==
  ASSUME NEW q, NEW y, NEW v \in DOMAIN q.rows[y], q.rows[y][v] = -1,
         IntOn(q.rows[y], DOMAIN q.rows[y]), IsFiniteSet(DOMAIN q.rows[y]),
         Between(q, q.lower, DOMAIN q.rows[y] \ {v})
  PROVE  LET min == RowBound(q, y, v, FALSE)
             max == RowBound(q, y, v, TRUE)
         IN /\ min \in Int /\ max \in Int /\ min <= max
            /\ \A a : RowSays(q.rows[y], v, q, a, min, max)
<1> DEFINE r == q.rows[y]
           X == DOMAIN r
           S == X \ {v}
           min == RowBound(q, y, v, FALSE)
           max == RowBound(q, y, v, TRUE)
           high == [c \in S |-> Extreme(q, r, c, TRUE)]
           low == [c \in S |-> Extreme(q, r, c, FALSE)]
<1>1. IsFiniteSet(S) /\ IntOn(r, S)
  <2>1. IsFiniteSet(S)
    BY FS_RemoveElement
  <2> QED
    BY <2>1 DEF IntOn
<1>2. \A c \in S : q.lower[c] \in Int /\ q.upper[c] \in Int
  BY DEF Between
<1>3. max = Dot(r, high, S) /\ IntOn(high, S)
  BY <1>2, RowBoundIs
<1>4. min = Dot(r, low, S) /\ IntOn(low, S)
  BY <1>2, RowBoundIs
<1> HIDE DEF min, max
<1>5. min \in Int /\ max \in Int
  <2> HIDE DEF high, low, S, r
  <2> QED
    BY <1>1, <1>3, <1>4, DotInt
<1>6. ASSUME NEW a, IntOn(a, S), Between(q, a, S)
      PROVE  min <= Dot(r, a, S) /\ Dot(r, a, S) <= max
  <2>1. Dot(r, a, S) <= Dot(r, high, S) /\ Dot(r, low, S) <= Dot(r, a, S)
    <3> HIDE DEF S, r
    <3> QED
      BY <1>1, <1>6, DotExtremes
  <2> QED
    BY <2>1, <1>3, <1>4
<1>7. IntOn(q.lower, S)
  BY <1>2 DEF IntOn
<1>8. min <= max
  <2>1. Dot(r, q.lower, S) \in Int
    BY <1>1, <1>7, DotInt
  <2>2. min <= Dot(r, q.lower, S) /\ Dot(r, q.lower, S) <= max
    BY <1>6, <1>7
  <2> QED
    BY <2>1, <2>2, <1>5
<1>9. ASSUME NEW a, IntOn(a, X), Dot(r, a, X) = 0, Between(q, a, S)
      PROVE  min <= a[v] /\ a[v] <= max
  <2>1. Dot(r, a, X) = r[v] * a[v] + Dot(r, a, S) /\ Dot(r, a, S) \in Int
    BY <1>9, DotRemove
  <2>2. a[v] \in Int /\ IntOn(a, S)
    BY <1>9 DEF IntOn
  <2>3. Dot(r, a, S) = a[v]
    <3> DEFINE d == Dot(r, a, S)
    <3>1. d \in Int /\ (-1) * a[v] + d = 0
      BY <1>9, <2>1
    <3> HIDE DEF d
    <3>2. d = a[v]
      BY <3>1, <2>2
    <3> QED
      BY <3>2 DEF d
  <2>4. min <= Dot(r, a, S) /\ Dot(r, a, S) <= max
    BY <1>6, <1>9, <2>2
  <2> QED
    BY <2>3, <2>4
<1> QED
  BY <1>5, <1>8, <1>9 DEF RowSays, min, max

-----------------------------------------------------------------------------
(***************************************************************************)
(* A row's effect on a variable without an active pair.                    *)
(***************************************************************************)
\* The upper bounds if c replaces a looser one, or none.
TightUpper(q, v, c) ==
  IF v \notin DOMAIN q.upper \/ c < q.upper[v] THEN BoundSet(q.upper, {v}, c) ELSE q.upper
\* The lower bounds if c replaces a looser one, or none.
TightLower(q, v, c) ==
  IF v \notin DOMAIN q.lower \/ c > q.lower[v] THEN BoundSet(q.lower, {v}, c) ELSE q.lower

\* The query u after the row of v was visited in q.
PlainVisited(n, qu, q, u, v, min, max) ==
  /\ QueryForm(n, qu, u)
  /\ u.rows = q.rows /\ u.dissolved = q.dissolved
  /\ u.upper = TightUpper(q, v, max)
  /\ u.lower = q.lower \/ u.lower = TightLower(q, v, min)
  /\ \/ u.consistent = FALSE /\ ~BoundInvariantHolds(u, v)
     \/ /\ Consistent(u) /\ BoundInvariantHolds(u, v) /\ NonBasicsIn(qu, u, {})
        /\ u.lower = TightLower(q, v, min)

\* What a bound brings about, in parts.
LEMMA BoundedAs ==
  ASSUME NEW n, NEW qu, NEW q, NEW u, NEW v, NEW lower, NEW upper,
         Bounded(n, qu, q, u, v, lower, upper), NonBasicsIn(qu, q, {})
  PROVE  /\ QueryForm(n, qu, u)
         /\ u.rows = q.rows /\ u.dissolved = q.dissolved
         /\ u.lower = lower /\ u.upper = upper
         /\ u.consistent \in BOOLEAN
         /\ u.consistent = FALSE => ~BoundInvariantHolds(u, v)
         /\ Consistent(u) => BoundInvariantHolds(u, v) /\ NonBasicsIn(qu, u, {})
BY DEF Bounded, Consistent

\* makeAllBoundsFiniteOnRow, for a variable without an active pair.
LEMMA PlainRow ==
  ASSUME NEW n, IsNetwork(n), NEW qu, IsQuestion(qu), NEW q, QueryForm(n, qu, q),
         Consistent(q), NonBasicsIn(qu, q, {}), NEW y, NEW v \in Var(qu),
         InfiniteOnRow(q, y) = {v}, ~Active(q, v),
         NEW min \in Int, NEW max \in Int,
         min = RowBound(q, y, v, FALSE), max = RowBound(q, y, v, TRUE)
  PROVE  PlainVisited(n, qu, q, MakeBoundsFiniteOnRow(q, y), v, min, max)
<1> DEFINE above == IF v \notin DOMAIN q.upper \/ max < q.upper[v]
                    THEN UpdateUpperBound(q, v, max) ELSE q
           both == IF above.consistent /\ (v \notin DOMAIN above.lower \/ min > above.lower[v])
                   THEN UpdateLowerBound(above, v, min) ELSE above
<1>1. MakeBoundsFiniteOnRow(q, y)
        = IF both.consistent /\ NonBasic(both, v) /\ OutOfBounds(both, v)
          THEN UpdateBoth(both, v, both.lower[v]) ELSE both
  <2>1. (CHOOSE c \in InfiniteOnRow(q, y) : TRUE) = v
    OBVIOUS
  <2> QED
    BY <2>1 DEF MakeBoundsFiniteOnRow
<1>2. v \notin DOMAIN q.lower \/ v \notin DOMAIN q.upper
  BY DEF InfiniteOnRow, Finite
<1>3. /\ QueryForm(n, qu, above)
      /\ above.rows = q.rows /\ above.dissolved = q.dissolved
      /\ above.lower = q.lower /\ above.upper = TightUpper(q, v, max)
      /\ above.consistent \in BOOLEAN
      /\ above.consistent = FALSE => ~BoundInvariantHolds(above, v)
      /\ Consistent(above) => NonBasicsIn(qu, above, {})
      /\ Consistent(above) /\ v \in DOMAIN q.lower => BoundInvariantHolds(above, v)
  <2>1. CASE v \notin DOMAIN q.upper \/ max < q.upper[v]
    <3>1. above = UpdateUpperBound(q, v, max)
      BY <2>1
    <3>2. Bounded(n, qu, q, above, v, q.lower, BoundSet(q.upper, {v}, max))
      BY <3>1, PlainUpper
    <3>3. TightUpper(q, v, max) = BoundSet(q.upper, {v}, max)
      BY <2>1 DEF TightUpper
    <3> HIDE DEF above
    <3>4. /\ QueryForm(n, qu, above)
          /\ above.rows = q.rows /\ above.dissolved = q.dissolved
          /\ above.lower = q.lower /\ above.upper = BoundSet(q.upper, {v}, max)
          /\ above.consistent \in BOOLEAN
          /\ above.consistent = FALSE => ~BoundInvariantHolds(above, v)
          /\ Consistent(above) => BoundInvariantHolds(above, v) /\ NonBasicsIn(qu, above, {})
      BY <3>2, BoundedAs
    <3> QED
      BY <3>3, <3>4
  <2>2. CASE ~(v \notin DOMAIN q.upper \/ max < q.upper[v])
    <3>1. above = q /\ TightUpper(q, v, max) = q.upper
      BY <2>2 DEF TightUpper
    <3> HIDE DEF above
    <3> QED
      BY <1>2, <2>2, <3>1 DEF Consistent
  <2> QED
    BY <2>1, <2>2
<1> HIDE DEF above
<1>4. CASE above.consistent = FALSE
  <2>1. both = above
    BY <1>4
  <2>2. MakeBoundsFiniteOnRow(q, y) = above
    BY <1>1, <1>4, <2>1
  <2> QED
    BY <2>2, <1>3, <1>4 DEF PlainVisited
<1>5. CASE Consistent(above)
  <2>1. TightLower(above, v, min) = TightLower(q, v, min)
    BY <1>3 DEF TightLower
  <2>2. /\ QueryForm(n, qu, both)
        /\ both.rows = q.rows /\ both.dissolved = q.dissolved
        /\ both.lower = TightLower(q, v, min) /\ both.upper = TightUpper(q, v, max)
        /\ both.consistent \in BOOLEAN
        /\ both.consistent = FALSE => ~BoundInvariantHolds(both, v)
        /\ Consistent(both) => BoundInvariantHolds(both, v) /\ NonBasicsIn(qu, both, {})
    <3>1. CASE v \notin DOMAIN above.lower \/ min > above.lower[v]
      <4>1. both = UpdateLowerBound(above, v, min)
        BY <1>5, <3>1 DEF Consistent
      <4>2. ~Active(above, v)
        BY <1>3 DEF Active
      <4>3. Bounded(n, qu, above, both, v, BoundSet(above.lower, {v}, min), above.upper)
        BY <1>3, <1>5, <4>1, <4>2, PlainLower
      <4>4. TightLower(above, v, min) = BoundSet(above.lower, {v}, min)
        BY <3>1 DEF TightLower
      <4>5. NonBasicsIn(qu, above, {})
        BY <1>3, <1>5
      <4> HIDE DEF both
      <4>6. /\ QueryForm(n, qu, both)
            /\ both.rows = above.rows /\ both.dissolved = above.dissolved
            /\ both.lower = BoundSet(above.lower, {v}, min) /\ both.upper = above.upper
            /\ both.consistent \in BOOLEAN
            /\ both.consistent = FALSE => ~BoundInvariantHolds(both, v)
            /\ Consistent(both) => BoundInvariantHolds(both, v) /\ NonBasicsIn(qu, both, {})
        BY <4>3, <4>5, BoundedAs
      <4> QED
        BY <1>3, <2>1, <4>4, <4>6
    <3>2. CASE ~(v \notin DOMAIN above.lower \/ min > above.lower[v])
      <4>1. both = above /\ TightLower(above, v, min) = above.lower
        BY <3>2 DEF TightLower
      <4> HIDE DEF both
      <4> QED
        BY <1>3, <1>5, <2>1, <3>2, <4>1 DEF Consistent
    <3> QED
      BY <3>1, <3>2
  <2> HIDE DEF both
  <2>3. CASE both.consistent = FALSE
    <3>1. MakeBoundsFiniteOnRow(q, y) = both
      BY <1>1, <2>3
    <3> QED
      BY <3>1, <2>2, <2>3 DEF PlainVisited
  <2>4. CASE Consistent(both)
    <3>1. ~(NonBasic(both, v) /\ OutOfBounds(both, v))
      BY <2>2, <2>4 DEF NonBasicsIn, NonBasic, QueryForm, RowsForm
    <3>2. MakeBoundsFiniteOnRow(q, y) = both
      BY <1>1, <3>1
    <3> QED
      BY <3>2, <2>2, <2>4 DEF PlainVisited
  <2> QED
    BY <2>2, <2>3, <2>4 DEF Consistent
<1> QED
  BY <1>3, <1>4, <1>5 DEF Consistent

-----------------------------------------------------------------------------
(***************************************************************************)
(* A query while its rows are visited: T holds the basic variables of the  *)
(* rows still to be visited.                                               *)
(***************************************************************************)
\* A pair whose b has been bounded, and its phase decided if it could be.
Visited(q, i, j) ==
  /\ Finite(q, B(i, j)) /\ Finite(q, F(i, j))
  /\ q.dissolved[<<B(i, j), F(i, j)>>] = "no"
       <=> q.lower[B(i, j)] < 0 /\ q.upper[B(i, j)] > 0

\* Rows that were visited bounded their variables; the others are as at first.
Working(n, qu, q, T) ==
  /\ QueryForm(n, qu, q) /\ Consistent(q) /\ NonBasicsIn(qu, q, {})
  /\ \A v \in Var(qu) : BoundInvariantHolds(q, v)
  /\ \A v \in Inputs \cup {Constant(qu)} \cup AuxVars : Finite(q, v)
  /\ \A i \in Hidden : \A j \in Node(i) :
       IF Aux(i, j) \in T THEN Unvisited(q, i, j) ELSE Visited(q, i, j)
  /\ \A j \in Outputs : IF Aux(LastLayer, j) \in T THEN B(LastLayer, j) \notin DOMAIN q.upper
                        ELSE Finite(q, B(LastLayer, j))
  /\ \A o \in qu.others : Slack(qu, o) \in T <=> ~Finite(q, Slack(qu, o))

\* The variables whose bounds state the question.
Asked(qu) == IF qu.side = "output" THEN {B(LastLayer, 0)} ELSE SlackVars(qu)

\* They are no inputs and belong to no pair.
LEMMA AskedVariables ==
  ASSUME NEW qu, IsQuestion(qu), NEW v \in Asked(qu)
  PROVE  /\ v \notin Inputs /\ v \notin AuxVars /\ v # Constant(qu)
         /\ \A i \in Hidden : \A j \in Node(i) : v # F(i, j) /\ v # B(i, j)
         /\ v \in Var(qu)
<1>1. CASE qu.side = "output"
  <2>1. 0 \in Node(LastLayer) /\ LastLayer \in 1 .. LastLayer
    BY <1>1, LayerIndices DEF IsQuestion, Outputs
  <2>2. v = B(LastLayer, 0)
    BY <1>1 DEF Asked
  <2>3. \A i \in Hidden : \A j \in Node(i) : v # F(i, j)
    BY <2>1, <2>2, NodeVariables
  <2>4. \A i \in Hidden : \A j \in Node(i) : v # B(i, j)
    <3> SUFFICES ASSUME NEW i \in Hidden, NEW j \in Node(i) PROVE v # B(i, j)
      OBVIOUS
    <3>1. i \in 1 .. LastLayer /\ i # LastLayer
      BY LayerIndices
    <3> QED
      BY <2>1, <2>2, <3>1, Numbering
  <2>5. v \notin Inputs /\ v \notin AuxVars /\ v # Constant(qu) /\ v \in Var(qu)
    BY <2>1, <2>2, NodeVariables
  <2> QED
    BY <2>3, <2>4, <2>5
<1>2. CASE qu.side # "output"
  <2>1. PICK o \in qu.others : v = Slack(qu, o)
    BY <1>2 DEF Asked, SlackVars
  <2>2. v \in Basics(qu) /\ v \in Var(qu) /\ v \notin Inputs /\ v \notin AuxVars /\ v # Constant(qu)
    BY <2>1, NodeVariables
  <2>3. \A i \in Hidden : \A j \in Node(i) : F(i, j) \notin Basics(qu) /\ B(i, j) \notin Basics(qu)
    BY NodeVariables, LayerIndices
  <2> QED
    BY <2>2, <2>3
<1> QED
  BY <1>1, <1>2

\* The least of the basic variables left.
Least(T, y) == y \in T /\ \A z \in T : y <= z

\* On reaching a row, variable v of it is the only one without finite bounds.
Remaining(qu, q, y, v) ==
  /\ v \in DOMAIN q.rows[y] /\ q.rows[y][v] = -1 /\ v \in Var(qu)
  /\ ~Finite(q, v)
  /\ \A c \in DOMAIN q.rows[y] \ {v} : Finite(q, c) /\ c \notin Asked(qu) /\ c \in Var(qu)

\* The variables of the layer before have been bounded.
LEMMA SourcesFinite ==
  ASSUME NEW n, IsNetwork(n), NEW qu, IsQuestion(qu), NEW q, NEW T, Working(n, qu, q, T),
         NEW i \in 1 .. LastLayer, NEW j \in Node(i), Least(T, Aux(i, j)),
         NEW s \in Node(i - 1)
  PROVE  Finite(q, F(i - 1, s)) /\ F(i - 1, s) \notin Asked(qu) /\ F(i - 1, s) \in Var(qu)
<1>1. CASE i - 1 = 0
  <2>1. s \in Inputs /\ F(i - 1, s) = s
    BY <1>1, LayerIndices, NodeVariables
  <2>2. Finite(q, s)
    BY <2>1 DEF Working
  <2>3. s \notin Asked(qu) /\ s \in Var(qu)
    BY <2>1, NodeVariables, AskedVariables
  <2> QED
    BY <2>1, <2>2, <2>3
<1>2. CASE i - 1 \in Hidden
  <2>1. i - 1 \in 1 .. LastLayer /\ i - 1 < i
    BY <1>2, LayerIndices DEF Hidden
  <2>2. Aux(i - 1, s) < Aux(i, j) /\ Aux(i - 1, s) \in Int /\ Aux(i, j) \in Int
    BY <2>1, Numbering
  <2>3. Aux(i - 1, s) \notin T
    BY <2>2 DEF Least
  <2>4. Finite(q, F(i - 1, s))
    BY <1>2, <2>3 DEF Working, Visited
  <2>5. F(i - 1, s) \notin Asked(qu) /\ F(i - 1, s) \in Var(qu)
    BY <1>2, NodeVariables, AskedVariables
  <2> QED
    BY <2>4, <2>5
<1> QED
  BY <1>1, <1>2, LayerIndices

\* On the row of a node only its own b is left.
LEMMA NodeRemaining ==
  ASSUME NEW n, IsNetwork(n), NEW qu, IsQuestion(qu), NEW q, NEW T, Working(n, qu, q, T),
         NEW i \in 1 .. LastLayer, NEW j \in Node(i), Least(T, Aux(i, j))
  PROVE  Remaining(qu, q, Aux(i, j), B(i, j))
<1> DEFINE y == Aux(i, j)
           b == B(i, j)
           r == q.rows[y]
<1>1. y \in T
  BY DEF Least
<1>2. ~Finite(q, b) /\ Own(q, i, j) = b
  <2>1. CASE i \in Hidden
    BY <1>1, <2>1 DEF Working, Unvisited, Finite, Own, Merged
  <2>2. CASE i = LastLayer
    <3>1. i \notin Hidden /\ j \in Outputs
      BY <2>2, LayerIndices
    <3> QED
      BY <1>1, <2>2, <3>1 DEF Working, Finite, Own, Merged
  <2> QED
    BY <2>1, <2>2, LayerIndices
<1>3. IsNodeRow(r, n, qu, i, j, b)
  BY <1>2 DEF Working, QueryForm, RowsForm
<1>4. DOMAIN r = {y, b, Constant(qu)} \cup Sources(i) /\ r[b] = -1
  BY <1>3 DEF IsNodeRow
<1>5. y \in AuxVars /\ y \in Var(qu) /\ b \in Var(qu) /\ Constant(qu) \in Var(qu)
  BY NodeVariables
<1>6. Finite(q, y) /\ Finite(q, Constant(qu))
  BY <1>5 DEF Working
<1>7. y \notin Asked(qu) /\ Constant(qu) \notin Asked(qu)
  BY <1>5, AskedVariables
<1>8. \A c \in Sources(i) : Finite(q, c) /\ c \notin Asked(qu) /\ c \in Var(qu)
  BY SourcesFinite DEF Sources
<1> HIDE DEF y, b, r
<1> QED
  BY <1>2, <1>4, <1>5, <1>6, <1>7, <1>8 DEF Remaining, y, b, r

\* On the row of a slack variable only that is left.
LEMMA SlackRemaining ==
  ASSUME NEW n, IsNetwork(n), NEW qu, IsQuestion(qu), NEW q, NEW T, Working(n, qu, q, T),
         NEW o \in qu.others, Least(T, Slack(qu, o))
  PROVE  Remaining(qu, q, Slack(qu, o), Slack(qu, o))
<1> DEFINE y == Slack(qu, o)
           r == q.rows[y]
           t == qu.target
<1>1. y \in T /\ ~Finite(q, y)
  BY DEF Least, Working
<1>2. IsSlackRow(r, qu, o)
  BY DEF Working, QueryForm, RowsForm
<1>3. DOMAIN r = {B(LastLayer, t), y, B(LastLayer, o)} /\ r[y] = -1
  BY <1>2 DEF IsSlackRow
<1>4. ASSUME NEW j \in Outputs
      PROVE  /\ Finite(q, B(LastLayer, j)) /\ B(LastLayer, j) \notin Asked(qu)
             /\ B(LastLayer, j) \in Var(qu)
  <2>1. LastLayer \in 1 .. LastLayer /\ j \in Node(LastLayer)
    BY LayerIndices
  <2>2. Aux(LastLayer, j) < NumNodes /\ y >= NumNodes /\ Aux(LastLayer, j) \in Int /\ y \in Int
        /\ NumNodes \in Int
    BY <2>1, NodeVariables
  <2>3. Aux(LastLayer, j) \notin T
    BY <2>2 DEF Least
  <2>4. qu.side # "output"
    BY DEF IsQuestion
  <2>5. B(LastLayer, j) \notin Asked(qu) /\ B(LastLayer, j) \in Var(qu)
    BY <2>1, <2>4, NodeVariables DEF Asked, Basics
  <2> QED
    BY <2>3, <2>5 DEF Working
<1>5. t \in Outputs /\ o \in Outputs
  BY DEF IsQuestion
<1>6. y \in Var(qu)
  BY NodeVariables
<1> HIDE DEF y, r, t
<1> QED
  BY <1>1, <1>3, <1>4, <1>5, <1>6 DEF Remaining, y, r

-----------------------------------------------------------------------------
(***************************************************************************)
(* What a query says of inputs x: bounds that do not state the question    *)
(* hold of what the network computes, and the others do if the outputs     *)
(* answer the question.                                                    *)
(***************************************************************************)
\* What a query says of the inputs x.
Holds(n, qu, q, x) ==
  /\ MergedActive(n, q, x)
  /\ \A v \in DOMAIN q.lower : v \notin Asked(qu) => q.lower[v] <= Val(n, qu, x)[v]
  /\ \A v \in DOMAIN q.upper : v \notin Asked(qu) => Val(n, qu, x)[v] <= q.upper[v]
  /\ WithinBounds(q, Val(n, qu, x)) <=> Answers(qu, Evaluate(n, x))

\* The bounds that the next row leaves hold of what the network computes.
LEMMA RowBoundsHold ==
  ASSUME NEW n, IsNetwork(n), NEW qu, IsQuestion(qu), NEW q, NEW T, Working(n, qu, q, T),
         NEW y \in Basics(qu), NEW v, Remaining(qu, q, y, v)
  PROVE  LET min == RowBound(q, y, v, FALSE)
             max == RowBound(q, y, v, TRUE)
         IN /\ InfiniteOnRow(q, y) = {v}
            /\ min \in Int /\ max \in Int /\ min <= max
            /\ \A x \in [Inputs -> Int] : Holds(n, qu, q, x) =>
                 min <= Val(n, qu, x)[v] /\ Val(n, qu, x)[v] <= max
<1> DEFINE r == q.rows[y]
           X == DOMAIN r
           min == RowBound(q, y, v, FALSE)
           max == RowBound(q, y, v, TRUE)
<1>1. InfiniteOnRow(q, y) = {v}
  BY DEF InfiniteOnRow, Remaining
<1>2. RowsForm(n, qu, q)
  BY DEF Working, QueryForm
<1>3. IsFiniteSet(X) /\ IntOn(r, X) /\ X \subseteq Var(qu)
  BY <1>2, RowsOk DEF RowOk
<1>4. v \in X /\ r[v] = -1
  BY DEF Remaining
<1>5. \A c \in X \ {v} : /\ q.lower[c] \in Int /\ q.upper[c] \in Int /\ q.lower[c] <= q.upper[c]
                         /\ c \in DOMAIN q.lower /\ c \in DOMAIN q.upper /\ c \notin Asked(qu)
  BY DEF Remaining, Working, QueryForm, BoundInvariantHolds, Finite, IntOn
<1>6. Between(q, q.lower, X \ {v})
  BY <1>5 DEF Between
<1>7. /\ min \in Int /\ max \in Int /\ min <= max
      /\ \A a : RowSays(r, v, q, a, min, max)
  BY <1>3, <1>4, <1>6, RowBounds
<1> HIDE DEF min, max
<1>8. ASSUME NEW x \in [Inputs -> Int], Holds(n, qu, q, x)
      PROVE  min <= Val(n, qu, x)[v] /\ Val(n, qu, x)[v] <= max
  <2> DEFINE a == Val(n, qu, x)
  <2>1. MergedActive(n, q, x)
    BY <1>8 DEF Holds
  <2>2. Dot(r, a, X) = 0 /\ IntOn(a, X)
    BY <1>2, <2>1, ValRows
  <2>3. Between(q, a, X \ {v})
    BY <1>5, <1>8 DEF Between, Holds
  <2>4. RowSays(r, v, q, a, min, max)
    BY <1>7
  <2> QED
    BY <2>2, <2>3, <2>4 DEF RowSays
<1> QED
  BY <1>1, <1>7, <1>8 DEF min, max

\* Bounds that hold anyway, set for a variable that has none or looser ones.
UpperHold(bounds, a, S) == \A x \in DOMAIN bounds : x \notin S => a[x] <= bounds[x]
\* The same of lower bounds.
LowerHold(bounds, a, S) == \A x \in DOMAIN bounds : x \notin S => bounds[x] <= a[x]

\* Such an upper bound changes nothing.
LEMMA TightUpperHolds ==
  ASSUME NEW q, IntOn(q.upper, DOMAIN q.upper), NEW v, NEW c \in Int, NEW a, a[v] \in Int,
         a[v] <= c, NEW S
  PROVE  UpperHold(TightUpper(q, v, c), a, S) <=> UpperHold(q.upper, a, S)
<1>1. CASE v \notin DOMAIN q.upper \/ c < q.upper[v]
  <2> DEFINE u == TightUpper(q, v, c)
  <2>1. /\ DOMAIN u = {v} \cup DOMAIN q.upper /\ u[v] = c
        /\ \A x \in DOMAIN q.upper : x # v => u[x] = q.upper[x]
    BY <1>1 DEF TightUpper, BoundSet
  <2>2. v \in DOMAIN q.upper => a[v] <= q.upper[v]
    BY <1>1 DEF IntOn
  <2> HIDE DEF u
  <2>3. UpperHold(u, a, S) <=> UpperHold(q.upper, a, S)
    BY <2>1, <2>2 DEF UpperHold
  <2> QED
    BY <2>3 DEF u
<1>2. CASE ~(v \notin DOMAIN q.upper \/ c < q.upper[v])
  BY <1>2 DEF TightUpper
<1> QED
  BY <1>1, <1>2

\* Such a lower bound changes nothing.
LEMMA TightLowerHolds ==
  ASSUME NEW q, IntOn(q.lower, DOMAIN q.lower), NEW v, NEW c \in Int, NEW a, a[v] \in Int,
         c <= a[v], NEW S
  PROVE  LowerHold(TightLower(q, v, c), a, S) <=> LowerHold(q.lower, a, S)
<1>1. CASE v \notin DOMAIN q.lower \/ c > q.lower[v]
  <2> DEFINE u == TightLower(q, v, c)
  <2>1. /\ DOMAIN u = {v} \cup DOMAIN q.lower /\ u[v] = c
        /\ \A x \in DOMAIN q.lower : x # v => u[x] = q.lower[x]
    BY <1>1 DEF TightLower, BoundSet
  <2>2. v \in DOMAIN q.lower => q.lower[v] <= a[v]
    BY <1>1 DEF IntOn
  <2> HIDE DEF u
  <2>3. LowerHold(u, a, S) <=> LowerHold(q.lower, a, S)
    BY <2>1, <2>2 DEF LowerHold
  <2> QED
    BY <2>3 DEF u
<1>2. CASE ~(v \notin DOMAIN q.lower \/ c > q.lower[v])
  BY <1>2 DEF TightLower
<1> QED
  BY <1>1, <1>2

\* A valuation is within the bounds if all hold of it.
LEMMA WithinBoundsIs ==
  \A q, a : WithinBounds(q, a) <=> LowerHold(q.lower, a, {}) /\ UpperHold(q.upper, a, {})
BY DEF WithinBounds, LowerHold, UpperHold

\* The row of an output or a slack variable keeps what the query says.
LEMMA PlainHolds ==
  ASSUME NEW n, IsNetwork(n), NEW qu, IsQuestion(qu), NEW q, QueryForm(n, qu, q), NEW u,
         NEW v \in Var(qu), NEW min \in Int, NEW max \in Int,
         PlainVisited(n, qu, q, u, v, min, max),
         NEW x \in [Inputs -> Int], Holds(n, qu, q, x),
         min <= Val(n, qu, x)[v], Val(n, qu, x)[v] <= max
  PROVE  Holds(n, qu, u, x)
<1> DEFINE a == Val(n, qu, x)
<1>1. a[v] \in Int
  BY ValFacts DEF IntOn
<1>2. IntOn(q.lower, DOMAIN q.lower) /\ IntOn(q.upper, DOMAIN q.upper)
  BY DEF QueryForm
<1>3. MergedActive(n, u, x)
  BY DEF PlainVisited, Holds, MergedActive, Merged
<1> HIDE DEF a
<1>4. ASSUME NEW S
      PROVE  /\ UpperHold(u.upper, a, S) <=> UpperHold(q.upper, a, S)
             /\ LowerHold(u.lower, a, S) <=> LowerHold(q.lower, a, S)
  <2>1. min <= a[v] /\ a[v] <= max
    BY DEF a
  <2>2. UpperHold(TightUpper(q, v, max), a, S) <=> UpperHold(q.upper, a, S)
    BY <1>1, <1>2, <2>1, TightUpperHolds
  <2>3. LowerHold(TightLower(q, v, min), a, S) <=> LowerHold(q.lower, a, S)
    BY <1>1, <1>2, <2>1, TightLowerHolds
  <2>4. u.upper = TightUpper(q, v, max) /\ (u.lower = q.lower \/ u.lower = TightLower(q, v, min))
    BY DEF PlainVisited
  <2> QED
    BY <2>2, <2>3, <2>4
<1>5. UpperHold(q.upper, a, Asked(qu)) /\ LowerHold(q.lower, a, Asked(qu))
  BY DEF Holds, UpperHold, LowerHold, a
<1>6. UpperHold(u.upper, a, Asked(qu)) /\ LowerHold(u.lower, a, Asked(qu))
  BY <1>4, <1>5
<1>7. WithinBounds(u, a) <=> WithinBounds(q, a)
  BY <1>4, WithinBoundsIs
<1>8. WithinBounds(u, a) <=> Answers(qu, Evaluate(n, x))
  BY <1>7 DEF Holds, a
<1> QED
  BY <1>3, <1>6, <1>8 DEF Holds, UpperHold, LowerHold, a

\* The bounds that a hidden node's row sets hold of a valuation in which they do.
LEMMA PairBoundsHold ==
  ASSUME NEW q, NEW u, NEW i \in Hidden, NEW j \in Node(i), B(i, j) # F(i, j),
         Unvisited(q, i, j), NEW min \in Int, NEW max \in Int, VisitedPair(q, u, i, j, min, max),
         NEW a, a[B(i, j)] \in Int, a[F(i, j)] = Relu(a[B(i, j)]),
         min <= a[B(i, j)], a[B(i, j)] <= max, NEW S
  PROVE  /\ LowerHold(u.lower, a, S) <=> LowerHold(q.lower, a, S)
         /\ UpperHold(u.upper, a, S) <=> UpperHold(q.upper, a, S)
<1> DEFINE b == B(i, j) f == F(i, j)
<1>1. /\ b # f /\ b \notin DOMAIN q.lower /\ b \notin DOMAIN q.upper
      /\ f \in DOMAIN q.lower /\ q.lower[f] = 0 /\ f \notin DOMAIN q.upper
  BY DEF Unvisited
<1>2. /\ DOMAIN u.lower = {b} \cup DOMAIN q.lower
      /\ u.lower[b] = min
      /\ u.lower[f] = IF Phase(min, max) = "merge" THEN min ELSE 0
      /\ \A x \in DOMAIN q.lower : x # f => u.lower[x] = q.lower[x]
      /\ DOMAIN u.upper = {b, f} \cup DOMAIN q.upper
      /\ u.upper[b] = max
      /\ u.upper[f] = IF max > 0 THEN max ELSE 0
      /\ \A x \in DOMAIN q.upper : u.upper[x] = q.upper[x]
  BY DEF VisitedPair
<1>3. /\ a[b] \in Int /\ min <= a[b] /\ a[b] <= max /\ a[f] = IF a[b] < 0 THEN 0 ELSE a[b]
  BY DEF Relu
<1>4. Phase(min, max) = "merge" => min >= 0
  BY DEF Phase
<1> HIDE DEF b, f
<1>5. 0 <= a[f] /\ u.lower[f] <= a[f] /\ a[f] <= u.upper[f]
  BY <1>2, <1>3, <1>4
<1>6. LowerHold(u.lower, a, S) <=> LowerHold(q.lower, a, S)
  <2>1. ASSUME LowerHold(u.lower, a, S) PROVE LowerHold(q.lower, a, S)
    <3> SUFFICES ASSUME NEW x \in DOMAIN q.lower, x \notin S PROVE q.lower[x] <= a[x]
      BY DEF LowerHold
    <3>1. CASE x = f
      BY <3>1, <1>1, <1>5
    <3>2. CASE x # f
      BY <3>2, <2>1, <1>2 DEF LowerHold
    <3> QED
      BY <3>1, <3>2
  <2>2. ASSUME LowerHold(q.lower, a, S) PROVE LowerHold(u.lower, a, S)
    <3> SUFFICES ASSUME NEW x \in DOMAIN u.lower, x \notin S PROVE u.lower[x] <= a[x]
      BY DEF LowerHold
    <3>1. CASE x = f
      BY <3>1, <1>5
    <3>2. CASE x = b
      BY <3>2, <1>2, <1>3
    <3>3. CASE x # f /\ x # b
      BY <3>3, <2>2, <1>2 DEF LowerHold
    <3> QED
      BY <3>1, <3>2, <3>3
  <2> QED
    BY <2>1, <2>2
<1>7. UpperHold(u.upper, a, S) <=> UpperHold(q.upper, a, S)
  <2>1. ASSUME UpperHold(u.upper, a, S) PROVE UpperHold(q.upper, a, S)
    <3> SUFFICES ASSUME NEW x \in DOMAIN q.upper, x \notin S PROVE a[x] <= q.upper[x]
      BY DEF UpperHold
    <3> QED
      BY <2>1, <1>2 DEF UpperHold
  <2>2. ASSUME UpperHold(q.upper, a, S) PROVE UpperHold(u.upper, a, S)
    <3> SUFFICES ASSUME NEW x \in DOMAIN u.upper, x \notin S PROVE a[x] <= u.upper[x]
      BY DEF UpperHold
    <3>1. CASE x = f
      BY <3>1, <1>5
    <3>2. CASE x = b
      BY <3>2, <1>2, <1>3
    <3>3. CASE x # f /\ x # b
      BY <3>3, <2>2, <1>2 DEF UpperHold
    <3> QED
      BY <3>1, <3>2, <3>3
  <2> QED
    BY <2>1, <2>2
<1> QED
  BY <1>6, <1>7

\* The row of a hidden node keeps what the query says.
LEMMA HiddenHolds ==
  ASSUME NEW n, IsNetwork(n), NEW qu, IsQuestion(qu), NEW q, NEW u,
         NEW i \in Hidden, NEW j \in Node(i), Unvisited(q, i, j),
         NEW min \in Int, NEW max \in Int, VisitedPair(q, u, i, j, min, max),
         NEW x \in [Inputs -> Int], Holds(n, qu, q, x),
         min <= Val(n, qu, x)[B(i, j)], Val(n, qu, x)[B(i, j)] <= max
  PROVE  Holds(n, qu, u, x)
<1> DEFINE a == Val(n, qu, x)
<1>0. i \in 1 .. LastLayer
  BY LayerIndices
<1>1. a[B(i, j)] = Pre(n, x, i, j) /\ a[F(i, j)] = Relu(a[B(i, j)]) /\ a[B(i, j)] \in Int
  BY <1>0, ValFacts, PreFacts
<1>2. B(i, j) # F(i, j)
  BY PairVariables
<1>3. MergedActive(n, u, x)
  <2> SUFFICES ASSUME NEW k \in Hidden, NEW l \in Node(k), Merged(u, k, l)
               PROVE  Pre(n, x, k, l) >= 0
    BY DEF MergedActive
  <2>1. CASE <<B(k, l), F(k, l)>> = <<B(i, j), F(i, j)>>
    <3>1. k = i /\ l = j
      BY <2>1, PairFacts
    <3>2. Phase(min, max) = "merge"
      BY <2>1 DEF Merged, VisitedPair
    <3>3. min >= 0
      BY <3>2 DEF Phase
    <3>4. min <= Pre(n, x, i, j) /\ Pre(n, x, i, j) \in Int
      BY <1>1
    <3> QED
      BY <3>1, <3>3, <3>4
  <2>2. CASE <<B(k, l), F(k, l)>> # <<B(i, j), F(i, j)>>
    <3>1. <<B(k, l), F(k, l)>> \in Pairs
      BY PairFacts
    <3>2. Merged(q, k, l)
      BY <2>2, <3>1 DEF Merged, VisitedPair
    <3> QED
      BY <3>2 DEF Holds, MergedActive
  <2> QED
    BY <2>1, <2>2
<1>4. min <= a[B(i, j)] /\ a[B(i, j)] <= max
  OBVIOUS
<1> HIDE DEF a
<1>5. \A S : /\ LowerHold(u.lower, a, S) <=> LowerHold(q.lower, a, S)
             /\ UpperHold(u.upper, a, S) <=> UpperHold(q.upper, a, S)
  BY <1>1, <1>2, <1>4, PairBoundsHold
<1>6. LowerHold(u.lower, a, Asked(qu)) /\ UpperHold(u.upper, a, Asked(qu))
  <2>1. LowerHold(q.lower, a, Asked(qu)) /\ UpperHold(q.upper, a, Asked(qu))
    BY DEF Holds, a, LowerHold, UpperHold
  <2> QED
    BY <2>1, <1>5
<1>7. WithinBounds(u, a) <=> WithinBounds(q, a)
  BY <1>5, WithinBoundsIs
<1>8. WithinBounds(u, a) <=> Answers(qu, Evaluate(n, x))
  BY <1>7 DEF Holds, a
<1> QED
  BY <1>3, <1>6, <1>8 DEF Holds, LowerHold, UpperHold, a

-----------------------------------------------------------------------------
(***************************************************************************)
(* A row, and what is left to do after it.                                 *)
(***************************************************************************)
\* The bounds of the variables that are not in S are the same.
OtherBounds(q, u, S) ==
  \A x : x \notin S =>
    /\ x \in DOMAIN u.lower <=> x \in DOMAIN q.lower
    /\ x \in DOMAIN q.lower => u.lower[x] = q.lower[x]
    /\ x \in DOMAIN u.upper <=> x \in DOMAIN q.upper
    /\ x \in DOMAIN q.upper => u.upper[x] = q.upper[x]

\* The row of y was visited: it bounded the variables of S.
RowVisited(qu, q, u, y, S) ==
  /\ OtherBounds(q, u, S)
  /\ \A v \in S : Finite(u, v) /\ BoundInvariantHolds(u, v)
  /\ \A i \in Hidden : \A j \in Node(i) :
       IF Aux(i, j) = y THEN Visited(u, i, j)
       ELSE /\ B(i, j) \notin S /\ F(i, j) \notin S
            /\ u.dissolved[<<B(i, j), F(i, j)>>] = q.dissolved[<<B(i, j), F(i, j)>>]
  /\ \A j \in Outputs : Aux(LastLayer, j) = y <=> B(LastLayer, j) \in S
  /\ \A o \in qu.others : Slack(qu, o) = y <=> Slack(qu, o) \in S

\* Where the bounds are the same.
LEMMA OtherFinite ==
  ASSUME NEW q, NEW u, NEW S, OtherBounds(q, u, S), NEW x, x \notin S
  PROVE  /\ Finite(u, x) <=> Finite(q, x)
         /\ BoundInvariantHolds(q, x) => BoundInvariantHolds(u, x)
BY DEF OtherBounds, Finite, BoundInvariantHolds

\* One row less is left to be visited.
LEMMA WorkingKept ==
  ASSUME NEW n, NEW qu, NEW q, NEW T, Working(n, qu, q, T),
         NEW u, QueryForm(n, qu, u), Consistent(u), NonBasicsIn(qu, u, {}),
         NEW y, NEW S, RowVisited(qu, q, u, y, S)
  PROVE  Working(n, qu, u, T \ {y})
<1>1. OtherBounds(q, u, S) /\ \A v \in S : Finite(u, v) /\ BoundInvariantHolds(u, v)
  BY DEF RowVisited
<1>2. \A v \in Var(qu) : BoundInvariantHolds(u, v)
  <2> SUFFICES ASSUME NEW v \in Var(qu) PROVE BoundInvariantHolds(u, v)
    OBVIOUS
  <2>1. BoundInvariantHolds(q, v)
    BY DEF Working
  <2> QED
    BY <1>1, <2>1, OtherFinite
<1>3. \A v \in Inputs \cup {Constant(qu)} \cup AuxVars : Finite(u, v)
  <2> SUFFICES ASSUME NEW v \in Inputs \cup {Constant(qu)} \cup AuxVars PROVE Finite(u, v)
    OBVIOUS
  <2>1. Finite(q, v)
    BY DEF Working
  <2> QED
    BY <1>1, <2>1, OtherFinite
<1>4. ASSUME NEW i \in Hidden, NEW j \in Node(i)
      PROVE  IF Aux(i, j) \in T \ {y} THEN Unvisited(u, i, j) ELSE Visited(u, i, j)
  <2>1. CASE Aux(i, j) = y
    BY <2>1 DEF RowVisited
  <2>2. CASE Aux(i, j) # y
    <3> DEFINE b == B(i, j) f == F(i, j)
    <3>1. /\ b \notin S /\ f \notin S
          /\ u.dissolved[<<b, f>>] = q.dissolved[<<b, f>>]
      BY <2>2 DEF RowVisited
    <3>2. IF Aux(i, j) \in T THEN Unvisited(q, i, j) ELSE Visited(q, i, j)
      BY DEF Working
    <3>3. /\ b \in DOMAIN u.lower <=> b \in DOMAIN q.lower
          /\ b \in DOMAIN q.lower => u.lower[b] = q.lower[b]
          /\ b \in DOMAIN u.upper <=> b \in DOMAIN q.upper
          /\ b \in DOMAIN q.upper => u.upper[b] = q.upper[b]
          /\ f \in DOMAIN u.lower <=> f \in DOMAIN q.lower
          /\ f \in DOMAIN q.lower => u.lower[f] = q.lower[f]
          /\ f \in DOMAIN u.upper <=> f \in DOMAIN q.upper
          /\ f \in DOMAIN q.upper => u.upper[f] = q.upper[f]
      BY <1>1, <3>1 DEF OtherBounds
    <3>4. Unvisited(q, i, j) => Unvisited(u, i, j)
      BY <3>1, <3>3 DEF Unvisited
    <3>5. Visited(q, i, j) => Visited(u, i, j)
      BY <3>1, <3>3 DEF Visited, Finite
    <3> QED
      BY <2>2, <3>2, <3>4, <3>5
  <2> QED
    BY <2>1, <2>2
<1>5. ASSUME NEW j \in Outputs
      PROVE  IF Aux(LastLayer, j) \in T \ {y} THEN B(LastLayer, j) \notin DOMAIN u.upper
             ELSE Finite(u, B(LastLayer, j))
  <2>1. IF Aux(LastLayer, j) \in T THEN B(LastLayer, j) \notin DOMAIN q.upper
        ELSE Finite(q, B(LastLayer, j))
    BY DEF Working
  <2>2. Aux(LastLayer, j) = y <=> B(LastLayer, j) \in S
    BY DEF RowVisited
  <2>3. CASE Aux(LastLayer, j) = y
    BY <2>2, <2>3, <1>1
  <2>4. CASE Aux(LastLayer, j) # y
    <3>1. /\ B(LastLayer, j) \in DOMAIN u.upper <=> B(LastLayer, j) \in DOMAIN q.upper
          /\ Finite(u, B(LastLayer, j)) <=> Finite(q, B(LastLayer, j))
      BY <2>2, <2>4, <1>1, OtherFinite DEF OtherBounds
    <3> QED
      BY <2>1, <2>4, <3>1
  <2> QED
    BY <2>3, <2>4
<1>6. ASSUME NEW o \in qu.others
      PROVE  Slack(qu, o) \in T \ {y} <=> ~Finite(u, Slack(qu, o))
  <2>1. Slack(qu, o) \in T <=> ~Finite(q, Slack(qu, o))
    BY DEF Working
  <2>2. Slack(qu, o) = y <=> Slack(qu, o) \in S
    BY DEF RowVisited
  <2>3. CASE Slack(qu, o) = y
    BY <2>2, <2>3, <1>1
  <2>4. CASE Slack(qu, o) # y
    <3>1. Finite(u, Slack(qu, o)) <=> Finite(q, Slack(qu, o))
      BY <2>2, <2>4, <1>1, OtherFinite
    <3> QED
      BY <2>1, <2>4, <3>1
  <2> QED
    BY <2>3, <2>4
<1> QED
  BY <1>2, <1>3, <1>4, <1>5, <1>6 DEF Working

\* A hidden node's row bounds its own pair.
LEMMA HiddenRowVisited ==
  ASSUME NEW qu, IsQuestion(qu), NEW q, NEW u, NEW i \in Hidden, NEW j \in Node(i),
         Unvisited(q, i, j), NEW min \in Int, NEW max \in Int, min <= max,
         VisitedPair(q, u, i, j, min, max)
  PROVE  RowVisited(qu, q, u, Aux(i, j), {B(i, j), F(i, j)})
<1> DEFINE b == B(i, j) f == F(i, j)
<1>0. i \in 1 .. LastLayer /\ LastLayer \in 1 .. LastLayer /\ i # LastLayer /\ Outputs = Node(LastLayer)
  BY LayerIndices
<1>1. /\ b # f /\ b \notin DOMAIN q.lower /\ b \notin DOMAIN q.upper
      /\ f \in DOMAIN q.lower /\ q.lower[f] = 0 /\ f \notin DOMAIN q.upper
      /\ b \in Var(qu) \ Basics(qu) /\ f \in Var(qu) \ Basics(qu) /\ <<b, f>> \in Pairs
  BY PairVariables DEF Unvisited
<1>2. /\ DOMAIN u.lower = {b} \cup DOMAIN q.lower
      /\ u.lower[b] = min
      /\ u.lower[f] = IF Phase(min, max) = "merge" THEN min ELSE 0
      /\ \A x \in DOMAIN q.lower : x # f => u.lower[x] = q.lower[x]
      /\ DOMAIN u.upper = {b, f} \cup DOMAIN q.upper
      /\ u.upper[b] = max
      /\ u.upper[f] = IF max > 0 THEN max ELSE 0
      /\ \A x \in DOMAIN q.upper : u.upper[x] = q.upper[x]
      /\ u.dissolved[<<b, f>>] = Phase(min, max)
      /\ \A p \in Pairs : p # <<b, f>> => u.dissolved[p] = q.dissolved[p]
  BY DEF VisitedPair
<1>3. /\ Phase(min, max) = "merge" => min >= 0 /\ max > 0
      /\ Phase(min, max) = "no" <=> min < 0 /\ max > 0
  BY DEF Phase
<1> HIDE DEF b, f
<1>4. OtherBounds(q, u, {b, f})
  BY <1>1, <1>2 DEF OtherBounds
<1>5. \A v \in {b, f} : Finite(u, v) /\ BoundInvariantHolds(u, v)
  <2>1. Finite(u, b) /\ Finite(u, f)
    BY <1>1, <1>2 DEF Finite
  <2>2. u.lower[b] <= u.upper[b] /\ u.lower[f] <= u.upper[f]
    BY <1>2, <1>3
  <2> QED
    BY <2>1, <2>2 DEF BoundInvariantHolds
<1>6. ASSUME NEW k \in Hidden, NEW l \in Node(k)
      PROVE  IF Aux(k, l) = Aux(i, j) THEN Visited(u, k, l)
             ELSE /\ B(k, l) \notin {b, f} /\ F(k, l) \notin {b, f}
                  /\ u.dissolved[<<B(k, l), F(k, l)>>] = q.dissolved[<<B(k, l), F(k, l)>>]
  <2>0. k \in 1 .. LastLayer
    BY LayerIndices
  <2>1. Aux(k, l) = Aux(i, j) <=> k = i /\ l = j
    BY <1>0, <2>0, Numbering
  <2>2. CASE k = i /\ l = j
    <3>1. /\ Finite(u, b) /\ Finite(u, f)
          /\ u.dissolved[<<b, f>>] = "no" <=> u.lower[b] < 0 /\ u.upper[b] > 0
      BY <1>2, <1>3, <1>5
    <3>2. Visited(u, i, j)
      BY <3>1 DEF Visited, b, f
    <3> QED
      BY <2>1, <2>2, <3>2
  <2>3. CASE ~(k = i /\ l = j)
    <3>1. B(k, l) # b /\ B(k, l) # f /\ F(k, l) # b /\ F(k, l) # f
      BY <1>0, <2>0, <2>3, Numbering, NodeVariables DEF b, f
    <3>2. <<B(k, l), F(k, l)>> \in Pairs /\ <<B(k, l), F(k, l)>> # <<b, f>>
      BY <3>1, PairFacts
    <3>3. u.dissolved[<<B(k, l), F(k, l)>>] = q.dissolved[<<B(k, l), F(k, l)>>]
      BY <3>2, <1>2
    <3> QED
      BY <2>1, <2>3, <3>1, <3>3
  <2> QED
    BY <2>2, <2>3
<1>7. ASSUME NEW l \in Outputs
      PROVE  Aux(LastLayer, l) = Aux(i, j) <=> B(LastLayer, l) \in {b, f}
  <2>1. Aux(LastLayer, l) # Aux(i, j) /\ B(LastLayer, l) # b
    BY <1>0, Numbering DEF b
  <2>2. B(LastLayer, l) # f
    BY <1>0, NodeVariables DEF f
  <2> QED
    BY <2>1, <2>2
<1>8. ASSUME NEW o \in qu.others
      PROVE  Slack(qu, o) = Aux(i, j) <=> Slack(qu, o) \in {b, f}
  <2>1. Slack(qu, o) \in Basics(qu) /\ Slack(qu, o) \notin AuxVars /\ Aux(i, j) \in AuxVars
    BY <1>0, NodeVariables
  <2> QED
    BY <2>1, <1>1
<1>9. RowVisited(qu, q, u, Aux(i, j), {b, f})
  BY <1>4, <1>5, <1>6, <1>7, <1>8 DEF RowVisited
<1> QED
  BY <1>9 DEF b, f

\* The bounds that a row leaves for its variable v are kept by what the network computes.
KeptBy(n, qu, q, v, min, max) ==
  \A x \in [Inputs -> Int] : Holds(n, qu, q, x) =>
    min <= Val(n, qu, x)[v] /\ Val(n, qu, x)[v] <= max

\* What was so of the query q is so of u.
HoldsStill(n, qu, q, u) == \A x \in [Inputs -> Int] : Holds(n, qu, q, x) => Holds(n, qu, u, x)

\* Visiting the row of a hidden node.
LEMMA HiddenStep ==
  ASSUME NEW n, IsNetwork(n), NEW qu, IsQuestion(qu), NEW q, NEW T, Working(n, qu, q, T),
         NEW i \in Hidden, NEW j \in Node(i), Least(T, Aux(i, j)),
         NEW u, u = MakeBoundsFiniteOnRow(q, Aux(i, j))
  PROVE  Working(n, qu, u, T \ {Aux(i, j)}) /\ HoldsStill(n, qu, q, u)
<1> DEFINE b == B(i, j) f == F(i, j) y == Aux(i, j)
           min == RowBound(q, y, b, FALSE) max == RowBound(q, y, b, TRUE)
           above == UpdateUpperBound(q, b, max)
           both == UpdateLowerBound(above, b, min)
<1>0. i \in 1 .. LastLayer
  BY LayerIndices
<1>1. Remaining(qu, q, y, b)
  BY <1>0, NodeRemaining
<1>2. y \in Basics(qu)
  BY <1>0, NodeVariables
<1>3. /\ InfiniteOnRow(q, y) = {b}
      /\ min \in Int /\ max \in Int /\ min <= max
      /\ KeptBy(n, qu, q, b, min, max)
  BY <1>1, <1>2, RowBoundsHold DEF KeptBy
<1>4. Unvisited(q, i, j)
  BY DEF Working, Least
<1>5. QueryForm(n, qu, q) /\ Consistent(q) /\ NonBasicsIn(qu, q, {})
  BY DEF Working
<1>6. /\ Consistent(above) /\ above.lower = q.lower
      /\ QueryForm(n, qu, both) /\ Consistent(both) /\ NonBasicsIn(qu, both, {})
      /\ VisitedPair(q, both, i, j, min, max)
  <2> HIDE DEF min, max
  <2> QED
    BY <1>3, <1>4, <1>5, HiddenNode
<1>7. u = both
  <2>1. b \in Var(qu) \ Basics(qu)
    BY PairVariables
  <2>2. ~OutOfBounds(both, b)
    BY <1>6, <2>1 DEF NonBasicsIn
  <2>3. (CHOOSE c \in InfiniteOnRow(q, y) : TRUE) = b
    BY <1>3
  <2>4. b \notin DOMAIN q.upper /\ b \notin DOMAIN above.lower
    BY <1>4, <1>6 DEF Unvisited
  <2> HIDE DEF b, y
  <2>5. MakeBoundsFiniteOnRow(q, y) = both
    BY <1>3, <1>6, <2>2, <2>3, <2>4 DEF MakeBoundsFiniteOnRow, Consistent
  <2> QED
    BY <2>5 DEF y
<1> HIDE DEF both, above, min, max
<1>8. RowVisited(qu, q, u, y, {b, f})
  BY <1>3, <1>4, <1>6, <1>7, HiddenRowVisited
<1>9. Working(n, qu, u, T \ {y})
  BY <1>6, <1>7, <1>8, WorkingKept
<1>10. HoldsStill(n, qu, q, u)
  <2> SUFFICES ASSUME NEW x \in [Inputs -> Int], Holds(n, qu, q, x) PROVE Holds(n, qu, u, x)
    BY DEF HoldsStill
  <2>1. min <= Val(n, qu, x)[b] /\ Val(n, qu, x)[b] <= max
    BY <1>3 DEF KeptBy
  <2> QED
    BY <1>3, <1>4, <1>6, <1>7, <2>1, HiddenHolds
<1> QED
  BY <1>9, <1>10

\* A query found to have no solution: the bounds of a variable cross.
RefusedQuery(n, qu, u) ==
  /\ QueryForm(n, qu, u) /\ u.consistent = FALSE
  /\ \E v \in Var(qu) : ~BoundInvariantHolds(u, v)

\* The variable v that the row of y bounds, when it has no pair.
PlainRowOf(qu, y, v) ==
  /\ \A i \in Hidden : \A j \in Node(i) : Aux(i, j) # y /\ B(i, j) # v /\ F(i, j) # v
  /\ \A j \in Outputs : Aux(LastLayer, j) = y <=> B(LastLayer, j) = v
  /\ \A o \in qu.others : Slack(qu, o) = y <=> Slack(qu, o) = v

\* Only v has other bounds, and they are finite.
LEMMA TightBounds ==
  ASSUME NEW q, NEW v, NEW min, NEW max, NEW u,
         u.lower = TightLower(q, v, min), u.upper = TightUpper(q, v, max)
  PROVE  OtherBounds(q, u, {v}) /\ Finite(u, v)
<1>1. /\ DOMAIN u.lower = {v} \cup DOMAIN q.lower
      /\ \A x \in DOMAIN q.lower : x # v => u.lower[x] = q.lower[x]
  BY DEF TightLower, BoundSet
<1>2. /\ DOMAIN u.upper = {v} \cup DOMAIN q.upper
      /\ \A x \in DOMAIN q.upper : x # v => u.upper[x] = q.upper[x]
  BY DEF TightUpper, BoundSet
<1> QED
  BY <1>1, <1>2 DEF OtherBounds, Finite

\* Visiting the row of an output or of a slack variable.
LEMMA PlainStep ==
  ASSUME NEW n, IsNetwork(n), NEW qu, IsQuestion(qu), NEW q, NEW T, Working(n, qu, q, T),
         NEW y \in Basics(qu), NEW v, Remaining(qu, q, y, v), PlainRowOf(qu, y, v),
         ~Active(q, v), NEW u, u = MakeBoundsFiniteOnRow(q, y)
  PROVE  (RefusedQuery(n, qu, u) \/ Working(n, qu, u, T \ {y})) /\ HoldsStill(n, qu, q, u)
<1> DEFINE min == RowBound(q, y, v, FALSE) max == RowBound(q, y, v, TRUE)
<1>1. /\ InfiniteOnRow(q, y) = {v}
      /\ min \in Int /\ max \in Int /\ min <= max
      /\ KeptBy(n, qu, q, v, min, max)
  BY RowBoundsHold DEF KeptBy
<1>2. v \in Var(qu)
  BY DEF Remaining
<1>3. QueryForm(n, qu, q) /\ Consistent(q) /\ NonBasicsIn(qu, q, {})
  BY DEF Working
<1>4. PlainVisited(n, qu, q, u, v, min, max)
  BY <1>1, <1>2, <1>3, PlainRow
<1> HIDE DEF min, max
<1>7. HoldsStill(n, qu, q, u)
  <2> SUFFICES ASSUME NEW x \in [Inputs -> Int], Holds(n, qu, q, x) PROVE Holds(n, qu, u, x)
    BY DEF HoldsStill
  <2>1. min <= Val(n, qu, x)[v] /\ Val(n, qu, x)[v] <= max
    BY <1>1 DEF KeptBy
  <2> QED
    BY <1>1, <1>2, <1>3, <1>4, <2>1, PlainHolds
<1>5. CASE u.consistent = FALSE /\ ~BoundInvariantHolds(u, v)
  BY <1>2, <1>4, <1>5, <1>7 DEF RefusedQuery, PlainVisited
<1>6. CASE /\ Consistent(u) /\ BoundInvariantHolds(u, v) /\ NonBasicsIn(qu, u, {})
           /\ u.lower = TightLower(q, v, min)
  <2>1. u.upper = TightUpper(q, v, max) /\ u.dissolved = q.dissolved /\ QueryForm(n, qu, u)
    BY <1>4 DEF PlainVisited
  <2>2. OtherBounds(q, u, {v}) /\ Finite(u, v)
    BY <1>6, <2>1, TightBounds
  <2>3. RowVisited(qu, q, u, y, {v})
    BY <1>6, <2>1, <2>2 DEF RowVisited, PlainRowOf
  <2> QED
    BY <1>6, <1>7, <2>1, <2>3, WorkingKept
<1> QED
  BY <1>4, <1>5, <1>6, <1>7 DEF PlainVisited

\* What visiting a row brings about, one variable of which has an infinite bound.
RowDone(n, qu, q, T, y, u) ==
  /\ RefusedQuery(n, qu, u) \/ Working(n, qu, u, T \ {y})
  /\ HoldsStill(n, qu, q, u)
  /\ \E v : InfiniteOnRow(q, y) = {v}

\* Visiting the next row.
LEMMA RowStep ==
  ASSUME NEW n, IsNetwork(n), NEW qu, IsQuestion(qu), NEW q, NEW T, Working(n, qu, q, T),
         NEW y \in Basics(qu), Least(T, y), NEW u, u = MakeBoundsFiniteOnRow(q, y)
  PROVE  RowDone(n, qu, q, T, y, u)
<1> USE DEF RowDone
<1>0. Outputs = Node(LastLayer) /\ LastLayer \in 1 .. LastLayer
  BY LayerIndices
<1>1. CASE \E i \in Hidden : \E j \in Node(i) : y = Aux(i, j)
  <2>1. PICK i \in Hidden : \E j \in Node(i) : y = Aux(i, j)
    BY <1>1
  <2>2. PICK j \in Node(i) : y = Aux(i, j)
    BY <2>1
  <2>3. Working(n, qu, u, T \ {y}) /\ HoldsStill(n, qu, q, u)
    BY <2>2, HiddenStep
  <2>4. Remaining(qu, q, y, B(i, j))
    BY <2>2, NodeRemaining, LayerIndices
  <2>5. InfiniteOnRow(q, y) = {B(i, j)}
    BY <2>4, RowBoundsHold
  <2> QED
    BY <2>3, <2>5
<1>2. CASE \E j \in Outputs : y = Aux(LastLayer, j)
  <2>1. PICK j \in Outputs : y = Aux(LastLayer, j)
    BY <1>2
  <2> DEFINE v == B(LastLayer, j)
  <2>2. Remaining(qu, q, y, v)
    BY <1>0, <2>1, NodeRemaining
  <2>3. ~Active(q, v)
    BY PairFacts DEF Active
  <2>4. PlainRowOf(qu, y, v)
    <3>1. ASSUME NEW k \in Hidden, NEW l \in Node(k)
          PROVE  Aux(k, l) # y /\ B(k, l) # v /\ F(k, l) # v
      <4>1. k \in 1 .. LastLayer /\ k # LastLayer
        BY LayerIndices
      <4>2. Aux(k, l) # y /\ B(k, l) # v
        BY <1>0, <2>1, <4>1, Numbering
      <4>3. F(k, l) # v
        BY <1>0, NodeVariables
      <4> QED
        BY <4>2, <4>3
    <3>2. ASSUME NEW l \in Outputs
          PROVE  Aux(LastLayer, l) = y <=> B(LastLayer, l) = v
      BY <1>0, <2>1, Numbering
    <3>3. ASSUME NEW o \in qu.others
          PROVE  Slack(qu, o) = y <=> Slack(qu, o) = v
      <4>1. Slack(qu, o) \in Basics(qu) /\ Slack(qu, o) \notin AuxVars
        BY NodeVariables
      <4>2. y \in AuxVars /\ v \notin Basics(qu)
        BY <1>0, <2>1, NodeVariables
      <4> QED
        BY <4>1, <4>2
    <3> QED
      BY <3>1, <3>2, <3>3 DEF PlainRowOf
  <2> HIDE DEF v
  <2>5. InfiniteOnRow(q, y) = {v}
    BY <2>2, RowBoundsHold
  <2>6. (RefusedQuery(n, qu, u) \/ Working(n, qu, u, T \ {y})) /\ HoldsStill(n, qu, q, u)
    BY <2>2, <2>3, <2>4, PlainStep
  <2> QED
    BY <2>5, <2>6
<1>3. CASE \E o \in qu.others : y = Slack(qu, o)
  <2>1. PICK o \in qu.others : y = Slack(qu, o)
    BY <1>3
  <2>2. Remaining(qu, q, y, y)
    BY <2>1, SlackRemaining
  <2>3. ~Active(q, y)
    <3>1. y >= NumNodes /\ y \in Int
      BY <2>1, NodeVariables
    <3> QED
      BY <3>1, PairFacts DEF Active
  <2>4. PlainRowOf(qu, y, y)
    <3>0. y \in Basics(qu) /\ y \notin AuxVars
      BY <2>1, NodeVariables
    <3>1. ASSUME NEW k \in Hidden, NEW l \in Node(k)
          PROVE  Aux(k, l) # y /\ B(k, l) # y /\ F(k, l) # y
      BY <3>0, NodeVariables, LayerIndices
    <3>2. ASSUME NEW l \in Outputs
          PROVE  Aux(LastLayer, l) = y <=> B(LastLayer, l) = y
      BY <1>0, <3>0, NodeVariables
    <3> QED
      BY <3>1, <3>2 DEF PlainRowOf
  <2>5. InfiniteOnRow(q, y) = {y}
    BY <2>2, RowBoundsHold
  <2>6. (RefusedQuery(n, qu, u) \/ Working(n, qu, u, T \ {y})) /\ HoldsStill(n, qu, q, u)
    BY <2>2, <2>3, <2>4, PlainStep
  <2> QED
    BY <2>5, <2>6
<1>4. \/ \E i \in 1 .. LastLayer : \E j \in Node(i) : y = Aux(i, j)
      \/ \E o \in qu.others : y = Slack(qu, o)
  BY BasicCases
<1>5. \A i \in 1 .. LastLayer : i \in Hidden \/ i = LastLayer
  BY LayerIndices
<1> QED
  BY <1>0, <1>1, <1>2, <1>3, <1>4, <1>5

-----------------------------------------------------------------------------
(***************************************************************************)
(* The query that a driver writes.                                         *)
(***************************************************************************)
\* Integer bounds for the inputs.
IsBox(bx) == \A s \in Inputs : bx[s].lower \in Int /\ bx[s].upper \in Int

\* The row of a node, as the driver writes it.
LEMMA NodeRowForm ==
  ASSUME NEW n, NEW qu, IsQuestion(qu), NEW i \in 1 .. LastLayer, NEW j \in Node(i)
  PROVE  IsNodeRow(NodeRow(n, qu, i, j), n, qu, i, j, B(i, j))
<1> DEFINE r == NodeRow(n, qu, i, j) c == Constant(qu) b == B(i, j) y == Aux(i, j)
<1>1. /\ b # y /\ b # c /\ y # c
      /\ \A s \in Node(i - 1) : F(i - 1, s) # y /\ F(i - 1, s) # b /\ F(i - 1, s) # c
  BY RowVariables DEF IsOwn
<1>2. DOMAIN r = {y, b, c} \cup Sources(i)
  BY DEF NodeRow, Sources
<1>3. r[y] = -1 /\ r[b] = -1 /\ r[c] = n.bias[i][j]
  BY <1>1 DEF NodeRow
<1>4. ASSUME NEW s \in Node(i - 1)
      PROVE  r[F(i - 1, s)] = n.weight[i][s][j]
  <2>1. F(i - 1, s) - F(i - 1, 0) = s
    <3>1. Start[(i - 1) + 1] \in Int /\ s \in Int
      BY StartFacts, NodeFinite, LayerIndices
    <3> QED
      BY <3>1 DEF F
  <2>2. r[F(i - 1, s)] = n.weight[i][F(i - 1, s) - F(i - 1, 0)][j]
    BY <1>1 DEF NodeRow
  <2> QED
    BY <2>1, <2>2
<1> QED
  BY <1>2, <1>3, <1>4 DEF IsNodeRow

\* The row of a slack variable, as the driver writes it.
LEMMA SlackRowForm ==
  ASSUME NEW qu, IsQuestion(qu), NEW o \in qu.others
  PROVE  IsSlackRow(SlackRow(qu, o), qu, o)
<1> DEFINE s == Slack(qu, o) t == B(LastLayer, qu.target) b == B(LastLayer, o)
<1>1. /\ qu.target \in Node(LastLayer) /\ o \in Node(LastLayer) /\ o # qu.target
      /\ LastLayer \in 1 .. LastLayer
  BY LayerIndices DEF IsQuestion
<1>2. t # b
  BY <1>1, Numbering
<1>3. s \in Basics(qu) /\ t \notin Basics(qu) /\ b \notin Basics(qu)
  BY <1>1, NodeVariables
<1> QED
  BY <1>2, <1>3 DEF SlackRow, IsSlackRow

\* All rows that the driver writes.
LEMMA BuildRowsForm ==
  ASSUME NEW n, NEW qu, IsQuestion(qu), NEW bx
  PROVE  RowsForm(n, qu, Build(n, qu, bx))
<1> DEFINE q == Build(n, qu, bx)
<1>1. q.rows = BuildRows(n, qu) /\ q.dissolved = [p \in Pairs |-> "no"]
  BY DEF Build
<1>2. DOMAIN q.rows = Basics(qu)
  BY <1>1 DEF BuildRows
<1>3. ASSUME NEW i \in 1 .. LastLayer, NEW j \in Node(i)
      PROVE  IsNodeRow(q.rows[Aux(i, j)], n, qu, i, j, Own(q, i, j))
  <2> DEFINE y == Aux(i, j)
             k == CHOOSE k \in 1 .. LastLayer : \E l \in Node(k) : y = Aux(k, l)
             l == CHOOSE l \in Node(k) : y = Aux(k, l)
  <2>1. y \in AuxVars /\ y \in Basics(qu)
    BY NodeVariables
  <2>2. k \in 1 .. LastLayer /\ \E m \in Node(k) : y = Aux(k, m)
    OBVIOUS
  <2>3. l \in Node(k) /\ y = Aux(k, l)
    BY <2>2
  <2>4. k = i /\ l = j
    <3> HIDE DEF k, l
    <3> QED
      BY <2>2, <2>3, Numbering
  <2>5. q.rows[y] = NodeRow(n, qu, k, l)
    BY <1>1, <2>1 DEF BuildRows
  <2>6. Own(q, i, j) = B(i, j)
    <3>1. i \in Hidden => <<B(i, j), F(i, j)>> \in Pairs
      BY PairFacts
    <3> QED
      BY <1>1, <3>1 DEF Own, Merged
  <2> HIDE DEF k, l, q
  <2> QED
    BY <2>4, <2>5, <2>6, NodeRowForm
<1>4. ASSUME NEW o \in qu.others
      PROVE  IsSlackRow(q.rows[Slack(qu, o)], qu, o)
  <2> DEFINE y == Slack(qu, o)
             m == CHOOSE m \in qu.others : y = Slack(qu, m)
  <2>1. y \notin AuxVars /\ y \in Basics(qu)
    BY NodeVariables
  <2>2. m \in qu.others /\ y = Slack(qu, m)
    OBVIOUS
  <2>3. m = o
    <3> HIDE DEF m
    <3> QED
      BY <2>2, SlackNumbers
  <2>4. q.rows[y] = SlackRow(qu, m)
    BY <1>1, <2>1 DEF BuildRows
  <2> HIDE DEF m, q
  <2> QED
    BY <2>3, <2>4, SlackRowForm
<1> QED
  BY <1>2, <1>3, <1>4 DEF RowsForm

\* The variables that the driver bounds from below and from above.
LowerVars(qu) ==
  {Constant(qu)} \union Inputs \union AuxVars \union {p[2] : p \in Pairs}
    \union (IF qu.side = "lower" THEN SlackVars(qu) ELSE {})
    \union (IF qu.side = "output" THEN {B(LastLayer, 0)} ELSE {})
\* Those that it bounds from above.
UpperVars(qu) ==
  {Constant(qu)} \union Inputs \union AuxVars
    \union (IF qu.side = "upper" THEN SlackVars(qu) ELSE {})

\* The other fields of a new query.
LEMMA BuildFields ==
  ASSUME NEW n, NEW qu, NEW bx, NEW q, q = Build(n, qu, bx)
  PROVE  /\ IsQuery(q) /\ Consistent(q)
         /\ q.assignment = [v \in Var(qu) |-> 0] /\ q.dissolved = [p \in Pairs |-> "no"]
         /\ q.lower = [v \in LowerVars(qu) |-> IF v = Constant(qu) THEN 1
                         ELSE IF v \in Inputs THEN bx[v].lower
                         ELSE IF v = B(LastLayer, 0) THEN qu.threshold ELSE 0]
         /\ q.upper = [v \in UpperVars(qu) |-> IF v = Constant(qu) THEN 1
                         ELSE IF v \in Inputs THEN bx[v].upper ELSE 0]
BY DEF Build, BuildLower, BuildUpper, LowerVars, UpperVars, IsQuery, Consistent

\* The bounded variables are variables of the query.
LEMMA BuildVars ==
  ASSUME NEW qu, IsQuestion(qu)
  PROVE  LowerVars(qu) \subseteq Var(qu) /\ UpperVars(qu) \subseteq Var(qu)
<1>1. Constant(qu) \in Var(qu) /\ Inputs \subseteq Var(qu) /\ AuxVars \subseteq Var(qu)
  BY NodeVariables
<1>2. SlackVars(qu) \subseteq Var(qu)
  BY NodeVariables DEF SlackVars
<1>3. \A p \in Pairs : p[2] \in Var(qu)
  BY PairFacts, NodeVariables
<1>4. B(LastLayer, 0) \in Var(qu)
  BY NodeVariables, NodeFinite, LayerIndices
<1> QED
  BY <1>1, <1>2, <1>3, <1>4 DEF LowerVars, UpperVars

\* A new query is of the form that the experiments need.
LEMMA BuildForm ==
  ASSUME NEW n, IsNetwork(n), NEW qu, IsQuestion(qu), NEW bx, IsBox(bx)
  PROVE  QueryForm(n, qu, Build(n, qu, bx))
<1> DEFINE q == Build(n, qu, bx)
<1>1. RowsForm(n, qu, q)
  BY BuildRowsForm
<1>2. /\ IsQuery(q)
      /\ q.assignment = [v \in Var(qu) |-> 0] /\ q.dissolved = [p \in Pairs |-> "no"]
      /\ q.lower = [v \in LowerVars(qu) |-> IF v = Constant(qu) THEN 1
                         ELSE IF v \in Inputs THEN bx[v].lower
                         ELSE IF v = B(LastLayer, 0) THEN qu.threshold ELSE 0]
      /\ q.upper = [v \in UpperVars(qu) |-> IF v = Constant(qu) THEN 1
                         ELSE IF v \in Inputs THEN bx[v].upper ELSE 0]
  BY BuildFields
<1>3. DOMAIN q.lower \subseteq Var(qu) /\ DOMAIN q.upper \subseteq Var(qu)
  BY <1>2, BuildVars
<1>4. qu.threshold \in Int
  BY DEF IsQuestion
<1> HIDE DEF q
<1>5. IntOn(q.lower, DOMAIN q.lower) /\ IntOn(q.upper, DOMAIN q.upper)
  BY <1>2, <1>4 DEF IntOn, IsBox
<1>6. Equations(qu, q)
  <2> SUFFICES ASSUME NEW y \in Basics(qu)
               PROVE  Dot(q.rows[y], q.assignment, DOMAIN q.rows[y]) = 0
    BY DEF Equations
  <2>1. RowOk(qu, q.rows[y], y)
    BY <1>1, RowsOk
  <2> DEFINE r == q.rows[y] a == q.assignment
  <2>2. IsFiniteSet(DOMAIN r) /\ IntOn(r, DOMAIN r) /\ DOMAIN r \subseteq Var(qu)
    BY <2>1 DEF RowOk
  <2>3. \A x \in DOMAIN r : a[x] = 0
    BY <1>2, <2>2
  <2> HIDE DEF r, a
  <2>4. IntOn(a, DOMAIN r) /\ \A x \in DOMAIN r : r[x] * a[x] = 0
    BY <2>2, <2>3 DEF IntOn
  <2>5. Dot(r, a, DOMAIN r) = 0
    BY <2>2, <2>4, DotZero
  <2> QED
    BY <2>5 DEF r, a
<1>7. QueryForm(n, qu, q)
  BY <1>1, <1>2, <1>3, <1>5, <1>6 DEF QueryForm
<1> QED
  BY <1>7 DEF q

\* The bounds before any row was visited.
Initial(qu, q) ==
  /\ \A v \in Inputs \cup {Constant(qu)} \cup AuxVars : Finite(q, v)
  /\ \A i \in Hidden : \A j \in Node(i) : Unvisited(q, i, j)
  /\ \A j \in Outputs : B(LastLayer, j) \notin DOMAIN q.upper
  /\ \A o \in qu.others : ~Finite(q, Slack(qu, o))

\* The bounds that a driver writes.
FirstBounds(qu, bx, q) ==
  /\ q.dissolved = [p \in Pairs |-> "no"]
  /\ q.lower = [v \in LowerVars(qu) |-> IF v = Constant(qu) THEN 1
                     ELSE IF v \in Inputs THEN bx[v].lower
                     ELSE IF v = B(LastLayer, 0) THEN qu.threshold ELSE 0]
  /\ q.upper = [v \in UpperVars(qu) |-> IF v = Constant(qu) THEN 1
                     ELSE IF v \in Inputs THEN bx[v].upper ELSE 0]

\* They are the bounds of a new query.
LEMMA BuildBounds == \A n, qu, bx : FirstBounds(qu, bx, Build(n, qu, bx))
BY DEF Build, BuildLower, BuildUpper, LowerVars, UpperVars, FirstBounds

\* Which variables are bounded at first.
LEMMA FirstBounded ==
  ASSUME NEW qu, IsQuestion(qu)
  PROVE  /\ \A i \in Hidden : \A j \in Node(i) :
              /\ B(i, j) \notin LowerVars(qu) /\ B(i, j) \notin UpperVars(qu)
              /\ F(i, j) \in LowerVars(qu) /\ F(i, j) \notin UpperVars(qu)
              /\ F(i, j) # B(LastLayer, 0) /\ F(i, j) # Constant(qu) /\ F(i, j) \notin Inputs
         /\ \A j \in Outputs : B(LastLayer, j) \notin UpperVars(qu)
         /\ \A o \in qu.others : ~(Slack(qu, o) \in LowerVars(qu) /\ Slack(qu, o) \in UpperVars(qu))
<1>0. /\ \A i \in Hidden : i \in 1 .. LastLayer /\ i # LastLayer
      /\ LastLayer \in 1 .. LastLayer /\ Outputs = Node(LastLayer) /\ 0 \in Node(LastLayer)
  BY LayerIndices, NodeFinite
<1>1. \A i \in 1 .. LastLayer : \A j \in Node(i) :
        /\ B(i, j) \notin SlackVars(qu) /\ B(i, j) # Constant(qu) /\ B(i, j) \notin Inputs
        /\ B(i, j) \notin AuxVars /\ B(i, j) \notin {p[2] : p \in Pairs}
  <2> SUFFICES ASSUME NEW i \in 1 .. LastLayer, NEW j \in Node(i)
               PROVE  /\ B(i, j) \notin SlackVars(qu) /\ B(i, j) # Constant(qu)
                      /\ B(i, j) \notin Inputs
                      /\ B(i, j) \notin AuxVars /\ B(i, j) \notin {p[2] : p \in Pairs}
    OBVIOUS
  <2>1. /\ B(i, j) \notin Basics(qu) /\ B(i, j) # Constant(qu) /\ B(i, j) \notin Inputs
        /\ B(i, j) \notin AuxVars
    BY NodeVariables
  <2>2. B(i, j) \notin SlackVars(qu)
    BY <2>1 DEF Basics
  <2>3. ASSUME NEW p \in Pairs PROVE B(i, j) # p[2]
    <3>1. PICK k \in Hidden : \E l \in Node(k) : p = <<B(k, l), F(k, l)>>
      BY PairFacts
    <3>2. PICK l \in Node(k) : p = <<B(k, l), F(k, l)>>
      BY <3>1
    <3>3. p[2] = F(k, l)
      BY <3>2
    <3>4. F(k, l) # B(i, j)
      BY NodeVariables
    <3> QED
      BY <3>3, <3>4
  <2> QED
    BY <2>1, <2>2, <2>3
<1>2. ASSUME NEW i \in Hidden, NEW j \in Node(i)
      PROVE  /\ B(i, j) \notin LowerVars(qu) /\ B(i, j) \notin UpperVars(qu)
             /\ F(i, j) \in LowerVars(qu) /\ F(i, j) \notin UpperVars(qu)
             /\ F(i, j) # B(LastLayer, 0) /\ F(i, j) # Constant(qu) /\ F(i, j) \notin Inputs
  <2>1. B(i, j) # B(LastLayer, 0)
    BY <1>0, Numbering
  <2>2. B(i, j) \notin LowerVars(qu) /\ B(i, j) \notin UpperVars(qu)
    BY <1>0, <1>1, <2>1 DEF LowerVars, UpperVars
  <2>3. F(i, j) \in LowerVars(qu)
    <3>1. <<B(i, j), F(i, j)>> \in Pairs /\ <<B(i, j), F(i, j)>>[2] = F(i, j)
      BY PairFacts
    <3>2. F(i, j) \in {p[2] : p \in Pairs}
      BY <3>1
    <3> QED
      BY <3>2 DEF LowerVars
  <2>4. /\ F(i, j) \notin Basics(qu) /\ F(i, j) # Constant(qu) /\ F(i, j) \notin Inputs
        /\ F(i, j) \notin AuxVars /\ F(i, j) # B(LastLayer, 0)
    BY <1>0, NodeVariables
  <2>5. F(i, j) \notin UpperVars(qu)
    BY <2>4 DEF UpperVars, Basics
  <2> QED
    BY <2>2, <2>3, <2>4, <2>5
<1>3. \A j \in Outputs : B(LastLayer, j) \notin UpperVars(qu)
  BY <1>0, <1>1 DEF UpperVars
<1>4. ASSUME NEW o \in qu.others, Slack(qu, o) \in LowerVars(qu), Slack(qu, o) \in UpperVars(qu)
      PROVE  FALSE
  <2>1. /\ Slack(qu, o) # Constant(qu) /\ Slack(qu, o) \notin Inputs /\ Slack(qu, o) \notin AuxVars
    BY NodeVariables
  <2>2. qu.side = "upper"
    BY <1>4, <2>1 DEF UpperVars
  <2>3. Slack(qu, o) \notin {p[2] : p \in Pairs}
    <3> SUFFICES ASSUME NEW p \in Pairs PROVE Slack(qu, o) # p[2]
      OBVIOUS
    <3>1. PICK k \in Hidden : \E l \in Node(k) : p = <<B(k, l), F(k, l)>>
      BY PairFacts
    <3>2. PICK l \in Node(k) : p = <<B(k, l), F(k, l)>>
      BY <3>1
    <3>3. p[2] = F(k, l)
      BY <3>2
    <3>4. F(k, l) \notin Basics(qu) /\ Slack(qu, o) \in Basics(qu)
      BY NodeVariables
    <3> QED
      BY <3>3, <3>4
  <2> QED
    BY <1>4, <2>1, <2>2, <2>3 DEF LowerVars
<1> QED
  BY <1>2, <1>3, <1>4

\* A new query has no row visited.
LEMMA BuildInitial ==
  ASSUME NEW n, NEW qu, IsQuestion(qu), NEW bx
  PROVE  Initial(qu, Build(n, qu, bx))
<1> DEFINE q == Build(n, qu, bx)
<1>0. FirstBounds(qu, bx, q)
  BY BuildBounds
<1> HIDE DEF q
<1>1. /\ q.dissolved = [p \in Pairs |-> "no"]
      /\ q.lower = [v \in LowerVars(qu) |-> IF v = Constant(qu) THEN 1
                         ELSE IF v \in Inputs THEN bx[v].lower
                         ELSE IF v = B(LastLayer, 0) THEN qu.threshold ELSE 0]
      /\ q.upper = [v \in UpperVars(qu) |-> IF v = Constant(qu) THEN 1
                         ELSE IF v \in Inputs THEN bx[v].upper ELSE 0]
  BY <1>0 DEF FirstBounds
<1>2. DOMAIN q.lower = LowerVars(qu) /\ DOMAIN q.upper = UpperVars(qu)
  BY <1>1
<1>3. \A v \in Inputs \cup {Constant(qu)} \cup AuxVars : Finite(q, v)
  BY <1>2 DEF Finite, LowerVars, UpperVars
<1>4. ASSUME NEW i \in Hidden, NEW j \in Node(i)
      PROVE  Unvisited(q, i, j)
  <2>1. q.dissolved[<<B(i, j), F(i, j)>>] = "no"
    BY <1>1, PairFacts
  <2>2. /\ B(i, j) \notin LowerVars(qu) /\ B(i, j) \notin UpperVars(qu)
        /\ F(i, j) \in LowerVars(qu) /\ F(i, j) \notin UpperVars(qu)
        /\ F(i, j) # B(LastLayer, 0) /\ F(i, j) # Constant(qu) /\ F(i, j) \notin Inputs
    BY FirstBounded
  <2>3. q.lower[F(i, j)] = 0
    BY <1>1, <2>2
  <2> QED
    BY <1>2, <2>1, <2>2, <2>3 DEF Unvisited
<1>5. \A j \in Outputs : B(LastLayer, j) \notin DOMAIN q.upper
  BY <1>2, FirstBounded
<1>6. \A o \in qu.others : ~Finite(q, Slack(qu, o))
  BY <1>2, FirstBounded DEF Finite
<1>7. Initial(qu, q)
  BY <1>3, <1>4, <1>5, <1>6 DEF Initial
<1> QED
  BY <1>7 DEF q

\* The bounds that a driver writes for variables that do not state the question.
LEMMA BuildUnasked ==
  ASSUME NEW n, IsNetwork(n), NEW qu, IsQuestion(qu), NEW bx, IsBox(bx),
         NEW x \in [Inputs -> Int], InBox(x, bx), NEW q, q = Build(n, qu, bx)
  PROVE  /\ LowerHold(q.lower, Val(n, qu, x), Asked(qu))
         /\ UpperHold(q.upper, Val(n, qu, x), Asked(qu))
<1> DEFINE a == Val(n, qu, x)
<1>0. FirstBounds(qu, bx, q)
  BY BuildBounds
<1>1. /\ q.lower = [v \in LowerVars(qu) |-> IF v = Constant(qu) THEN 1
                         ELSE IF v \in Inputs THEN bx[v].lower
                         ELSE IF v = B(LastLayer, 0) THEN qu.threshold ELSE 0]
      /\ q.upper = [v \in UpperVars(qu) |-> IF v = Constant(qu) THEN 1
                         ELSE IF v \in Inputs THEN bx[v].upper ELSE 0]
  BY <1>0 DEF FirstBounds
<1>2. /\ a[Constant(qu)] = 1 /\ \A y \in AuxVars : a[y] = 0
      /\ \A s \in Inputs : bx[s].lower <= a[s] /\ a[s] <= bx[s].upper
  BY ValFacts DEF InBox
<1>3. ASSUME NEW p \in Pairs PROVE a[p[2]] \in Int /\ 0 <= a[p[2]] /\ p[2] # B(LastLayer, 0)
  <2>1. PICK k \in Hidden : \E l \in Node(k) : p = <<B(k, l), F(k, l)>>
    BY PairFacts
  <2>2. PICK l \in Node(k) : p = <<B(k, l), F(k, l)>>
    BY <2>1
  <2>3. p[2] = F(k, l) /\ k \in 1 .. LastLayer
    BY <2>2, LayerIndices
  <2>4. a[F(k, l)] = Relu(Pre(n, x, k, l)) /\ Pre(n, x, k, l) \in Int
    BY <2>3, ValFacts, PreFacts
  <2>5. F(k, l) # B(LastLayer, 0)
    BY FirstBounded
  <2> QED
    BY <2>3, <2>4, <2>5 DEF Relu
<1>4. \A v \in AuxVars : v # B(LastLayer, 0) /\ v \notin Inputs /\ v # Constant(qu)
  BY NodeVariables, LayerIndices, NodeFinite
<1>5. \A s \in Inputs : s # Constant(qu)
  BY NodeVariables
<1>6. LowerVars(qu) \ Asked(qu) \subseteq {Constant(qu)} \union Inputs \union AuxVars \union {p[2] : p \in Pairs}
  BY DEF LowerVars, Asked
<1>7. UpperVars(qu) \ Asked(qu) \subseteq {Constant(qu)} \union Inputs \union AuxVars
  BY DEF UpperVars, Asked
<1>8. \A p \in Pairs : p[2] # Constant(qu) /\ p[2] \notin Inputs
  <2> SUFFICES ASSUME NEW p \in Pairs PROVE p[2] # Constant(qu) /\ p[2] \notin Inputs
    OBVIOUS
  <2>1. PICK k \in Hidden : \E l \in Node(k) : p = <<B(k, l), F(k, l)>>
    BY PairFacts
  <2>2. PICK l \in Node(k) : p = <<B(k, l), F(k, l)>>
    BY <2>1
  <2>3. p[2] = F(k, l)
    BY <2>2
  <2> QED
    BY <2>3, NodeVariables
<1> HIDE DEF a
<1>9. LowerHold(q.lower, a, Asked(qu))
  <2> SUFFICES ASSUME NEW v \in LowerVars(qu), v \notin Asked(qu) PROVE q.lower[v] <= a[v]
    BY <1>1 DEF LowerHold
  <2>1. CASE v = Constant(qu)
    BY <2>1, <1>1, <1>2
  <2>2. CASE v \in Inputs
    BY <2>2, <1>1, <1>2, <1>5
  <2>3. CASE v \in AuxVars
    BY <2>3, <1>1, <1>2, <1>4
  <2>4. CASE v \in {p[2] : p \in Pairs}
    BY <2>4, <1>1, <1>3, <1>8
  <2> QED
    BY <1>6, <2>1, <2>2, <2>3, <2>4
<1>10. UpperHold(q.upper, a, Asked(qu))
  <2> SUFFICES ASSUME NEW v \in UpperVars(qu), v \notin Asked(qu) PROVE a[v] <= q.upper[v]
    BY <1>1 DEF UpperHold
  <2>1. CASE v = Constant(qu)
    BY <2>1, <1>1, <1>2
  <2>2. CASE v \in Inputs
    BY <2>2, <1>1, <1>2, <1>5
  <2>3. CASE v \in AuxVars
    BY <2>3, <1>1, <1>2, <1>4
  <2> QED
    BY <1>7, <2>1, <2>2, <2>3
<1> QED
  BY <1>9, <1>10 DEF a

\* The bounds of the variables in S, and those of the others.
LEMMA HoldParts ==
  ASSUME NEW bounds, NEW a, NEW S
  PROVE  /\ LowerHold(bounds, a, {}) <=>
              LowerHold(bounds, a, S) /\ \A v \in S \cap DOMAIN bounds : bounds[v] <= a[v]
         /\ UpperHold(bounds, a, {}) <=>
              UpperHold(bounds, a, S) /\ \A v \in S \cap DOMAIN bounds : a[v] <= bounds[v]
BY DEF LowerHold, UpperHold

\* The bounds that state the question hold when the outputs answer it.
LEMMA BuildAsked ==
  ASSUME NEW n, IsNetwork(n), NEW qu, IsQuestion(qu), NEW bx,
         NEW x \in [Inputs -> Int], NEW q, q = Build(n, qu, bx)
  PROVE  /\ \A v \in Asked(qu) \cap DOMAIN q.lower : q.lower[v] <= Val(n, qu, x)[v]
         /\ \A v \in Asked(qu) \cap DOMAIN q.upper : Val(n, qu, x)[v] <= q.upper[v]
         <=> Answers(qu, Evaluate(n, x))
<1> DEFINE a == Val(n, qu, x) out == Evaluate(n, x)
<1>1. FirstBounds(qu, bx, q)
  BY BuildBounds
<1>2. /\ q.lower = [v \in LowerVars(qu) |-> IF v = Constant(qu) THEN 1
                         ELSE IF v \in Inputs THEN bx[v].lower
                         ELSE IF v = B(LastLayer, 0) THEN qu.threshold ELSE 0]
      /\ q.upper = [v \in UpperVars(qu) |-> IF v = Constant(qu) THEN 1
                         ELSE IF v \in Inputs THEN bx[v].upper ELSE 0]
  BY <1>1 DEF FirstBounds
<1>3. /\ LastLayer \in 1 .. LastLayer /\ Outputs = Node(LastLayer) /\ 0 \in Node(LastLayer)
  BY LayerIndices, NodeFinite
<1>4. /\ qu.target \in Outputs /\ qu.others \subseteq Outputs \ {qu.target}
      /\ qu.side \in {"lower", "upper", "output"}
      /\ qu.side = "output" => qu.target = 0 /\ qu.others = {}
  BY DEF IsQuestion
<1>5. \A j \in Outputs : a[B(LastLayer, j)] = out[j] /\ out[j] \in Int /\ Pre(n, x, LastLayer, j) = out[j]
  BY <1>3, ValFacts, PreFacts
<1>6. \A o \in qu.others : a[Slack(qu, o)] = out[qu.target] - out[o]
  BY <1>4, <1>5, ValFacts
<1>7. /\ B(LastLayer, 0) # Constant(qu) /\ B(LastLayer, 0) \notin Inputs
      /\ B(LastLayer, 0) \notin Basics(qu)
  BY <1>3, NodeVariables
<1>8. \A v \in SlackVars(qu) : v # Constant(qu) /\ v \notin Inputs /\ v # B(LastLayer, 0) /\ v \notin AuxVars
  BY <1>7, NodeVariables DEF SlackVars
<1>9. \A p \in Pairs : p[2] \notin SlackVars(qu)
  <2> SUFFICES ASSUME NEW p \in Pairs PROVE p[2] \notin SlackVars(qu)
    OBVIOUS
  <2>1. PICK k \in Hidden : \E l \in Node(k) : p = <<B(k, l), F(k, l)>>
    BY PairFacts
  <2>2. PICK l \in Node(k) : p = <<B(k, l), F(k, l)>>
    BY <2>1
  <2>3. p[2] = F(k, l)
    BY <2>2
  <2> QED
    BY <2>3, NodeVariables DEF Basics
<1>10. /\ DOMAIN q.lower = LowerVars(qu) /\ DOMAIN q.upper = UpperVars(qu)
  BY <1>2
<1> HIDE DEF a, out
<1>11. CASE qu.side = "output"
  <2>1. Asked(qu) \cap LowerVars(qu) = {B(LastLayer, 0)} /\ Asked(qu) \cap UpperVars(qu) = {}
    <3>1. Asked(qu) = {B(LastLayer, 0)} /\ B(LastLayer, 0) \in LowerVars(qu)
      BY <1>11 DEF Asked, LowerVars
    <3>2. B(LastLayer, 0) \notin UpperVars(qu)
      BY <1>3, FirstBounded
    <3> QED
      BY <3>1, <3>2
  <2>2. q.lower[B(LastLayer, 0)] = qu.threshold
    BY <1>2, <1>7, <2>1
  <2>3. a[B(LastLayer, 0)] = out[0] /\ out[0] \in Int
    BY <1>3, <1>5
  <2>4. Answers(qu, out) <=> out[0] >= qu.threshold
    BY <1>11 DEF Answers
  <2>5. qu.threshold \in Int
    BY DEF IsQuestion
  <2>6. (/\ \A v \in Asked(qu) \cap DOMAIN q.lower : q.lower[v] <= a[v]
         /\ \A v \in Asked(qu) \cap DOMAIN q.upper : a[v] <= q.upper[v])
        <=> Answers(qu, out)
    BY <1>10, <2>1, <2>2, <2>3, <2>4, <2>5
  <2> QED
    BY <2>6 DEF a, out
<1>12. CASE qu.side = "lower"
  <2>1. Asked(qu) \cap LowerVars(qu) = SlackVars(qu) /\ Asked(qu) \cap UpperVars(qu) = {}
    BY <1>8, <1>12 DEF Asked, LowerVars, UpperVars
  <2>2. \A o \in qu.others : q.lower[Slack(qu, o)] = 0 /\ Slack(qu, o) \in SlackVars(qu)
    BY <1>2, <1>8, <2>1 DEF SlackVars
  <2>3. Answers(qu, out) <=> \A o \in qu.others : out[qu.target] >= out[o]
    BY <1>4, <1>12 DEF Answers
  <2>4. \A o \in qu.others : q.lower[Slack(qu, o)] <= a[Slack(qu, o)] <=> out[qu.target] >= out[o]
    BY <1>4, <1>5, <1>6, <2>2
  <2>5. (\A v \in SlackVars(qu) : q.lower[v] <= a[v])
          <=> \A o \in qu.others : q.lower[Slack(qu, o)] <= a[Slack(qu, o)]
    BY DEF SlackVars
  <2>6. (/\ \A v \in Asked(qu) \cap DOMAIN q.lower : q.lower[v] <= a[v]
         /\ \A v \in Asked(qu) \cap DOMAIN q.upper : a[v] <= q.upper[v])
        <=> Answers(qu, out)
    BY <1>10, <2>1, <2>3, <2>4, <2>5
  <2> QED
    BY <2>6 DEF a, out
<1>13. CASE qu.side = "upper"
  <2>1. Asked(qu) \cap UpperVars(qu) = SlackVars(qu) /\ Asked(qu) \cap LowerVars(qu) = {}
    BY <1>8, <1>9, <1>13 DEF Asked, LowerVars, UpperVars
  <2>2. \A o \in qu.others : q.upper[Slack(qu, o)] = 0 /\ Slack(qu, o) \in SlackVars(qu)
    BY <1>2, <1>8, <2>1 DEF SlackVars
  <2>3. Answers(qu, out) <=> \A o \in qu.others : out[qu.target] <= out[o]
    BY <1>4, <1>13 DEF Answers
  <2>4. \A o \in qu.others : a[Slack(qu, o)] <= q.upper[Slack(qu, o)] <=> out[qu.target] <= out[o]
    BY <1>4, <1>5, <1>6, <2>2
  <2>5. (\A v \in SlackVars(qu) : a[v] <= q.upper[v])
          <=> \A o \in qu.others : a[Slack(qu, o)] <= q.upper[Slack(qu, o)]
    BY DEF SlackVars
  <2>6. (/\ \A v \in Asked(qu) \cap DOMAIN q.lower : q.lower[v] <= a[v]
         /\ \A v \in Asked(qu) \cap DOMAIN q.upper : a[v] <= q.upper[v])
        <=> Answers(qu, out)
    BY <1>10, <2>1, <2>3, <2>4, <2>5
  <2> QED
    BY <2>6 DEF a, out
<1> QED
  BY <1>4, <1>11, <1>12, <1>13

\* A new query says of an input what it should.
LEMMA BuildHolds ==
  ASSUME NEW n, IsNetwork(n), NEW qu, IsQuestion(qu), NEW bx, IsBox(bx),
         NEW x \in [Inputs -> Int], InBox(x, bx)
  PROVE  Holds(n, qu, Build(n, qu, bx), x)
<1> DEFINE a == Val(n, qu, x)
<1>0. PICK q : q = Build(n, qu, bx)
  OBVIOUS
<1>1. LowerHold(q.lower, a, Asked(qu)) /\ UpperHold(q.upper, a, Asked(qu))
  BY <1>0, BuildUnasked
<1>2. (/\ \A v \in Asked(qu) \cap DOMAIN q.lower : q.lower[v] <= a[v]
       /\ \A v \in Asked(qu) \cap DOMAIN q.upper : a[v] <= q.upper[v])
      <=> Answers(qu, Evaluate(n, x))
  BY <1>0, BuildAsked
<1>3. MergedActive(n, q, x)
  <2> SUFFICES ASSUME NEW i \in Hidden, NEW j \in Node(i) PROVE ~Merged(q, i, j)
    BY DEF MergedActive
  <2>1. q.dissolved = [p \in Pairs |-> "no"]
    BY <1>0, BuildBounds DEF FirstBounds
  <2>2. <<B(i, j), F(i, j)>> \in Pairs
    BY PairFacts
  <2> QED
    BY <2>1, <2>2 DEF Merged
<1> HIDE DEF a
<1>4. WithinBounds(q, a) <=> Answers(qu, Evaluate(n, x))
  <2>1. LowerHold(q.lower, a, {}) <=>
          LowerHold(q.lower, a, Asked(qu)) /\ \A v \in Asked(qu) \cap DOMAIN q.lower : q.lower[v] <= a[v]
    BY HoldParts
  <2>2. UpperHold(q.upper, a, {}) <=>
          UpperHold(q.upper, a, Asked(qu)) /\ \A v \in Asked(qu) \cap DOMAIN q.upper : a[v] <= q.upper[v]
    BY HoldParts
  <2> QED
    BY <1>1, <1>2, <2>1, <2>2, WithinBoundsIs
<1>5. Holds(n, qu, q, x)
  BY <1>1, <1>3, <1>4 DEF Holds, LowerHold, UpperHold, a
<1> QED
  BY <1>0, <1>5

-----------------------------------------------------------------------------
(***************************************************************************)
(* initialUpdate.                                                          *)
(***************************************************************************)
\* A value in the bounds, for a non-basic variable that is out of them.
InBounds(q, v) == IF TooLow(q, v) THEN q.lower[v]
                  ELSE IF TooHigh(q, v) THEN q.upper[v]
                  ELSE q.assignment[v]
\* How far initialUpdate moves the variables.
Deltas(q) == [v \in Vars(q) |-> InBounds(q, v) - q.assignment[v]]
\* The assignment after initialUpdate.
InitialAssignment(q) ==
  [v \in Vars(q) |->
     IF NonBasic(q, v) THEN InBounds(q, v)
     ELSE q.assignment[v] + Dot(q.rows[v], Deltas(q), DOMAIN q.rows[v] \ DOMAIN q.rows)]

\* initialUpdate finds crossing bounds, or changes the assignment only.
LEMMA InitialUpdateFields ==
  ASSUME NEW q, IsQuery(q), NEW u, u = InitialUpdate(q)
  PROVE  IF \E v \in Vars(q) : ~BoundInvariantHolds(q, v)
         THEN u = [q EXCEPT !.consistent = FALSE]
         ELSE /\ IsQuery(u) /\ Consistent(u)
              /\ u.rows = q.rows /\ u.lower = q.lower /\ u.upper = q.upper
              /\ u.dissolved = q.dissolved
              /\ u.assignment = InitialAssignment(q)
<1>1. u = IF \E v \in Vars(q) : ~BoundInvariantHolds(q, v) THEN [q EXCEPT !.consistent = FALSE]
          ELSE [q EXCEPT !.consistent = TRUE, !.assignment = InitialAssignment(q)]
  BY DEF InitialUpdate, InitialAssignment, InBounds, Deltas
<1> DEFINE c == InitialAssignment(q)
<1> HIDE DEF c
<1>2. ASSUME u = [q EXCEPT !.consistent = TRUE, !.assignment = c]
      PROVE  /\ IsQuery(u) /\ Consistent(u)
             /\ u.rows = q.rows /\ u.lower = q.lower /\ u.upper = q.upper
             /\ u.dissolved = q.dissolved
             /\ u.assignment = c
  <2>1. q = [rows |-> q.rows, lower |-> q.lower, upper |-> q.upper,
             assignment |-> q.assignment, dissolved |-> q.dissolved, consistent |-> q.consistent]
    BY DEF IsQuery
  <2>2. u = [rows |-> q.rows, lower |-> q.lower, upper |-> q.upper,
             assignment |-> c, dissolved |-> q.dissolved, consistent |-> TRUE]
    BY <1>2, <2>1
  <2> QED
    BY <2>2 DEF IsQuery, Consistent
<1> QED
  BY <1>1, <1>2 DEF c

\* A row keeps its value when its basic variable follows the others.
LEMMA RowFollows ==
  ASSUME NEW X, IsFiniteSet(X), NEW y \in X, NEW r, IntOn(r, X), r[y] = -1,
         NEW a, IntOn(a, X), Dot(r, a, X) = 0,
         NEW d, IntOn(d, X \ {y}), NEW b,
         \A v \in X \ {y} : b[v] = a[v] + d[v],
         b[y] = a[y] + Dot(r, d, X \ {y})
  PROVE  Dot(r, b, X) = 0
<1> DEFINE Y == X \ {y}
<1>1. IsFiniteSet(Y) /\ IntOn(r, Y) /\ IntOn(a, Y) /\ IntOn(d, Y)
  BY FS_RemoveElement DEF IntOn
<1>2. Dot(r, d, Y) \in Int /\ Dot(r, a, Y) \in Int
  BY <1>1, DotInt
<1>3. IntOn(b, Y) /\ IntOn(b, X)
  <2>1. \A v \in Y : b[v] \in Int
    BY <1>1 DEF IntOn
  <2>2. b[y] \in Int
    BY <1>2 DEF IntOn
  <2> QED
    BY <2>1, <2>2 DEF IntOn
<1>4. \A v \in Y : r[v] * b[v] = r[v] * a[v] + 1 * (r[v] * d[v])
  <2> SUFFICES ASSUME NEW v \in Y PROVE r[v] * b[v] = r[v] * a[v] + 1 * (r[v] * d[v])
    OBVIOUS
  <2>1. r[v] \in Int /\ a[v] \in Int /\ d[v] \in Int /\ b[v] = a[v] + d[v]
    BY <1>1 DEF IntOn
  <2>2. \A p, s, t \in Int : p * (s + t) = p * s + 1 * (p * t)
    OBVIOUS
  <2> QED
    BY <2>1, <2>2
<1>5. Dot(r, b, Y) = Dot(r, a, Y) + 1 * Dot(r, d, Y)
  <2>1. 1 \in Int
    OBVIOUS
  <2> HIDE DEF Y
  <2> QED
    BY <1>1, <1>3, <1>4, <2>1, DotCombines
<1>6. /\ Dot(r, b, X) = r[y] * b[y] + Dot(r, b, Y)
      /\ Dot(r, a, X) = r[y] * a[y] + Dot(r, a, Y)
  BY <1>3, DotRemove
<1>7. a[y] \in Int
  BY DEF IntOn
<1> HIDE DEF Y
<1>8. b[y] = a[y] + Dot(r, d, Y)
  BY DEF Y
<1> QED
  BY <1>2, <1>5, <1>6, <1>7, <1>8

\* A non-basic variable is moved into its bounds, if they do not cross.
LEMMA InBoundsIs ==
  ASSUME NEW q, NEW v, q.assignment[v] \in Int, BoundInvariantHolds(q, v),
         IntOn(q.lower, DOMAIN q.lower), IntOn(q.upper, DOMAIN q.upper)
  PROVE  InBounds(q, v) \in Int /\ Allows(q, v, InBounds(q, v))
BY DEF InBounds, TooLow, TooHigh, Allows, IntOn, BoundInvariantHolds, Finite

\* That assignment satisfies the rows, and the non-basic variables' bounds.
LEMMA InitialAssignmentForm ==
  ASSUME NEW n, IsNetwork(n), NEW qu, IsQuestion(qu), NEW q, QueryForm(n, qu, q),
         \A v \in Var(qu) : BoundInvariantHolds(q, v)
  PROVE  /\ InitialAssignment(q) \in [Var(qu) -> Int]
         /\ \A v \in Var(qu) \ Basics(qu) : InitialAssignment(q)[v] = InBounds(q, v)
         /\ \A v \in Var(qu) \ Basics(qu) : Allows(q, v, InBounds(q, v))
         /\ \A y \in Basics(qu) : Dot(q.rows[y], InitialAssignment(q), DOMAIN q.rows[y]) = 0
<1> DEFINE a == q.assignment b == InitialAssignment(q) d == Deltas(q)
<1>1. /\ a \in [Var(qu) -> Int] /\ Vars(q) = Var(qu) /\ DOMAIN q.rows = Basics(qu)
      /\ IntOn(q.lower, DOMAIN q.lower) /\ IntOn(q.upper, DOMAIN q.upper)
  BY DEF QueryForm, RowsForm, Vars
<1>2. \A v \in Var(qu) : InBounds(q, v) \in Int /\ Allows(q, v, InBounds(q, v))
  BY <1>1, InBoundsIs
<1>3. d \in [Var(qu) -> Int] /\ \A v \in Var(qu) : d[v] = InBounds(q, v) - a[v]
  BY <1>1, <1>2 DEF Deltas
<1>4. ASSUME NEW y \in Basics(qu)
      PROVE  /\ RowOk(qu, q.rows[y], y)
             /\ DOMAIN q.rows[y] \ DOMAIN q.rows = DOMAIN q.rows[y] \ {y}
             /\ DOMAIN q.rows[y] \ {y} \subseteq Var(qu) \ Basics(qu)
             /\ Dot(q.rows[y], d, DOMAIN q.rows[y] \ {y}) \in Int
  <2>1. RowOk(qu, q.rows[y], y)
    BY RowsOk DEF QueryForm
  <2> DEFINE r == q.rows[y]
  <2>2. /\ IsFiniteSet(DOMAIN r) /\ IntOn(r, DOMAIN r) /\ DOMAIN r \subseteq Var(qu)
        /\ DOMAIN r \cap Basics(qu) = {y}
    BY <2>1 DEF RowOk
  <2> HIDE DEF r, d
  <2>3. DOMAIN r \ DOMAIN q.rows = DOMAIN r \ {y} /\ DOMAIN r \ {y} \subseteq Var(qu) \ Basics(qu)
    BY <1>1, <2>2
  <2>4. IsFiniteSet(DOMAIN r \ {y}) /\ IntOn(r, DOMAIN r \ {y}) /\ IntOn(d, DOMAIN r \ {y})
    BY <1>3, <2>2, <2>3, FS_RemoveElement DEF IntOn
  <2>5. Dot(r, d, DOMAIN r \ {y}) \in Int
    BY <2>4, DotInt
  <2> QED
    BY <2>1, <2>3, <2>5 DEF r
<1>5. DOMAIN b = Var(qu) /\ \A v \in Var(qu) \ Basics(qu) : b[v] = InBounds(q, v)
  BY <1>1 DEF InitialAssignment, NonBasic
<1>6. \A y \in Basics(qu) : y \in Var(qu)
  BY <1>4 DEF RowOk
<1>7. ASSUME NEW y \in Basics(qu)
      PROVE  b[y] = a[y] + Dot(q.rows[y], d, DOMAIN q.rows[y] \ {y})
  <2>1. y \in Vars(q) /\ ~NonBasic(q, y)
    BY <1>1, <1>6 DEF NonBasic
  <2>2. b[y] = a[y] + Dot(q.rows[y], d, DOMAIN q.rows[y] \ DOMAIN q.rows)
    BY <2>1 DEF InitialAssignment
  <2>3. DOMAIN q.rows[y] \ DOMAIN q.rows = DOMAIN q.rows[y] \ {y}
    BY <1>4
  <2> HIDE DEF a, b, d
  <2> QED
    BY <2>2, <2>3
<1>8. b \in [Var(qu) -> Int]
  <2>1. b = [v \in Var(qu) |-> b[v]]
    BY <1>1 DEF InitialAssignment
  <2>2. ASSUME NEW v \in Var(qu) PROVE b[v] \in Int
    <3>1. CASE v \in Basics(qu)
      <4>1. a[v] \in Int /\ Dot(q.rows[v], d, DOMAIN q.rows[v] \ {v}) \in Int
        BY <1>1, <1>4, <3>1
      <4>2. b[v] = a[v] + Dot(q.rows[v], d, DOMAIN q.rows[v] \ {v})
        BY <1>7, <3>1
      <4> HIDE DEF a, b, d
      <4> QED
        BY <4>1, <4>2
    <3>2. CASE v \notin Basics(qu)
      BY <1>2, <1>5, <3>2
    <3> QED
      BY <3>1, <3>2
  <2> HIDE DEF b
  <2> QED
    BY <2>1, <2>2
<1>9. ASSUME NEW y \in Basics(qu)
      PROVE  Dot(q.rows[y], b, DOMAIN q.rows[y]) = 0
  <2> DEFINE r == q.rows[y] X == DOMAIN r
  <2>1. /\ IsFiniteSet(X) /\ IntOn(r, X) /\ X \subseteq Var(qu) /\ y \in X /\ r[y] = -1
        /\ X \ {y} \subseteq Var(qu) \ Basics(qu)
    BY <1>4 DEF RowOk
  <2>2. Dot(r, a, X) = 0
    BY DEF QueryForm, Equations
  <2>3. b[y] = a[y] + Dot(r, d, X \ {y})
    BY <1>7
  <2> HIDE DEF a, b, d, r, X
  <2>4. IntOn(a, X) /\ IntOn(d, X \ {y})
    BY <1>1, <1>3, <2>1 DEF IntOn, a
  <2>5. \A v \in X \ {y} : b[v] = a[v] + d[v]
    <3> SUFFICES ASSUME NEW v \in X \ {y} PROVE b[v] = a[v] + d[v]
      OBVIOUS
    <3>1. v \in Var(qu) \ Basics(qu)
      BY <2>1
    <3>2. b[v] = InBounds(q, v) /\ d[v] = InBounds(q, v) - a[v] /\ InBounds(q, v) \in Int /\ a[v] \in Int
      BY <3>1, <1>1, <1>2, <1>3, <1>5 DEF a
    <3> QED
      BY <3>2
  <2>6. Dot(r, b, X) = 0
    BY <2>1, <2>2, <2>3, <2>4, <2>5, RowFollows
  <2> QED
    BY <2>6 DEF r, X
<1> QED
  BY <1>2, <1>5, <1>8, <1>9

\* initialUpdate refutes the query or makes it ready for its rows.
LEMMA InitialUpdateStep ==
  ASSUME NEW n, IsNetwork(n), NEW qu, IsQuestion(qu), NEW q, QueryForm(n, qu, q),
         NEW u, u = InitialUpdate(q)
  PROVE  /\ \/ RefusedQuery(n, qu, u)
            \/ /\ \A v \in Var(qu) : BoundInvariantHolds(q, v)
               /\ Initial(qu, q) => Working(n, qu, u, Basics(qu))
         /\ Consistent(u) => \A v \in Var(qu) : BoundInvariantHolds(q, v)
         /\ HoldsStill(n, qu, q, u)
<1>1. IsQuery(q) /\ Vars(q) = Var(qu)
  BY DEF QueryForm, Vars
<1>2. CASE \E v \in Var(qu) : ~BoundInvariantHolds(q, v)
  <2>1. u = [q EXCEPT !.consistent = FALSE]
    BY <1>1, <1>2, InitialUpdateFields
  <2>2. /\ u.lower = q.lower /\ u.upper = q.upper /\ u.dissolved = q.dissolved
        /\ u.consistent = FALSE
    BY <1>1, <2>1, RefuseFields
  <2>3. QueryForm(n, qu, u)
    BY <2>1, RefuseForm
  <2>4. RefusedQuery(n, qu, u)
    BY <1>2, <2>2, <2>3 DEF RefusedQuery, BoundInvariantHolds, Finite
  <2>5. HoldsStill(n, qu, q, u)
    BY <2>2 DEF HoldsStill, Holds, MergedActive, Merged, WithinBounds
  <2> QED
    BY <2>2, <2>4, <2>5 DEF Consistent
<1>3. CASE \A v \in Var(qu) : BoundInvariantHolds(q, v)
  <2>1. /\ IsQuery(u) /\ Consistent(u)
        /\ u.rows = q.rows /\ u.lower = q.lower /\ u.upper = q.upper
        /\ u.dissolved = q.dissolved
        /\ u.assignment = InitialAssignment(q)
    BY <1>1, <1>3, InitialUpdateFields
  <2> DEFINE b == InitialAssignment(q)
  <2>2. /\ b \in [Var(qu) -> Int]
        /\ \A v \in Var(qu) \ Basics(qu) : b[v] = InBounds(q, v)
        /\ \A v \in Var(qu) \ Basics(qu) : Allows(q, v, InBounds(q, v))
        /\ \A y \in Basics(qu) : Dot(q.rows[y], b, DOMAIN q.rows[y]) = 0
    BY <1>3, InitialAssignmentForm
  <2> HIDE DEF b
  <2>3. QueryForm(n, qu, u)
    BY <2>1, <2>2 DEF QueryForm, RowsForm, Equations, b, Own, Merged
  <2>4. NonBasicsIn(qu, u, {})
    <3> SUFFICES ASSUME NEW v \in Var(qu) \ Basics(qu) PROVE ~OutOfBounds(u, v)
      BY DEF NonBasicsIn
    <3>1. u.assignment[v] = b[v] /\ b[v] \in Int /\ Allows(q, v, b[v])
      BY <2>1, <2>2 DEF b
    <3>2. Allows(u, v, b[v])
      BY <2>1, <3>1 DEF Allows
    <3>3. IntOn(u.lower, DOMAIN u.lower) /\ IntOn(u.upper, DOMAIN u.upper)
      BY <2>3 DEF QueryForm
    <3> QED
      BY <3>1, <3>2, <3>3, AllowedIn
  <2>5. HoldsStill(n, qu, q, u)
    BY <2>1 DEF HoldsStill, Holds, MergedActive, Merged, WithinBounds
  <2>6. Initial(qu, q) => Working(n, qu, u, Basics(qu))
    <3> SUFFICES ASSUME Initial(qu, q) PROVE Working(n, qu, u, Basics(qu))
      OBVIOUS
    <3>1. Initial(qu, u)
      BY <2>1 DEF Initial, Finite, Unvisited
    <3>2. \A v \in Var(qu) : BoundInvariantHolds(u, v)
      BY <1>3, <2>1 DEF BoundInvariantHolds, Finite
    <3>3. /\ \A i \in Hidden : \A j \in Node(i) : Aux(i, j) \in Basics(qu)
          /\ \A j \in Outputs : Aux(LastLayer, j) \in Basics(qu)
          /\ \A o \in qu.others : Slack(qu, o) \in Basics(qu)
      BY NodeVariables, LayerIndices
    <3> QED
      BY <2>1, <2>3, <2>4, <3>1, <3>2, <3>3 DEF Working, Initial
  <2> QED
    BY <1>3, <2>5, <2>6
<1> QED
  BY <1>2, <1>3

-----------------------------------------------------------------------------
(***************************************************************************)
(* The setting of an experiment.                                           *)
(***************************************************************************)
\* Smallest and largest numbers.
SubsetsOf(D, S) == \A x \in S : D[x] \subseteq S
\* No smaller set among them.
MinimalAt(D, S, x) == \A y \in S : D[y] \subseteq D[x] => D[y] = D[x]

\* A finite set has an element whose set is minimal.
LEMMA MinimalOf ==
  ASSUME NEW S, IsFiniteSet(S), NEW s \in S, NEW D, SubsetsOf(D, S)
  PROVE  \E x \in S : MinimalAt(D, S, x)
<1>1. PICK T : T = {D[x] : x \in S}
  OBVIOUS
<1>2. T \subseteq SUBSET S /\ T # {}
  BY <1>1 DEF SubsetsOf
<1>3. PICK X \in T : \A Y \in T : Y \subseteq X => Y = X
  BY <1>2, MinimalSubset
<1>4. PICK x \in S : X = D[x]
  BY <1>1
<1>5. ASSUME NEW y \in S, D[y] \subseteq D[x] PROVE D[y] = D[x]
  <2>1. D[y] \in T
    BY <1>1
  <2> QED
    BY <1>3, <1>4, <1>5, <2>1
<1> QED
  BY <1>5 DEF MinimalAt

\* A finite set of integers has a smallest one.
LEMMA SmallestOf ==
  ASSUME NEW S, S \subseteq Int, IsFiniteSet(S), NEW s \in S
  PROVE  \E x \in S : \A y \in S : x <= y
<1>1. PICK D : D = [x \in S |-> {y \in S : y <= x}]
  OBVIOUS
<1>2. SubsetsOf(D, S)
  BY <1>1 DEF SubsetsOf
<1>3. PICK x \in S : MinimalAt(D, S, x)
  BY <1>2, MinimalOf
<1>4. ASSUME NEW y \in S, ~(x <= y) PROVE FALSE
  <2>1. \A z \in S : z <= y => z <= x
    BY <1>4
  <2>2. D[y] = {z \in S : z <= y} /\ D[x] = {z \in S : z <= x}
    BY <1>1
  <2>3. D[y] \subseteq D[x]
    BY <2>1, <2>2
  <2>4. x \notin D[y] /\ x \in D[x]
    BY <2>2, <1>4
  <2> QED
    BY <1>3, <2>3, <2>4 DEF MinimalAt
<1> QED
  BY <1>4

\* And a largest one.
LEMMA LargestOf ==
  ASSUME NEW S, S \subseteq Int, IsFiniteSet(S), NEW s \in S
  PROVE  \E x \in S : \A y \in S : x >= y
<1>1. PICK D : D = [x \in S |-> {y \in S : y >= x}]
  OBVIOUS
<1>2. SubsetsOf(D, S)
  BY <1>1 DEF SubsetsOf
<1>3. PICK x \in S : MinimalAt(D, S, x)
  BY <1>2, MinimalOf
<1>4. ASSUME NEW y \in S, ~(x >= y) PROVE FALSE
  <2>1. \A z \in S : z >= y => z >= x
    BY <1>4
  <2>2. D[y] = {z \in S : z >= y} /\ D[x] = {z \in S : z >= x}
    BY <1>1
  <2>3. D[y] \subseteq D[x]
    BY <2>1, <2>2
  <2>4. x \notin D[y] /\ x \in D[x]
    BY <2>2, <1>4
  <2> QED
    BY <1>3, <2>3, <2>4 DEF MinimalAt
<1> QED
  BY <1>4

\* They are Min and Max.
LEMMA Extremes ==
  ASSUME NEW S, S \subseteq Int, IsFiniteSet(S), S # {}
  PROVE  /\ Min(S) \in S /\ \A y \in S : Min(S) <= y
         /\ Max(S) \in S /\ \A y \in S : Max(S) >= y
<1>1. \E x \in S : \A y \in S : x <= y
  BY SmallestOf
<1>2. \E x \in S : \A y \in S : x >= y
  BY LargestOf
<1> QED
  BY <1>1, <1>2 DEF Min, Max

\* The output that is minimal at a point.
LEMMA MinimalIsOutput ==
  ASSUME NEW out, \A o \in Outputs : out[o] \in Int
  PROVE  FindMinimal(out) \in Outputs
<1> DEFINE M == {o \in Outputs : \A p \in Outputs : out[o] <= out[p]}
<1>1. IsFiniteSet(Outputs) /\ Outputs \subseteq Nat /\ 0 \in Outputs
  BY NodeFinite, LayerIndices
<1>2. PICK D : D = [o \in Outputs |-> {p \in Outputs : out[p] <= out[o]}]
  OBVIOUS
<1>3. SubsetsOf(D, Outputs)
  BY <1>2 DEF SubsetsOf
<1>4. PICK m \in Outputs : MinimalAt(D, Outputs, m)
  BY <1>1, <1>3, MinimalOf
<1>5. ASSUME NEW o \in Outputs, ~(out[m] <= out[o]) PROVE FALSE
  <2>1. D[o] \subseteq D[m]
    BY <1>2, <1>5
  <2>2. m \notin D[o] /\ m \in D[m]
    BY <1>2, <1>5
  <2> QED
    BY <1>4, <2>1, <2>2 DEF MinimalAt
<1>6. m \in M
  BY <1>5
<1>7. M \subseteq Outputs
  OBVIOUS
<1> HIDE DEF M
<1>8. IsFiniteSet(M) /\ M \subseteq Int
  <2>1. M \in SUBSET Outputs
    BY <1>7
  <2>2. IsFiniteSet(M)
    BY <1>1, <2>1, FS_Subset
  <2>3. M \subseteq Int
    BY <1>1, <1>7
  <2> QED
    BY <2>2, <2>3
<1>9. Min(M) \in M
  BY <1>6, <1>8, Extremes
<1> QED
  BY <1>7, <1>9 DEF FindMinimal, M

\* Every other output is the runner-up once.
LEMMA RunnerUps ==
  ASSUME NEW m \in Outputs
  PROVE  /\ \A i \in 0 .. LayerSize[LastLayer] - 2 : RunnerUp(i, m) \in Outputs \ {m}
         /\ \A o \in Outputs \ {m} : \E i \in 0 .. LayerSize[LastLayer] - 2 : RunnerUp(i, m) = o
         /\ LayerSize[LastLayer] \in Nat /\ LayerSize[LastLayer] > 1
<1>1. LayerSize[LastLayer] \in Nat /\ LayerSize[LastLayer] > 1 /\ Outputs = 0 .. LayerSize[LastLayer] - 1
  BY Sizes, ExperimentsAssumption DEF Outputs, Node
<1>2. \A i \in 0 .. LayerSize[LastLayer] - 2 : RunnerUp(i, m) \in Outputs \ {m}
  BY <1>1 DEF RunnerUp
<1>3. ASSUME NEW o \in Outputs \ {m}
      PROVE  \E i \in 0 .. LayerSize[LastLayer] - 2 : RunnerUp(i, m) = o
  <2>1. CASE o < m
    <3>1. o \in 0 .. LayerSize[LastLayer] - 2 /\ RunnerUp(o, m) = o
      BY <1>1, <2>1 DEF RunnerUp
    <3> QED
      BY <3>1
  <2>2. CASE o > m
    <3>1. o - 1 \in 0 .. LayerSize[LastLayer] - 2 /\ RunnerUp(o - 1, m) = o
      BY <1>1, <2>2 DEF RunnerUp
    <3> QED
      BY <3>1
  <2> QED
    BY <1>1, <2>1, <2>2
<1> QED
  BY <1>1, <1>2, <1>3

\* The questions that the drivers ask.
LEMMA AdversarialAsked ==
  ASSUME NEW m \in Outputs, NEW i \in 0 .. LayerSize[LastLayer] - 2
  PROVE  IsQuestion(AdversarialQuestion(i, m))
<1>1. RunnerUp(i, m) \in Outputs \ {m}
  BY RunnerUps
<1> QED
  BY <1>1 DEF AdversarialQuestion, Question, IsQuestion

\* The questions of the property drivers.
LEMMA PropertyAsked ==
  /\ IsQuestion(Largest)
  /\ \A t \in Outputs : IsQuestion(Smallest(t))
  /\ \A t \in Outputs : \A o \in Outputs \ {t} : IsQuestion(NotBelow(t, o))
  /\ \A threshold \in InputRange : IsQuestion(OutputAtLeast(threshold))
<1>1. 0 \in Outputs /\ InputRange \subseteq Int
  BY NodeFinite, LayerIndices, ExperimentsAssumption
<1>2. IsQuestion(Largest)
  BY <1>1 DEF Largest, Question, IsQuestion
<1>3. \A t \in Outputs : IsQuestion(Smallest(t))
  BY <1>1 DEF Smallest, Question, IsQuestion
<1>4. \A t \in Outputs : \A o \in Outputs \ {t} : IsQuestion(NotBelow(t, o))
  BY <1>1 DEF NotBelow, Question, IsQuestion
<1>5. \A threshold \in InputRange : IsQuestion(OutputAtLeast(threshold))
  BY <1>1 DEF OutputAtLeast, Question, IsQuestion
<1> QED
  BY <1>2, <1>3, <1>4, <1>5

\* The networks' weights and the points' inputs are integers.
LEMMA SettingFacts ==
  /\ \A n \in Networks : IsNetwork(n)
  /\ InputRange \subseteq Int
  /\ \A bx : \A x \in Points(bx) : x \in [Inputs -> Int] /\ InBox(x, bx)
<1>1. InputRange \subseteq Int
  BY ExperimentsAssumption
<1> QED
  BY <1>1, ExperimentsAssumption DEF IsNetwork, Points

-----------------------------------------------------------------------------
(***************************************************************************)
(* The invariant.  The queries that are worked on have the form that the   *)
(* driver gave them, and hold of an input what they should.                *)
(***************************************************************************)
\* The query says what it should of every input in the box.
HoldsAll(n, qu, q, bx) == \A x \in Points(bx) : Holds(n, qu, q, x)

\* It does so still.
LEMMA HoldsAllStill ==
  ASSUME NEW n, NEW qu, NEW q, NEW u, NEW bx, HoldsAll(n, qu, q, bx), HoldsStill(n, qu, q, u)
  PROVE  HoldsAll(n, qu, u, bx)
BY SettingFacts DEF HoldsAll, HoldsStill

\* The network, the box and the question.
Setting ==
  /\ net \in Networks /\ IsBox(box) /\ minimal \in Outputs /\ IsQuestion(question)
  /\ part \in Nat
  /\ driver = "adversarial" =>
       part <= LayerSize[LastLayer] - 2 /\ question = AdversarialQuestion(part, minimal)

\* A query of the right form, that says what it should of all inputs.
QueryHeld == Live => QueryForm(net, question, query) /\ HoldsAll(net, question, query, box)

\* initialize() may be called.
Startable ==
  /\ ~wasInitialized
  /\ \/ Initial(question, query) /\ finalStatus # "UNSAT"
     \/ RefusedQuery(net, question, query)

\* The answers SAT and UNSAT are right.
Right(n, bx, qu, status) ==
  /\ status = "SAT" => \E x \in Points(bx) : Answers(qu, Evaluate(n, x))
  /\ status = "UNSAT" => ~\E x \in Points(bx) : Answers(qu, Evaluate(n, x))

\* What has been done by the time the program is at pc.
Progress ==
  /\ Live /\ wasInitialized => Working(net, question, query, {})
  /\ pc = "initialize" => Startable
  /\ pc = "rows" => /\ ~wasInitialized /\ finalStatus # "UNSAT"
                    /\ todo \subseteq Basics(question)
                    /\ Working(net, question, query, todo)
  /\ pc = "solve" => Startable \/ (wasInitialized /\ finalStatus # "UNSAT")
  /\ pc = "initialized" =>
       \/ wasInitialized /\ finalStatus # "UNSAT"
       \/ ~wasInitialized /\ finalStatus = "UNSAT" /\ RefusedQuery(net, question, query)
  /\ pc = "returned" => Right(net, box, question, finalStatus)

\* The k-th result is right, and is logged as what it is.
ResultRight(k) ==
  /\ Right(net, box, results[k].question, results[k].status)
  /\ results[k].logged = Logged(results[k].status)
  /\ driver = "adversarial" =>
       /\ results[k].question = AdversarialQuestion(k - 1, minimal)
       /\ results[k].status # "SAT" \/ (pc = "done" /\ k = Len(results))

\* The results are right, and there is one for each question asked.
Recorded ==
  /\ \E S : results \in Seq(S)
  /\ Len(results) = IF pc = "done" THEN part + 1 ELSE part
  /\ \A k \in 1 .. Len(results) : ResultRight(k)
  /\ pc = "done" /\ driver = "adversarial" =>
       results[Len(results)].status = "SAT" \/ part = LayerSize[LastLayer] - 2

\* The inductive invariant.
ExperimentInvariant == Setting /\ QueryHeld /\ Progress /\ Recorded

-----------------------------------------------------------------------------
\* A query in this form has the solutions that it should have.
LEMMA OutputsEncoded ==
  ASSUME Setting, QueryForm(net, question, query), HoldsAll(net, question, query, box),
         NEW x \in Points(box)
  PROVE  /\ Propagated(query, x) = Val(net, question, x)
         /\ \A o \in Outputs : Propagated(query, x)[B(LastLayer, o)] = Evaluate(net, x)[o]
<1>1. IsNetwork(net) /\ IsQuestion(question) /\ x \in [Inputs -> Int]
  BY SettingFacts DEF Setting
<1>2. MergedActive(net, query, x)
  BY DEF HoldsAll, Holds
<1>3. RowsForm(net, question, query) /\ Vars(query) = Var(question)
  BY DEF QueryForm, Vars
<1>4. Propagated(query, x) = Val(net, question, x)
  BY <1>1, <1>2, <1>3, PropagatedIsVal
<1>5. \A o \in Outputs : Val(net, question, x)[B(LastLayer, o)] = Evaluate(net, x)[o]
  BY <1>1, LayerIndices, ValFacts, PreFacts
<1> QED
  BY <1>4, <1>5

\* So its solutions are the inputs whose outputs answer the question.
LEMMA SolutionsAre ==
  ASSUME Setting, QueryForm(net, question, query), HoldsAll(net, question, query, box)
  PROVE  Solutions(query) = {x \in Points(box) : Answers(question, Evaluate(net, x))}
<1>1. ASSUME NEW x \in Points(box)
      PROVE  Satisfied(query, x) <=> Answers(question, Evaluate(net, x))
  <2>1. Propagated(query, x) = Val(net, question, x)
    BY OutputsEncoded
  <2>2. WithinBounds(query, Val(net, question, x)) <=> Answers(question, Evaluate(net, x))
    BY DEF HoldsAll, Holds
  <2> QED
    BY <2>1, <2>2 DEF Satisfied
<1> QED
  BY <1>1 DEF Solutions

\* A refused query has no solution.
LEMMA RefusedHasNone ==
  ASSUME Setting, RefusedQuery(net, question, query), HoldsAll(net, question, query, box)
  PROVE  Right(net, box, question, "UNSAT")
<1> SUFFICES ASSUME NEW x \in Points(box), Answers(question, Evaluate(net, x)) PROVE FALSE
  BY DEF Right
<1>1. IsNetwork(net) /\ IsQuestion(question) /\ x \in [Inputs -> Int]
  BY SettingFacts DEF Setting
<1> DEFINE a == Val(net, question, x)
<1>2. WithinBounds(query, a)
  BY DEF HoldsAll, Holds
<1>3. PICK v \in Var(question) : ~BoundInvariantHolds(query, v)
  BY DEF RefusedQuery
<1>4. a[v] \in Int
  BY <1>1, ValFacts DEF IntOn
<1>5. IntOn(query.lower, DOMAIN query.lower) /\ IntOn(query.upper, DOMAIN query.upper)
  BY DEF RefusedQuery, QueryForm
<1> HIDE DEF a
<1>6. v \in DOMAIN query.lower /\ v \in DOMAIN query.upper /\ ~(query.lower[v] <= query.upper[v])
  BY <1>3 DEF BoundInvariantHolds, Finite
<1>7. query.lower[v] <= a[v] /\ a[v] <= query.upper[v]
  BY <1>2, <1>6 DEF WithinBounds
<1>8. query.lower[v] \in Int /\ query.upper[v] \in Int
  BY <1>5, <1>6 DEF IntOn
<1> QED
  BY <1>4, <1>6, <1>7, <1>8

-----------------------------------------------------------------------------
\* The bounds of a box around a point.
LEMMA TwoExtremes ==
  ASSUME NEW a \in Int, NEW b \in Int
  PROVE  Max({a, b}) \in Int /\ Min({a, b}) \in Int
<1>1. IsFiniteSet({a} \cup {b})
  BY FS_Singleton, FS_Union
<1>2. IsFiniteSet({a, b})
  <2>1. {a} \cup {b} = {a, b}
    OBVIOUS
  <2> QED
    BY <1>1, <2>1
<1>3. \A y \in {a, b} : y \in Int
  OBVIOUS
<1> DEFINE S == {a, b}
<1>4. S \subseteq Int /\ S # {}
  OBVIOUS
<1> HIDE DEF S
<1>5. Min(S) \in S /\ Max(S) \in S
  BY <1>2, <1>4, Extremes DEF S
<1> QED
  BY <1>4, <1>5 DEF S

\* The first question of either driver.
LEMMA InitSetting == Init => Setting
<1> SUFFICES ASSUME Init PROVE Setting
  OBVIOUS
<1>0. /\ net \in Networks /\ IsNetwork(net) /\ part = 0 /\ InputRange \subseteq Int
      /\ 0 \in Outputs
  BY SettingFacts, NodeFinite, LayerIndices DEF Init
<1>1. CASE driver = "property"
  <2>1. /\ box \in [Inputs -> {r \in [lower : InputRange, upper : InputRange] : r.lower <= r.upper}]
        /\ minimal = 0
        /\ \/ question = Largest
           \/ \E t \in Outputs : question = Smallest(t)
           \/ \E t \in Outputs : \E o \in Outputs \ {t} : question = NotBelow(t, o)
           \/ \E threshold \in InputRange : question = OutputAtLeast(threshold)
    BY <1>1 DEF Init
  <2>2. IsQuestion(question)
    BY <2>1, PropertyAsked
  <2>3. IsBox(box)
    BY <1>0, <2>1 DEF IsBox
  <2> QED
    BY <1>0, <1>1, <2>1, <2>2, <2>3 DEF Setting
<1>2. CASE driver = "adversarial"
  <2>1. PICK point \in [Inputs -> InputRange] :
             /\ box = [i \in Inputs |->
                         [lower |-> Max({point[i] - Delta, Min(InputRange)}),
                          upper |-> Min({point[i] + Delta, Max(InputRange)})]]
             /\ minimal = FindMinimal(Evaluate(net, point))
    BY <1>2 DEF Init
  <2>2. Min(InputRange) \in Int /\ Max(InputRange) \in Int /\ Delta \in Int
    BY ExperimentsAssumption, Extremes
  <2>3. IsBox(box)
    <3> SUFFICES ASSUME NEW s \in Inputs PROVE box[s].lower \in Int /\ box[s].upper \in Int
      BY DEF IsBox
    <3>0. point[s] \in Int
      <4>1. point[s] \in InputRange
        OBVIOUS
      <4> QED
        BY <1>0, <4>1
    <3>1. point[s] - Delta \in Int /\ point[s] + Delta \in Int
      BY <3>0, <2>2
    <3> QED
      BY <2>1, <2>2, <3>1, TwoExtremes
  <2>4. point \in [Inputs -> Int]
    BY <1>0
  <2>5. \A o \in Outputs : Evaluate(net, point)[o] \in Int
    BY <1>0, <2>4, LayerIndices, PreFacts
  <2>6. minimal \in Outputs
    BY <2>1, <2>5, MinimalIsOutput
  <2>7. question = AdversarialQuestion(0, minimal)
    BY <1>2 DEF Init
  <2>8. 0 \in 0 .. LayerSize[LastLayer] - 2
    BY <2>6, RunnerUps
  <2>9. IsQuestion(question)
    BY <2>6, <2>7, <2>8, AdversarialAsked
  <2> QED
    BY <1>0, <2>3, <2>6, <2>7, <2>8, <2>9 DEF Setting
<1> QED
  BY <1>1, <1>2 DEF Init

\* The invariant holds at first.
LEMMA InitInvariant == Init => ExperimentInvariant
<1> SUFFICES ASSUME Init PROVE ExperimentInvariant
  OBVIOUS
<1>1. Setting
  BY InitSetting
<1>2. pc = "construct" /\ results = <<>> /\ part = 0
  BY DEF Init
<1>3. QueryHeld /\ Progress
  BY <1>2 DEF QueryHeld, Progress, Live
<1>4. Recorded
  <2>1. results \in Seq({}) /\ Len(results) = 0
    BY <1>2
  <2> QED
    BY <1>2, <2>1 DEF Recorded
<1> QED
  BY <1>1, <1>3, <1>4 DEF ExperimentInvariant

-----------------------------------------------------------------------------
(***************************************************************************)
(* The steps.                                                              *)
(***************************************************************************)
\* A step that asks no new question and ends none.
LEMMA SameQuestion ==
  ASSUME Setting, Recorded, pc # "done", pc' # "done",
         UNCHANGED <<experiment, question, part, results>>
  PROVE  Setting' /\ Recorded'
<1>1. /\ net' = net /\ driver' = driver /\ box' = box /\ minimal' = minimal
      /\ question' = question /\ part' = part /\ results' = results
  BY DEF experiment
<1>2. Setting'
  BY <1>1 DEF Setting
<1>3. ASSUME NEW k, ResultRight(k) PROVE ResultRight(k)'
  BY <1>1, <1>3 DEF ResultRight
<1>4. Recorded'
  BY <1>1, <1>3 DEF Recorded
<1> QED
  BY <1>2, <1>4

\* The driver writes the query: it is new, and no row was visited.
LEMMA ConstructStep == ExperimentInvariant /\ Construct => ExperimentInvariant'
<1> SUFFICES ASSUME ExperimentInvariant, Construct PROVE ExperimentInvariant'
  OBVIOUS
<1>1. /\ net' = net /\ box' = box /\ question' = question
      /\ query' = Build(net, question, box) /\ wasInitialized' = FALSE
      /\ finalStatus' = "NOT_DONE" /\ pc' \in {"initialize", "solve"} /\ pc = "construct"
  BY DEF Construct, experiment
<1>2. Setting' /\ Recorded'
  BY <1>1, SameQuestion DEF ExperimentInvariant, Construct
<1>3. IsNetwork(net) /\ IsQuestion(question) /\ IsBox(box)
  BY SettingFacts DEF ExperimentInvariant, Setting
<1>4. QueryForm(net, question, query') /\ Initial(question, query')
  BY <1>1, <1>3, BuildForm, BuildInitial
<1>5. HoldsAll(net, question, query', box)
  BY <1>1, <1>3, BuildHolds, SettingFacts DEF HoldsAll
<1>6. QueryHeld'
  BY <1>1, <1>4, <1>5 DEF QueryHeld
<1>7. Progress'
  BY <1>1, <1>4 DEF Progress, Startable, Live
<1> QED
  BY <1>2, <1>6, <1>7 DEF ExperimentInvariant

\* initialUpdate, at the start of initialize().
LEMMA InitializeFirstStep == ExperimentInvariant /\ InitializeFirst => ExperimentInvariant'
<1> SUFFICES ASSUME ExperimentInvariant, InitializeFirst PROVE ExperimentInvariant'
  OBVIOUS
<1>1. /\ net' = net /\ box' = box /\ question' = question
      /\ query' = InitialUpdate(query) /\ pc = "initialize"
  BY DEF InitializeFirst, experiment
<1>2. IsNetwork(net) /\ IsQuestion(question)
  BY SettingFacts DEF ExperimentInvariant, Setting
<1>3. QueryForm(net, question, query) /\ HoldsAll(net, question, query, box) /\ Startable
  BY <1>1 DEF ExperimentInvariant, QueryHeld, Progress, Live
<1>4. /\ \/ RefusedQuery(net, question, query')
         \/ /\ \A v \in Var(question) : BoundInvariantHolds(query, v)
            /\ Initial(question, query) => Working(net, question, query', Basics(question))
      /\ Consistent(query') => \A v \in Var(question) : BoundInvariantHolds(query, v)
      /\ HoldsStill(net, question, query, query')
  BY <1>1, <1>2, <1>3, InitialUpdateStep
<1>5. HoldsAll(net, question, query', box)
  BY <1>3, <1>4, HoldsAllStill
<1>6. \/ RefusedQuery(net, question, query') /\ ~Consistent(query')
      \/ /\ Working(net, question, query', Basics(question)) /\ Consistent(query')
         /\ finalStatus # "UNSAT"
  <2>1. CASE RefusedQuery(net, question, query')
    BY <2>1 DEF RefusedQuery, Consistent
  <2>2. CASE ~RefusedQuery(net, question, query')
    <3>1. \A v \in Var(question) : BoundInvariantHolds(query, v)
      BY <1>4, <2>2
    <3>2. ~RefusedQuery(net, question, query)
      BY <3>1 DEF RefusedQuery
    <3>3. Initial(question, query) /\ finalStatus # "UNSAT"
      BY <1>3, <3>2 DEF Startable
    <3> QED
      BY <1>4, <2>2, <3>3 DEF Working
  <2> QED
    BY <2>1, <2>2
<1>7. ~wasInitialized
  BY <1>3 DEF Startable
<1>8. CASE RefusedQuery(net, question, query') /\ ~Consistent(query')
  <2>1. /\ finalStatus' = "UNSAT" /\ pc' \in {"solve", "initialized"}
        /\ wasInitialized' = wasInitialized
    <3>1. ~query'.consistent
      BY <1>8 DEF RefusedQuery
    <3> QED
      BY <3>1 DEF InitializeFirst, Refuted
  <2>2. Setting' /\ Recorded'
    BY <1>1, <2>1, SameQuestion DEF ExperimentInvariant, InitializeFirst
  <2>3. QueryHeld'
    BY <1>1, <1>5, <1>8 DEF QueryHeld, RefusedQuery
  <2>4. Progress'
    BY <1>1, <1>7, <1>8, <2>1 DEF Progress, Startable, Live
  <2> QED
    BY <2>2, <2>3, <2>4 DEF ExperimentInvariant
<1>9. CASE /\ Working(net, question, query', Basics(question)) /\ Consistent(query')
           /\ finalStatus # "UNSAT"
  <2>1. /\ pc' = "rows" /\ todo' = DOMAIN query.rows /\ finalStatus' = finalStatus
        /\ wasInitialized' = wasInitialized
    <3>1. query'.consistent
      BY <1>9 DEF Consistent
    <3> QED
      BY <3>1 DEF InitializeFirst
  <2>2. todo' = Basics(question)
    BY <1>3, <2>1 DEF QueryForm, RowsForm
  <2>3. Setting' /\ Recorded'
    BY <1>1, <2>1, SameQuestion DEF ExperimentInvariant, InitializeFirst
  <2>4. QueryHeld'
    BY <1>1, <1>5, <1>9 DEF QueryHeld, Working
  <2>5. Progress'
    BY <1>1, <1>7, <1>9, <2>1, <2>2 DEF Progress, Live
  <2> QED
    BY <2>3, <2>4, <2>5 DEF ExperimentInvariant
<1> QED
  BY <1>6, <1>8, <1>9

\* The next row is that of the least variable left.
LEMMA NextRow ==
  ASSUME NEW qu, IsQuestion(qu), NEW T, T \subseteq Basics(qu), T # {}
  PROVE  Min(T) \in Basics(qu) /\ Least(T, Min(T))
<1>1. Basics(qu) \subseteq Var(qu)
  BY NodeVariables DEF Basics, SlackVars
<1>2. IsFiniteSet(Var(qu)) /\ Var(qu) \subseteq Int
  <2>1. NumNodes \in Int /\ Cardinality(qu.others) \in Int
    BY SlackNumbers, NodeVariables
  <2>2. IsFiniteSet(0 .. NumNodes + Cardinality(qu.others))
    BY <2>1, FS_Interval
  <2> QED
    BY <2>2, SlackNumbers, NodeVariables
<1>3. T \in SUBSET Var(qu)
  BY <1>1
<1>4. IsFiniteSet(T)
  BY <1>2, <1>3, FS_Subset
<1>5. T \subseteq Int
  BY <1>2, <1>3
<1>6. Min(T) \in T /\ \A y \in T : Min(T) <= y
  BY <1>4, <1>5, Extremes
<1> QED
  BY <1>6 DEF Least

\* initialize() visits the next row.
LEMMA InitializeRowStep == ExperimentInvariant /\ InitializeRow => ExperimentInvariant'
<1> SUFFICES ASSUME ExperimentInvariant, InitializeRow PROVE ExperimentInvariant'
  OBVIOUS
<1> DEFINE y == Min(todo)
<1>1. /\ net' = net /\ box' = box /\ question' = question /\ pc = "rows" /\ todo # {}
  BY DEF InitializeRow, experiment
<1>2. IsNetwork(net) /\ IsQuestion(question)
  BY SettingFacts DEF ExperimentInvariant, Setting
<1>3. /\ QueryForm(net, question, query) /\ HoldsAll(net, question, query, box)
      /\ ~wasInitialized /\ finalStatus # "UNSAT" /\ todo \subseteq Basics(question)
      /\ Working(net, question, query, todo)
  BY <1>1 DEF ExperimentInvariant, QueryHeld, Progress, Live
<1>4. y \in Basics(question) /\ Least(todo, y)
  BY <1>1, <1>2, <1>3, NextRow
<1>5. /\ \/ RefusedQuery(net, question, MakeBoundsFiniteOnRow(query, y))
         \/ Working(net, question, MakeBoundsFiniteOnRow(query, y), todo \ {y})
      /\ HoldsStill(net, question, query, MakeBoundsFiniteOnRow(query, y))
      /\ \E v : InfiniteOnRow(query, y) = {v}
  <2> HIDE DEF y
  <2>1. PICK u : u = MakeBoundsFiniteOnRow(query, y)
    OBVIOUS
  <2>0. /\ IsNetwork(net) /\ IsQuestion(question) /\ Working(net, question, query, todo)
        /\ y \in Basics(question) /\ Least(todo, y)
    BY <1>2, <1>3, <1>4
  <2>2. RowDone(net, question, query, todo, y, u)
    BY <2>0, <2>1, RowStep
  <2> QED
    BY <2>1, <2>2 DEF RowDone
<1>6. ~(Cardinality(InfiniteOnRow(query, y)) > 1)
  <2>1. Cardinality(InfiniteOnRow(query, y)) = 1
    BY <1>5, FS_Singleton
  <2> QED
    BY <2>1
<1>7. /\ query' = MakeBoundsFiniteOnRow(query, y)
      /\ IF query'.consistent
         THEN /\ todo' = todo \ {y}
              /\ UNCHANGED <<pc, finalStatus, wasInitialized>>
         ELSE Refuted
  BY <1>6 DEF InitializeRow
<1> HIDE DEF y
<1>8. HoldsAll(net, question, query', box)
  BY <1>3, <1>5, <1>7, HoldsAllStill
<1>9. CASE RefusedQuery(net, question, query')
  <2>1. /\ finalStatus' = "UNSAT" /\ pc' \in {"solve", "initialized"}
        /\ wasInitialized' = wasInitialized
    <3>1. ~query'.consistent
      BY <1>9 DEF RefusedQuery
    <3> QED
      BY <3>1, <1>7 DEF Refuted
  <2>2. Setting' /\ Recorded'
    BY <1>1, <2>1, SameQuestion DEF ExperimentInvariant, InitializeRow
  <2>3. QueryHeld'
    BY <1>1, <1>8, <1>9 DEF QueryHeld, RefusedQuery
  <2>4. Progress'
    BY <1>1, <1>3, <1>9, <2>1 DEF Progress, Startable, Live
  <2> QED
    BY <2>2, <2>3, <2>4 DEF ExperimentInvariant
<1>10. CASE Working(net, question, query', todo \ {y})
  <2>1. /\ pc' = pc /\ todo' = todo \ {y} /\ finalStatus' = finalStatus
        /\ wasInitialized' = wasInitialized
    <3>1. query'.consistent
      BY <1>10 DEF Working, Consistent
    <3> QED
      BY <3>1, <1>7
  <2>2. Setting' /\ Recorded'
    BY <1>1, <2>1, SameQuestion DEF ExperimentInvariant, InitializeRow
  <2>3. QueryHeld'
    BY <1>1, <1>8, <1>10 DEF QueryHeld, Working
  <2>4. Progress'
    BY <1>1, <1>3, <1>10, <2>1 DEF Progress, Live
  <2> QED
    BY <2>2, <2>3, <2>4 DEF ExperimentInvariant
<1> QED
  BY <1>5, <1>7, <1>9, <1>10

\* When all rows have been visited, no bound is infinite.
LEMMA AllFinite ==
  ASSUME NEW n, NEW qu, IsQuestion(qu), NEW q, Working(n, qu, q, {}), NEW v \in Var(qu)
  PROVE  Finite(q, v)
<1>1. CASE v \in Inputs \/ v = Constant(qu) \/ v \in AuxVars
  BY <1>1 DEF Working
<1>2. CASE \E o \in qu.others : v = Slack(qu, o)
  BY <1>2 DEF Working
<1>3. \A i \in Hidden : \A j \in Node(i) : Finite(q, B(i, j)) /\ Finite(q, F(i, j))
  BY DEF Working, Visited
<1>4. \A j \in Node(LastLayer) : Finite(q, B(LastLayer, j))
  BY LayerIndices DEF Working
<1>5. CASE \E i \in 1 .. LastLayer : \E j \in Node(i) : v = B(i, j)
  <2>1. PICK i \in 1 .. LastLayer : \E j \in Node(i) : v = B(i, j)
    BY <1>5
  <2>2. i \in Hidden \/ i = LastLayer
    BY LayerIndices
  <2> QED
    BY <1>3, <1>4, <2>1, <2>2
<1>6. CASE \E i \in Hidden : \E j \in Node(i) : v = F(i, j)
  BY <1>3, <1>6
<1> QED
  BY <1>1, <1>2, <1>5, <1>6, VariableCases

\* initialize() returns: all bounds are finite.
LEMMA InitializeLastStep == ExperimentInvariant /\ InitializeLast => ExperimentInvariant'
<1> SUFFICES ASSUME ExperimentInvariant, InitializeLast PROVE ExperimentInvariant'
  OBVIOUS
<1>1. /\ net' = net /\ box' = box /\ question' = question /\ pc = "rows" /\ todo = {}
  BY DEF InitializeLast, experiment
<1>2. IsNetwork(net) /\ IsQuestion(question)
  BY SettingFacts DEF ExperimentInvariant, Setting
<1>3. /\ QueryForm(net, question, query) /\ HoldsAll(net, question, query, box)
      /\ ~wasInitialized /\ finalStatus # "UNSAT"
      /\ Working(net, question, query, {})
  BY <1>1 DEF ExperimentInvariant, QueryHeld, Progress, Live
<1>4. ~\E v \in Vars(query) : ~Finite(query, v)
  <2>1. Vars(query) = Var(question)
    BY <1>3 DEF QueryForm, Vars
  <2> QED
    BY <1>2, <1>3, <2>1, AllFinite
<1>5. /\ wasInitialized' = TRUE /\ pc' \in {"solve", "initialized"} /\ query' = query
      /\ finalStatus' = finalStatus
  BY <1>4 DEF InitializeLast
<1>6. Setting' /\ Recorded'
  BY <1>1, <1>5, SameQuestion DEF ExperimentInvariant, InitializeLast
<1>7. QueryHeld'
  BY <1>1, <1>3, <1>5 DEF QueryHeld
<1>8. Progress'
  BY <1>1, <1>3, <1>5 DEF Progress, Live
<1> QED
  BY <1>6, <1>7, <1>8 DEF ExperimentInvariant

\* The driver calls solve().
LEMMA SolveStep == ExperimentInvariant /\ Solve => ExperimentInvariant'
<1> SUFFICES ASSUME ExperimentInvariant, Solve PROVE ExperimentInvariant'
  OBVIOUS
<1>1. /\ net' = net /\ box' = box /\ question' = question /\ query' = query /\ pc = "solve"
      /\ wasInitialized' = wasInitialized /\ finalStatus' = finalStatus
      /\ pc' = IF wasInitialized THEN "initialized" ELSE "initialize"
  BY DEF Solve, experiment
<1>2. /\ QueryForm(net, question, query) /\ HoldsAll(net, question, query, box)
      /\ wasInitialized => Working(net, question, query, {})
      /\ Startable \/ (wasInitialized /\ finalStatus # "UNSAT")
  BY <1>1 DEF ExperimentInvariant, QueryHeld, Progress, Live
<1>3. Setting' /\ Recorded'
  BY <1>1, SameQuestion DEF ExperimentInvariant, Solve
<1>4. QueryHeld'
  BY <1>1, <1>2 DEF QueryHeld
<1>5. Progress'
  BY <1>1, <1>2 DEF Progress, Live, Startable
<1> QED
  BY <1>3, <1>4, <1>5 DEF ExperimentInvariant

\* A step that ends solve().
LEMMA ReturnStep ==
  ASSUME ExperimentInvariant, pc \in {"initialized", "loop"}, NEW status, NEW x,
         Return(status, x), Right(net, box, question, status)
  PROVE  ExperimentInvariant'
<1>1. /\ net' = net /\ box' = box /\ question' = question /\ query' = query
      /\ wasInitialized' = wasInitialized /\ finalStatus' = status /\ pc' = "returned"
  BY DEF Return, experiment
<1>2. /\ QueryForm(net, question, query) /\ HoldsAll(net, question, query, box)
      /\ wasInitialized => Working(net, question, query, {})
  BY DEF ExperimentInvariant, QueryHeld, Progress, Live
<1>3. Setting' /\ Recorded'
  BY <1>1, SameQuestion DEF ExperimentInvariant, Return
<1>4. QueryHeld'
  BY <1>1, <1>2 DEF QueryHeld
<1>5. Progress'
  BY <1>1, <1>2 DEF Progress, Live
<1> QED
  BY <1>3, <1>4, <1>5 DEF ExperimentInvariant

\* A result that is no answer is not wrong.
LEMMA NoAnswer ==
  Right(net, box, question, "ERROR") /\ Right(net, box, question, "NOT_DONE")
BY DEF Right

\* solve() returns after initialize() found the query refuted, or failed.
LEMMA SolveEarlyStep == ExperimentInvariant /\ SolveEarly => ExperimentInvariant'
<1> SUFFICES ASSUME ExperimentInvariant, SolveEarly PROVE ExperimentInvariant'
  OBVIOUS
<1>1. pc = "initialized"
  BY DEF SolveEarly
<1>2. CASE finalStatus = "UNSAT" /\ Return("UNSAT", {})
  <2>1. RefusedQuery(net, question, query) /\ HoldsAll(net, question, query, box) /\ Setting
    BY <1>1, <1>2 DEF ExperimentInvariant, QueryHeld, Progress, Live
  <2>2. Right(net, box, question, "UNSAT")
    BY <2>1, RefusedHasNone
  <2> QED
    BY <1>1, <1>2, <2>2, ReturnStep
<1>3. CASE Return("ERROR", {})
  BY <1>1, <1>3, NoAnswer, ReturnStep
<1>4. CASE Return("NOT_DONE", {})
  BY <1>1, <1>4, NoAnswer, ReturnStep
<1> QED
  BY <1>2, <1>3, <1>4 DEF SolveEarly

\* solve() enters the main loop.
LEMMA EnterLoopStep == ExperimentInvariant /\ EnterLoop => ExperimentInvariant'
<1> SUFFICES ASSUME ExperimentInvariant, EnterLoop PROVE ExperimentInvariant'
  OBVIOUS
<1>1. /\ net' = net /\ box' = box /\ question' = question /\ query' = query
      /\ pc = "initialized" /\ pc' = "loop" /\ wasInitialized' = wasInitialized
  BY DEF EnterLoop, experiment
<1>2. /\ QueryForm(net, question, query) /\ HoldsAll(net, question, query, box)
      /\ wasInitialized => Working(net, question, query, {})
  BY <1>1 DEF ExperimentInvariant, QueryHeld, Progress, Live
<1>3. Setting' /\ Recorded'
  BY <1>1, SameQuestion DEF ExperimentInvariant, EnterLoop
<1>4. QueryHeld'
  BY <1>1, <1>2 DEF QueryHeld
<1>5. Progress'
  BY <1>1, <1>2 DEF Progress, Live
<1> QED
  BY <1>3, <1>4, <1>5 DEF ExperimentInvariant

\* The main loop ends with an answer, an error or an interruption.
LEMMA LeaveLoopStep == ExperimentInvariant /\ LeaveLoop => ExperimentInvariant'
<1> SUFFICES ASSUME ExperimentInvariant, LeaveLoop PROVE ExperimentInvariant'
  OBVIOUS
<1>1. pc = "loop"
  BY DEF LeaveLoop
<1>2. Solutions(query) = {x \in Points(box) : Answers(question, Evaluate(net, x))}
  <2>1. Setting /\ QueryForm(net, question, query) /\ HoldsAll(net, question, query, box)
    BY <1>1 DEF ExperimentInvariant, QueryHeld, Live
  <2> QED
    BY <2>1, SolutionsAre
<1>3. CASE \E x \in Solutions(query) : Return("SAT", {x})
  <2>1. PICK x \in Solutions(query) : Return("SAT", {x})
    BY <1>3
  <2>2. Right(net, box, question, "SAT")
    BY <1>2 DEF Right
  <2> QED
    BY <1>1, <2>1, <2>2, ReturnStep
<1>4. CASE Solutions(query) = {} /\ Return("UNSAT", {})
  <2>1. Right(net, box, question, "UNSAT")
    BY <1>2, <1>4 DEF Right
  <2> QED
    BY <1>1, <1>4, <2>1, ReturnStep
<1>5. CASE Return("ERROR", {})
  BY <1>1, <1>5, NoAnswer, ReturnStep
<1>6. CASE Return("NOT_DONE", {})
  BY <1>1, <1>6, NoAnswer, ReturnStep
<1> QED
  BY <1>3, <1>4, <1>5, <1>6 DEF LeaveLoop

\* SIGQUIT sets _quit, whatever is going on.
LEMMA GotSignalStep == ExperimentInvariant /\ GotSignal => ExperimentInvariant'
<1> SUFFICES ASSUME ExperimentInvariant, GotSignal PROVE ExperimentInvariant'
  OBVIOUS
<1>1. /\ net' = net /\ box' = box /\ question' = question /\ query' = query
      /\ pc # "done" /\ pc' = pc /\ wasInitialized' = wasInitialized /\ todo' = todo
      /\ finalStatus' = finalStatus
  BY DEF GotSignal, experiment
<1>2. Setting' /\ Recorded'
  BY <1>1, SameQuestion DEF ExperimentInvariant, GotSignal
<1>3. QueryHeld'
  BY <1>1 DEF ExperimentInvariant, QueryHeld, Live
<1>4. Progress'
  BY <1>1 DEF ExperimentInvariant, Progress, Live, Startable
<1> QED
  BY <1>2, <1>3, <1>4 DEF ExperimentInvariant

\* A result more.
LEMMA Appended ==
  ASSUME NEW s, NEW S, s \in Seq(S), NEW e
  PROVE  /\ \E T : Append(s, e) \in Seq(T)
         /\ Len(Append(s, e)) = Len(s) + 1 /\ Len(s) \in Nat
         /\ \A k \in 1 .. Len(s) : Append(s, e)[k] = s[k]
         /\ Append(s, e)[Len(s) + 1] = e
<1>1. s \in Seq(S \cup {e}) /\ e \in S \cup {e}
  OBVIOUS
<1>2. Append(s, e) \in Seq(S \cup {e})
  BY <1>1
<1> QED
  BY <1>1, <1>2

\* The result is recorded, and the next question is asked if there is one.
LEMMA NextQuestionStep == ExperimentInvariant /\ NextQuestion => ExperimentInvariant'
<1> SUFFICES ASSUME ExperimentInvariant, NextQuestion PROVE ExperimentInvariant'
  OBVIOUS
<1> DEFINE e == [question |-> question, status |-> finalStatus,
                 printed |-> Printed(finalStatus), logged |-> Logged(finalStatus)]
<1>1. /\ net' = net /\ box' = box /\ driver' = driver /\ minimal' = minimal
      /\ finalStatus' = finalStatus /\ pc = "returned" /\ results' = Append(results, e)
  BY DEF NextQuestion, experiment
<1>2. Right(net, box, question, finalStatus)
  BY <1>1 DEF ExperimentInvariant, Progress
<1>3. /\ e.question = question /\ e.status = finalStatus /\ e.logged = Logged(finalStatus)
  OBVIOUS
<1>4. /\ part \in Nat /\ minimal \in Outputs
      /\ driver = "adversarial" =>
           part <= LayerSize[LastLayer] - 2 /\ question = AdversarialQuestion(part, minimal)
  BY DEF ExperimentInvariant, Setting
<1>5. /\ \E S : results \in Seq(S)
      /\ Len(results) = part
      /\ \A k \in 1 .. Len(results) : ResultRight(k)
  BY <1>1 DEF ExperimentInvariant, Recorded
<1> HIDE DEF e
<1>6. PICK S : results \in Seq(S)
  BY <1>5
<1>7. /\ \E T : results' \in Seq(T)
      /\ Len(results') = part + 1
      /\ \A k \in 1 .. part : results'[k] = results[k]
      /\ results'[part + 1] = e
  <2>1. /\ \E T : Append(results, e) \in Seq(T)
        /\ Len(Append(results, e)) = Len(results) + 1
        /\ \A k \in 1 .. Len(results) : Append(results, e)[k] = results[k]
        /\ Append(results, e)[Len(results) + 1] = e
    BY <1>6, Appended
  <2> QED
    BY <1>1, <1>5, <2>1
<1>8. LayerSize[LastLayer] \in Nat /\ LayerSize[LastLayer] > 1
  BY <1>4, RunnerUps
<1>9. ASSUME NEW k \in 1 .. part
      PROVE  ResultRight(k)'
  <2>1. ResultRight(k)
    BY <1>5
  <2>2. results'[k] = results[k] /\ k # Len(results) + 1
    BY <1>5, <1>7
  <2>3. driver = "adversarial" => results[k].status # "SAT"
    BY <2>1, <1>1 DEF ResultRight
  <2> QED
    BY <2>1, <2>2, <2>3, <1>1 DEF ResultRight
<1>10. CASE MoreParts
  <2>1. /\ driver = "adversarial" /\ finalStatus # "SAT" /\ part < LayerSize[LastLayer] - 2
    BY <1>10 DEF MoreParts
  <2>2. /\ part' = part + 1 /\ question' = AdversarialQuestion(part + 1, minimal)
        /\ pc' = "construct"
    BY <1>10 DEF NextQuestion
  <2>3. part + 1 \in 0 .. LayerSize[LastLayer] - 2
    BY <1>4, <1>8, <2>1
  <2>4. IsQuestion(AdversarialQuestion(part + 1, minimal))
    BY <1>4, <2>3, AdversarialAsked
  <2>5. Setting'
    BY <1>1, <1>4, <2>2, <2>3, <2>4 DEF ExperimentInvariant, Setting
  <2>6. ASSUME NEW k, k = part + 1
        PROVE  ResultRight(k)'
    <3>1. k - 1 = part
      BY <1>4, <2>6
    <3>2. /\ results'[k].question = question /\ results'[k].status = finalStatus
          /\ results'[k].logged = Logged(finalStatus)
      BY <1>3, <1>7, <2>6
    <3>3. question = AdversarialQuestion(k - 1, minimal)
      BY <1>4, <2>1, <3>1
    <3> QED
      BY <1>1, <1>2, <2>1, <3>2, <3>3 DEF ResultRight
  <2>7. \A k \in 1 .. part + 1 : k \in 1 .. part \/ k = part + 1
    BY <1>4
  <2>8. Recorded'
    <3>1. ASSUME NEW k \in 1 .. Len(results') PROVE ResultRight(k)'
      <4>1. k \in 1 .. part \/ k = part + 1
        BY <1>7, <2>7
      <4> QED
        BY <1>9, <2>6, <4>1
    <3>2. Len(results') = part' /\ pc' # "done"
      BY <1>7, <2>2
    <3> QED
      BY <1>7, <3>1, <3>2 DEF Recorded
  <2>9. QueryHeld' /\ Progress'
    BY <2>2 DEF QueryHeld, Progress, Live
  <2> QED
    BY <2>5, <2>8, <2>9 DEF ExperimentInvariant
<1>11. CASE ~MoreParts
  <2>1. pc' = "done" /\ part' = part /\ question' = question
    BY <1>11 DEF NextQuestion
  <2>2. Setting'
    BY <1>1, <2>1 DEF ExperimentInvariant, Setting
  <2>3. ResultRight(part + 1)'
    <3>1. (part + 1) - 1 = part
      BY <1>4
    <3> QED
      BY <1>1, <1>2, <1>3, <1>4, <1>7, <2>1, <3>1 DEF ResultRight
  <2>4. \A k \in 1 .. part + 1 : k \in 1 .. part \/ k = part + 1
    BY <1>4
  <2>5. driver = "adversarial" => results'[part + 1].status = "SAT" \/ part = LayerSize[LastLayer] - 2
    <3>1. driver = "adversarial" => finalStatus = "SAT" \/ ~(part < LayerSize[LastLayer] - 2)
      BY <1>11 DEF MoreParts
    <3> QED
      BY <1>3, <1>4, <1>7, <1>8, <3>1
  <2>6. Recorded'
    BY <1>1, <1>7, <1>9, <2>1, <2>3, <2>4, <2>5 DEF Recorded
  <2>7. QueryHeld' /\ Progress'
    BY <2>1 DEF QueryHeld, Progress, Live
  <2> QED
    BY <2>2, <2>6, <2>7 DEF ExperimentInvariant
<1> QED
  BY <1>10, <1>11

\* Nothing happens.
LEMMA UnchangedStep == ExperimentInvariant /\ UNCHANGED vars => ExperimentInvariant'
<1> SUFFICES ASSUME ExperimentInvariant, UNCHANGED vars PROVE ExperimentInvariant'
  OBVIOUS
<1>1. /\ net' = net /\ box' = box /\ driver' = driver /\ minimal' = minimal
      /\ question' = question /\ part' = part /\ pc' = pc /\ query' = query /\ todo' = todo
      /\ wasInitialized' = wasInitialized /\ finalStatus' = finalStatus /\ results' = results
  BY DEF vars, experiment
<1>2. Setting'
  BY <1>1 DEF ExperimentInvariant, Setting
<1>3. QueryHeld'
  BY <1>1 DEF ExperimentInvariant, QueryHeld, Live
<1>4. Progress'
  BY <1>1 DEF ExperimentInvariant, Progress, Live, Startable
<1>5. Recorded'
  BY <1>1 DEF ExperimentInvariant, Recorded, ResultRight
<1> QED
  BY <1>2, <1>3, <1>4, <1>5 DEF ExperimentInvariant

\* Every query is of the form that its driver gave it and holds of the inputs
\* what it should, and every recorded result is right, whatever the network,
\* the question, the layers' sizes, the errors and the signals.
THEOREM InvariantHolds == Spec => []ExperimentInvariant
<1>1. Init => ExperimentInvariant
  BY InitInvariant
<1>2. ExperimentInvariant /\ [Next]_vars => ExperimentInvariant'
  <2> SUFFICES ASSUME ExperimentInvariant, [Next]_vars PROVE ExperimentInvariant'
    OBVIOUS
  <2>1. CASE Construct
    BY <2>1, ConstructStep
  <2>2. CASE InitializeFirst
    BY <2>2, InitializeFirstStep
  <2>3. CASE InitializeRow
    BY <2>3, InitializeRowStep
  <2>4. CASE InitializeLast
    BY <2>4, InitializeLastStep
  <2>5. CASE Solve
    BY <2>5, SolveStep
  <2>6. CASE SolveEarly
    BY <2>6, SolveEarlyStep
  <2>7. CASE EnterLoop
    BY <2>7, EnterLoopStep
  <2>8. CASE LeaveLoop
    BY <2>8, LeaveLoopStep
  <2>9. CASE NextQuestion
    BY <2>9, NextQuestionStep
  <2>10. CASE GotSignal
    BY <2>10, GotSignalStep
  <2>11. CASE Finished
    BY <2>11, UnchangedStep DEF Finished
  <2>12. CASE UNCHANGED vars
    BY <2>12, UnchangedStep
  <2> QED
    BY <2>1, <2>2, <2>3, <2>4, <2>5, <2>6, <2>7, <2>8, <2>9, <2>10, <2>11, <2>12 DEF Next
<1> QED
  BY <1>1, <1>2, PTL DEF Spec

\* A query that was just written is of this form.
LEMMA WrittenHeld ==
  ASSUME ExperimentInvariant, Written
  PROVE  Setting /\ QueryForm(net, question, query) /\ HoldsAll(net, question, query, box)
BY DEF ExperimentInvariant, QueryHeld, Live, Written

\* At every step of initialize(), the output variables that follow from inputs
\* in a query are what evaluate_network computes: the equations that main()
\* writes encode the network, and the merges of pairs keep that.
THEOREM NetworkEncoded == Spec => []EncodesNetwork
<1>1. ExperimentInvariant => EncodesNetwork
  <2> SUFFICES ASSUME ExperimentInvariant, Written, NEW x \in Points(box), NEW o \in Outputs
               PROVE  Propagated(query, x)[B(LastLayer, o)] = Evaluate(net, x)[o]
    BY DEF EncodesNetwork
  <2> QED
    BY WrittenHeld, OutputsEncoded
<1> QED
  BY <1>1, InvariantHolds, PTL

\* At every step of initialize(), the inputs that satisfy the query are those
\* whose outputs answer the question: no bound that makeAllBoundsFinite sets
\* and no phase that it fixes loses a solution, and a query found refuted has
\* none.
THEOREM NoSolutionLost == Spec => []SolutionsKept
<1>1. ExperimentInvariant => SolutionsKept
  BY WrittenHeld, SolutionsAre DEF SolutionsKept
<1> QED
  BY <1>1, InvariantHolds, PTL

\* makeAllBoundsFinite never throws: on reaching a row, it finds one variable
\* at most with an infinite bound, and none after the last.
THEOREM InitializationSucceeds == Spec => []InitializeSucceeds
<1>1. ExperimentInvariant => InitializeSucceeds
  <2> SUFFICES ASSUME ExperimentInvariant, pc = "rows" PROVE InitializeSucceeds
    BY DEF InitializeSucceeds
  <2>1. IsNetwork(net) /\ IsQuestion(question)
    BY SettingFacts DEF ExperimentInvariant, Setting
  <2>2. /\ todo \subseteq Basics(question) /\ Working(net, question, query, todo)
    BY DEF ExperimentInvariant, Progress
  <2>3. CASE todo # {}
    <3>1. PICK y : y = Min(todo)
      OBVIOUS
    <3>2. PICK u : u = MakeBoundsFiniteOnRow(query, y)
      OBVIOUS
    <3>3. y \in Basics(question) /\ Least(todo, y)
      BY <2>1, <2>2, <2>3, <3>1, NextRow
    <3>4. RowDone(net, question, query, todo, y, u)
      BY <2>1, <2>2, <3>2, <3>3, RowStep
    <3>5. Cardinality(InfiniteOnRow(query, y)) = 1
      BY <3>4, FS_Singleton DEF RowDone
    <3> QED
      BY <2>3, <3>1, <3>5 DEF InitializeSucceeds
  <2>4. CASE todo = {}
    <3>1. Vars(query) = Var(question)
      BY <2>2 DEF Working, QueryForm, Vars
    <3>2. \A v \in Vars(query) : Finite(query, v)
      BY <2>1, <2>2, <2>4, <3>1, AllFinite
    <3> QED
      BY <2>4, <3>2 DEF InitializeSucceeds
  <2> QED
    BY <2>3, <2>4
<1> QED
  BY <1>1, InvariantHolds, PTL

\* After initialize() every equation holds, the non-basic variables are within
\* their bounds, and the pairs that are left to the search are those with both
\* phases possible.
THEOREM SolverReady == Spec => []ReadyToSolve
<1>1. ExperimentInvariant => ReadyToSolve
  <2> SUFFICES ASSUME ExperimentInvariant, Live, wasInitialized PROVE ReadyToSolve
    BY DEF ReadyToSolve
  <2>1. Working(net, question, query, {}) /\ QueryForm(net, question, query)
    BY DEF ExperimentInvariant, Progress, QueryHeld
  <2>2. DOMAIN query.rows = Basics(question) /\ Vars(query) = Var(question)
    BY <2>1 DEF QueryForm, RowsForm, Vars
  <2>3. \A y \in DOMAIN query.rows : Dot(query.rows[y], query.assignment, DOMAIN query.rows[y]) = 0
    BY <2>1, <2>2 DEF QueryForm, Equations
  <2>4. \A v \in Vars(query) : NonBasic(query, v) => ~OutOfBounds(query, v)
    BY <2>1, <2>2 DEF Working, NonBasicsIn, NonBasic
  <2>5. ASSUME NEW p \in Pairs
        PROVE  query.dissolved[p] = "no" <=> query.lower[p[1]] < 0 /\ query.upper[p[1]] > 0
    <3>1. PICK i \in Hidden : \E j \in Node(i) : p = <<B(i, j), F(i, j)>>
      BY PairFacts
    <3>2. PICK j \in Node(i) : p = <<B(i, j), F(i, j)>>
      BY <3>1
    <3>3. Visited(query, i, j) /\ p[1] = B(i, j)
      BY <2>1, <3>2 DEF Working
    <3> QED
      BY <3>2, <3>3 DEF Visited
  <2> QED
    BY <2>3, <2>4, <2>5 DEF ReadyToSolve
<1> QED
  BY <1>1, InvariantHolds, PTL

\* SAT and UNSAT are logged only of questions with and without an answer, in
\* spite of errors and of signals that interrupt solve().
THEOREM LogTellsTruth == Spec => []LogIsRight
<1>1. ExperimentInvariant => LogIsRight
  <2> SUFFICES ASSUME ExperimentInvariant, NEW k \in 1 .. Len(results)
               PROVE  LET r == results[k]
                          some == \E x \in Points(box) : Answers(r.question, Evaluate(net, x))
                      IN /\ r.logged = "SAT" => some
                         /\ r.logged = "UNSAT" => ~some
    BY DEF LogIsRight
  <2>1. ResultRight(k)
    BY DEF ExperimentInvariant, Recorded
  <2>2. results[k].logged = "SAT" => results[k].status = "SAT"
    BY <2>1 DEF ResultRight, Logged
  <2>3. results[k].logged = "UNSAT" => results[k].status = "UNSAT"
    BY <2>1 DEF ResultRight, Logged
  <2> QED
    BY <2>1, <2>2, <2>3 DEF ResultRight, Right
<1> QED
  BY <1>1, InvariantHolds, PTL

\* What an adversarial question's answer says.
LEMMA AnswerIsCounterexample ==
  ASSUME Setting, NEW i \in 0 .. LayerSize[LastLayer] - 2, NEW x \in Points(box)
  PROVE  /\ RunnerUp(i, minimal) \in Outputs \ {minimal}
         /\ Answers(AdversarialQuestion(i, minimal), Evaluate(net, x))
              <=> ~(Evaluate(net, x)[minimal] < Evaluate(net, x)[RunnerUp(i, minimal)])
<1> DEFINE o == RunnerUp(i, minimal) out == Evaluate(net, x)
<1>1. minimal \in Outputs /\ o \in Outputs \ {minimal}
  BY RunnerUps DEF Setting
<1>2. IsNetwork(net) /\ x \in [Inputs -> Int]
  BY SettingFacts DEF Setting
<1>3. out[o] \in Int /\ out[minimal] \in Int
  <2>1. LastLayer \in 1 .. LastLayer /\ o \in Node(LastLayer) /\ minimal \in Node(LastLayer)
    BY <1>1, LayerIndices
  <2> HIDE DEF o, out
  <2>2. \A p \in Node(LastLayer) : out[p] \in Int
    BY <1>2, <2>1, PreFacts DEF out
  <2> QED
    BY <2>1, <2>2
<1> HIDE DEF o, out
<1>4. Answers(AdversarialQuestion(i, minimal), out) <=> out[minimal] >= out[o]
  BY <1>1 DEF Answers, AdversarialQuestion, Question, o
<1>5. Answers(AdversarialQuestion(i, minimal), out) <=> ~(out[minimal] < out[o])
  BY <1>3, <1>4
<1> QED
  BY <1>1, <1>5 DEF o, out

\* When no part of it failed or was interrupted, the adversarial experiment
\* ends with a SAT exactly when the network is not robust at the point.
THEOREM RobustnessIsDecided == Spec => []RobustnessDecided
<1>1. ExperimentInvariant => RobustnessDecided
  <2> SUFFICES ASSUME ExperimentInvariant, driver = "adversarial", pc = "done",
                      \A k \in 1 .. Len(results) : results[k].status \in {"SAT", "UNSAT"}
               PROVE  results[Len(results)].status = "SAT" <=> ~Robust
    BY DEF RobustnessDecided
  <2>1. /\ Setting /\ part \in Nat /\ part <= LayerSize[LastLayer] - 2 /\ minimal \in Outputs
    BY DEF ExperimentInvariant, Setting
  <2>2. /\ Len(results) = part + 1
        /\ \A k \in 1 .. part + 1 : ResultRight(k)
        /\ results[part + 1].status = "SAT" \/ part = LayerSize[LastLayer] - 2
    BY DEF ExperimentInvariant, Recorded
  <2>3. LayerSize[LastLayer] \in Nat /\ part + 1 \in 1 .. part + 1 /\ (part + 1) - 1 = part
        /\ part \in 0 .. LayerSize[LastLayer] - 2
    <3>1. LayerSize[LastLayer] \in Nat
      BY <2>1, RunnerUps
    <3> QED
      BY <2>1, <3>1
  <2>4. CASE results[part + 1].status = "SAT"
    <3>1. /\ Right(net, box, results[part + 1].question, results[part + 1].status)
          /\ results[part + 1].question = AdversarialQuestion(part, minimal)
      BY <2>2, <2>3 DEF ResultRight
    <3>2. PICK x \in Points(box) : Answers(AdversarialQuestion(part, minimal), Evaluate(net, x))
      BY <2>4, <3>1 DEF Right
    <3>3. ~(Evaluate(net, x)[minimal] < Evaluate(net, x)[RunnerUp(part, minimal)])
          /\ RunnerUp(part, minimal) \in Outputs \ {minimal}
      BY <2>1, <2>3, <3>2, AnswerIsCounterexample
    <3>4. ~Robust
      BY <3>3 DEF Robust
    <3> QED
      BY <2>2, <2>4, <3>4
  <2>5. CASE results[part + 1].status # "SAT"
    <3>1. part = LayerSize[LastLayer] - 2
      BY <2>2, <2>5
    <3>2. \A k \in 1 .. part + 1 : results[k].status = "UNSAT"
      <4> SUFFICES ASSUME NEW k \in 1 .. part + 1 PROVE results[k].status = "UNSAT"
        OBVIOUS
      <4>1. results[k].status \in {"SAT", "UNSAT"}
        BY <2>2
      <4>2. results[k].status # "SAT"
        BY <2>2, <2>5 DEF ResultRight
      <4> QED
        BY <4>1, <4>2
    <3>3. ASSUME NEW x \in Points(box), NEW o \in Outputs \ {minimal}
          PROVE  Evaluate(net, x)[minimal] < Evaluate(net, x)[o]
      <4>1. PICK i \in 0 .. LayerSize[LastLayer] - 2 : RunnerUp(i, minimal) = o
        BY <2>1, RunnerUps
      <4>2. PICK k : k = i + 1
        OBVIOUS
      <4>3. k \in 1 .. part + 1 /\ k - 1 = i
        BY <2>1, <2>3, <3>1, <4>2
      <4>4. /\ Right(net, box, results[k].question, "UNSAT")
            /\ results[k].question = AdversarialQuestion(i, minimal)
        BY <2>2, <3>2, <4>3 DEF ResultRight
      <4>5. ~Answers(AdversarialQuestion(i, minimal), Evaluate(net, x))
        BY <4>4 DEF Right
      <4> QED
        BY <2>1, <4>1, <4>5, AnswerIsCounterexample
    <3>4. Robust
      BY <3>3 DEF Robust
    <3> QED
      BY <2>2, <2>5, <3>4
  <2> QED
    BY <2>4, <2>5
<1> QED
  BY <1>1, InvariantHolds, PTL
=============================================================================
