----------------------------- MODULE SimplexProofs -----------------------------
(*************************************************************************)
(* Proofs about Simplex: the rows follow from the equations whatever is  *)
(* pivoted, merged, eliminated and restored, the assignment satisfies them, *)
(* what is refuted has no solution, and, where the repairs during a      *)
(* restoration are right, what is accepted is one.                       *)
(*************************************************************************)
EXTENDS Simplex, DotProductTheorems, TLAPS

-----------------------------------------------------------------------------
(*************************************************************************)
(* The form of a state, and pivots.                                      *)
(*************************************************************************)
Phases == {Active, "SPLIT", "MERGE"}
Tableaus(D) == UNION {[X -> [D -> Int]] : X \in SUBSET D}
States == [tableau : Tableaus(Var), assignment : [Var -> Int],
           lower : [Var -> Int], upper : [Var -> Int], dissolved : [F -> Phases]]

\* A basic variable has -1 in its row and nothing else in its column.
BasisForm(T) == \A y, z \in DOMAIN T : T[z][y] = IF z = y THEN -1 ELSE 0

RowsZero(T, a, S) == \A y \in DOMAIN T : Dot(T[y], a, S) = 0

\* What an assignment says of the query's variables.
Reading(s, a) == [x \in Var |-> IF MergedB(s, x) THEN a[PairOf(x)] ELSE a[x]]

\* Any assignment that satisfies the rows satisfies the equations.
RowsEntail(s, E) ==
  \A a \in [Var -> Int] :
    RowsZero(s.tableau, a, Var) /\ (\A y \in E : a[y] = 0)
      => \A y \in Aux : Dot(Equations[y], Reading(s, a), Var) = 0

\* The variables that an elimination or a merge took out of the rows.
Gone(s, E, x) == x \in E \/ MergedB(s, x)
GoneEmpty(s, E) == \A x \in Var : Gone(s, E, x) => NonBasic(s, x) /\ ColumnEmpty(s, x)

FormOK(s, E) ==
  /\ s \in States
  /\ BasisForm(s.tableau)
  /\ RowsZero(s.tableau, s.assignment, Var)
  /\ RowsEntail(s, E)
  /\ GoneEmpty(s, E)
  /\ \A y \in E : s.assignment[y] = 0

\* s is any record with bounds and dissolved pairs.
PairOK(s, f) ==
  LET b == B[f]
  IN  /\ s.lower[f] >= 0
      /\ s.dissolved[f] = Active =>
           /\ s.upper[f] = s.upper[b] /\ s.lower[b] <= s.lower[f]
           /\ s.lower[f] = 0 \/ s.lower[b] = s.lower[f]
      /\ s.dissolved[f] = "SPLIT" => s.upper[f] <= 0 /\ s.upper[b] <= 0
      /\ s.dissolved[f] = "MERGE" => s.lower[b] <= s.lower[f] /\ s.upper[f] <= s.upper[b]

Consistent(s, E) ==
  /\ \A x \in Var : s.lower[x] <= s.upper[x]
  /\ \A y \in E : s.lower[y] = 0 /\ s.upper[y] = 0
  /\ \A f \in F : PairOK(s, f)

AllActive(s) == \A f \in F : s.dissolved[f] = Active
InBounds(s) == \A x \in Var : NonBasic(s, x) => ~OutOfBounds(s, x)

-----------------------------------------------------------------------------
\* There are finitely many variables, and variable 0 is one.
LEMMA VarFinite == IsFiniteSet(Var) /\ Var \subseteq Nat /\ 0 \in Var
<1>1. NumVariables \in Nat \ {0}
  BY SimplexAssumption
<1>2. IsFiniteSet(0..NumVariables - 1)
  BY <1>1, FS_Interval
<1> QED BY <1>1, <1>2 DEF Var

\* The two variables of a pair, and how they are found from each other.
LEMMA PairFacts ==
  ASSUME NEW f \in F
  PROVE  /\ f \in Var /\ B[f] \in Var /\ B[f] \notin F /\ f # B[f]
         /\ f \notin Aux /\ B[f] \notin Aux
         /\ IsRelu(f) /\ IsRelu(B[f]) /\ IsB(B[f]) /\ ~IsB(f)
         /\ PairOf(f) = f /\ PairOf(B[f]) = f /\ Partner(f) = B[f] /\ Partner(B[f]) = f
<1>1. /\ F \subseteq Var /\ B \in [F -> Var \ F]
      /\ \A g \in F : B[f] = B[g] => f = g
      /\ f \notin Aux /\ B[f] \notin Aux
  BY SimplexAssumption
<1>2. B[f] \in Var /\ B[f] \notin F /\ \A g \in F : B[g] \notin F
  BY <1>1
<1>3. (CHOOSE g \in F : B[g] = B[f]) = f
  BY <1>1
<1> QED BY <1>1, <1>2, <1>3 DEF IsRelu, IsB, PairOf, Partner

\* A variable of a pair is its f or its b.
LEMMA ReluVariable ==
  ASSUME NEW x, IsRelu(x)
  PROVE  /\ PairOf(x) \in F /\ Partner(x) \in Var
         /\ \/ x = PairOf(x) /\ Partner(x) = B[x]
            \/ x \notin F /\ x = B[PairOf(x)] /\ Partner(x) = PairOf(x)
<1>1. CASE x \in F
  BY <1>1, PairFacts
<1>2. CASE x \notin F
  <2>1. PICK f \in F : x = B[f]
    BY <1>2 DEF IsRelu, IsB
  <2> QED BY <1>2, <2>1, PairFacts
<1> QED BY <1>1, <1>2

\* A tableau maps some variables to rows.
LEMMA TableauIn ==
  ASSUME NEW D, NEW T
  PROVE  T \in Tableaus(D) <=> DOMAIN T \subseteq D /\ T \in [DOMAIN T -> [D -> Int]]
BY DEF Tableaus

-----------------------------------------------------------------------------
\* A pivot, on any tableau.
Pivoted(T, x, y) ==
  LET entering == Scaled(T[y], -T[y][x])
  IN  [z \in (DOMAIN T \ {y}) \cup {x} |->
         IF z = x THEN entering ELSE Sum(T[z], entering, T[z][x])]

\* A pivot changes the tableau only.
LEMMA PivotIsPivoted ==
  ASSUME NEW s, NEW x, NEW y
  PROVE  Pivot(s, x, y) = [s EXCEPT !.tableau = Pivoted(s.tableau, x, y)]
BY DEF Pivot, Pivoted, Basic

EntriesPivoted(P, D, T, x, y, k) ==
  /\ DOMAIN P = (DOMAIN T \ {y}) \cup {x}
  /\ P \in Tableaus(D)
  /\ \A w \in D : P[x][w] = (-k) * T[y][w]
  /\ \A z \in DOMAIN T \ {y}, w \in D : P[z][w] = T[z][w] + T[z][x] * ((-k) * T[y][w])

\* The entries after a pivot.
LEMMA PivotedEntries ==
  ASSUME NEW D, NEW T \in Tableaus(D), NEW y \in DOMAIN T, NEW x \in D \ DOMAIN T,
         NEW k, k = T[y][x]
  PROVE  EntriesPivoted(Pivoted(T, x, y), D, T, x, y, k)
<1> DEFINE entering == [w \in D |-> (-k) * T[y][w]]
           new(z) == [w \in D |-> T[z][w] + T[z][x] * entering[w]]
<1>1. DOMAIN T \subseteq D /\ \A z \in DOMAIN T : T[z] \in [D -> Int]
  BY TableauIn
<1>2. entering \in [D -> Int] /\ entering = Scaled(T[y], -k)
  BY <1>1 DEF Scaled
<1>3. \A z \in DOMAIN T : new(z) \in [D -> Int] /\ new(z) = Sum(T[z], entering, T[z][x])
  BY <1>1, <1>2 DEF Sum
<1>4. Pivoted(T, x, y) = [z \in (DOMAIN T \ {y}) \cup {x} |-> IF z = x THEN entering ELSE new(z)]
  BY <1>2, <1>3 DEF Pivoted
<1>5. \A z \in DOMAIN T \ {y}, w \in D :
        new(z)[w] = T[z][w] + T[z][x] * ((-k) * T[y][w])
  OBVIOUS
<1>6. \A w \in D : entering[w] = (-k) * T[y][w]
  OBVIOUS
<1> HIDE DEF entering, new
<1>7. /\ DOMAIN Pivoted(T, x, y) = (DOMAIN T \ {y}) \cup {x}
      /\ Pivoted(T, x, y)[x] = entering
      /\ \A z \in DOMAIN T \ {y} : Pivoted(T, x, y)[z] = new(z)
  BY <1>4
<1>8. Pivoted(T, x, y) \in Tableaus(D)
  <2>1. \A z \in (DOMAIN T \ {y}) \cup {x} : Pivoted(T, x, y)[z] \in [D -> Int]
    <3>1. ASSUME NEW z \in DOMAIN T \ {y}
          PROVE  Pivoted(T, x, y)[z] \in [D -> Int]
      <4>1. new(z) \in [D -> Int]
        BY <1>3
      <4> QED BY <1>7, <4>1
    <3>2. Pivoted(T, x, y)[x] \in [D -> Int]
      BY <1>2, <1>7
    <3> QED BY <3>1, <3>2
  <2>2. (DOMAIN T \ {y}) \cup {x} \subseteq D
    BY <1>1
  <2>3. Pivoted(T, x, y) \in [(DOMAIN T \ {y}) \cup {x} -> [D -> Int]]
    BY <1>4, <2>1
  <2> QED BY <1>7, <2>2, <2>3, TableauIn
<1> QED BY <1>5, <1>6, <1>7, <1>8 DEF EntriesPivoted

\* A pivot on a unit keeps the form, and the empty columns empty.
LEMMA PivotedForm ==
  ASSUME NEW D, NEW T \in Tableaus(D), BasisForm(T), NEW y \in DOMAIN T,
         NEW x \in D \ {y}, NEW k \in {-1, 1}, T[y][x] = k
  PROVE  /\ x \notin DOMAIN T
         /\ BasisForm(Pivoted(T, x, y))
         /\ \A z \in D : z \notin DOMAIN T /\ (\A w \in DOMAIN T : T[w][z] = 0)
              => /\ z \notin DOMAIN Pivoted(T, x, y)
                 /\ \A w \in DOMAIN Pivoted(T, x, y) : Pivoted(T, x, y)[w][z] = 0
<1> DEFINE P == Pivoted(T, x, y)
<1>0. DOMAIN T \subseteq D /\ \A z \in DOMAIN T, w \in D : T[z][w] \in Int
  BY TableauIn
<1>1. x \notin DOMAIN T
  BY DEF BasisForm
<1>2. /\ DOMAIN P = (DOMAIN T \ {y}) \cup {x}
      /\ \A w \in D : P[x][w] = (-k) * T[y][w]
      /\ \A z \in DOMAIN T \ {y}, w \in D : P[z][w] = T[z][w] + T[z][x] * ((-k) * T[y][w])
  <2>1. EntriesPivoted(P, D, T, x, y, k)
    BY <1>1, PivotedEntries
  <2> HIDE DEF P
  <2> QED BY <2>1 DEF EntriesPivoted
<1> HIDE DEF P
<1>3. BasisForm(P)
  <2> SUFFICES ASSUME NEW v \in DOMAIN P, NEW z \in DOMAIN P
               PROVE P[z][v] = IF z = v THEN -1 ELSE 0
    BY DEF BasisForm
  <2>1. CASE z = x /\ v = x
    BY <1>2, <2>1
  <2>2. CASE z = x /\ v # x
    <3>1. v \in DOMAIN T /\ T[y][v] = 0
      BY <1>2, <2>2 DEF BasisForm
    <3> QED BY <1>0, <1>2, <2>2, <3>1
  <2>3. CASE z # x /\ v = x
    <3>1. z \in DOMAIN T \ {y} /\ T[z][x] \in Int
      BY <1>0, <1>2, <2>3
    <3>2. P[z][x] = T[z][x] + T[z][x] * ((-k) * k)
      BY <1>2, <3>1
    <3>3. (-k) * k = -1
      OBVIOUS
    <3>4. \A i \in Int : i + i * (-1) = 0
      OBVIOUS
    <3> QED BY <2>3, <3>1, <3>2, <3>3, <3>4
  <2>4. CASE z # x /\ v # x
    <3>1. z \in DOMAIN T \ {y} /\ v \in DOMAIN T \ {y} /\ T[y][v] = 0
            /\ T[z][v] = IF z = v THEN -1 ELSE 0
      BY <1>2, <2>4 DEF BasisForm
    <3>2. P[z][v] = T[z][v] + T[z][x] * ((-k) * 0)
      BY <1>0, <1>2, <3>1
    <3>3. T[z][x] \in Int
      BY <1>0, <3>1
    <3>4. T[z][x] * ((-k) * 0) = 0
      BY <3>3
    <3> QED BY <3>1, <3>2, <3>4
  <2> QED BY <2>1, <2>2, <2>3, <2>4
<1>4. ASSUME NEW z \in D, z \notin DOMAIN T, \A w \in DOMAIN T : T[w][z] = 0
      PROVE  z \notin DOMAIN P /\ \A w \in DOMAIN P : P[w][z] = 0
  <2>1. z # x
    BY <1>4
  <2>2. ASSUME NEW w \in DOMAIN T \ {y} PROVE P[w][z] = 0
    <3>0. T[w][z] = 0 /\ T[y][z] = 0
      BY <1>4
    <3>1. P[w][z] = 0 + T[w][x] * ((-k) * 0) /\ T[w][x] \in Int
      <4>1. P[w][z] = T[w][z] + T[w][x] * ((-k) * T[y][z])
        BY <1>2, <1>4
      <4>2. T[w][x] \in Int
        BY <1>0
      <4> QED BY <3>0, <4>1, <4>2
    <3>2. T[w][x] * ((-k) * 0) = 0
      BY <3>1
    <3> QED BY <3>1, <3>2
  <2>3. P[x][z] = 0
    BY <1>2, <1>4
  <2> QED BY <1>2, <1>4, <2>1, <2>2, <2>3
<1> QED BY <1>1, <1>3, <1>4 DEF P

\* The rows before and after a pivot have the same solutions.
LEMMA PivotedZero ==
  ASSUME NEW D, NEW T \in Tableaus(D), BasisForm(T), NEW y \in DOMAIN T,
         NEW x \in D \ {y}, NEW k \in {-1, 1}, T[y][x] = k,
         NEW S \in SUBSET D, IsFiniteSet(S), NEW a, IntOn(a, S)
  PROVE  RowsZero(Pivoted(T, x, y), a, S) <=> RowsZero(T, a, S)
<1> DEFINE P == Pivoted(T, x, y)
<1>0. DOMAIN T \subseteq D /\ \A z \in DOMAIN T, w \in D : T[z][w] \in Int
  BY TableauIn
<1>1. x \notin DOMAIN T
  BY DEF BasisForm
<1>2. /\ DOMAIN P = (DOMAIN T \ {y}) \cup {x}
      /\ P \in Tableaus(D)
      /\ \A w \in D : P[x][w] = (-k) * T[y][w]
      /\ \A z \in DOMAIN T \ {y}, w \in D : P[z][w] = T[z][w] + T[z][x] * ((-k) * T[y][w])
  <2>1. EntriesPivoted(P, D, T, x, y, k)
    BY <1>1, PivotedEntries
  <2> HIDE DEF P
  <2> QED BY <2>1 DEF EntriesPivoted
<1> HIDE DEF P
<1>3. \A z \in DOMAIN T : IntOn(T[z], S)
  BY <1>0 DEF IntOn
<1>4. \A z \in DOMAIN P : IntOn(P[z], S)
  BY <1>2, TableauIn DEF IntOn
<1>5. Dot(P[x], a, S) = 0 + (-k) * Dot(T[y], a, S)
  <2> DEFINE none == [w \in S |-> 0]
  <2>1. IntOn(none, S) /\ \A w \in S : none[w] * a[w] = 0
    BY DEF IntOn
  <2>2. \A w \in S : P[x][w] * a[w] = none[w] * a[w] + (-k) * (T[y][w] * a[w])
    <3> TAKE w \in S
    <3>1. T[y][w] \in Int /\ a[w] \in Int
      BY <1>3 DEF IntOn
    <3>2. P[x][w] = (-k) * T[y][w]
      BY <1>2
    <3>3. \A i, j \in Int : ((-k) * i) * j = 0 + (-k) * (i * j)
      OBVIOUS
    <3> QED BY <2>1, <3>1, <3>2, <3>3
  <2>3. Dot(none, a, S) = Dot(none, a, {})
    BY <2>1, DotSupport
  <2>4. x \in DOMAIN P /\ -k \in Int
    BY <1>2
  <2>5. Dot(P[x], a, S) = Dot(none, a, S) + (-k) * Dot(T[y], a, S)
    BY <1>3, <1>4, <2>1, <2>2, <2>4, DotCombines
  <2> QED BY <2>3, <2>5, DotEmpty
<1>6. ASSUME NEW z \in DOMAIN T \ {y}
      PROVE  Dot(P[z], a, S) = Dot(T[z], a, S) + T[z][x] * Dot(P[x], a, S)
  <2>1. z \in DOMAIN P /\ x \in DOMAIN P /\ T[z][x] \in Int
    BY <1>0, <1>2
  <2>2. \A w \in S : P[z][w] * a[w] = T[z][w] * a[w] + T[z][x] * (P[x][w] * a[w])
    <3> TAKE w \in S
    <3>1. T[z][w] \in Int /\ P[x][w] \in Int /\ a[w] \in Int
      BY <1>3, <1>4, <2>1 DEF IntOn
    <3>2. P[z][w] = T[z][w] + T[z][x] * P[x][w]
      BY <1>2
    <3>3. \A h, i, j, l \in Int : (h + i * j) * l = h * l + i * (j * l)
      OBVIOUS
    <3> QED BY <2>1, <3>1, <3>2, <3>3
  <2> QED BY <1>3, <1>4, <2>1, <2>2, DotCombines
<1>7. Dot(T[y], a, S) \in Int /\ \A z \in DOMAIN T : Dot(T[z], a, S) \in Int
  BY <1>3, DotInt
<1>8. Dot(P[x], a, S) = 0 <=> Dot(T[y], a, S) = 0
  <2>1. \A i \in Int : (0 + (-k) * i = 0) <=> i = 0
    OBVIOUS
  <2> QED BY <1>5, <1>7, <2>1
<1>9. Dot(P[x], a, S) = 0 =>
        \A z \in DOMAIN T \ {y} : Dot(P[z], a, S) = Dot(T[z], a, S)
  <2> SUFFICES ASSUME Dot(P[x], a, S) = 0, NEW z \in DOMAIN T \ {y}
               PROVE Dot(P[z], a, S) = Dot(T[z], a, S)
    OBVIOUS
  <2>1. T[z][x] \in Int /\ \A i \in Int : i * 0 = 0
    BY <1>0
  <2> QED BY <1>6, <1>7, <2>1
<1>10. RowsZero(P, a, S) <=> RowsZero(T, a, S)
  BY <1>1, <1>2, <1>8, <1>9 DEF RowsZero
<1> QED BY <1>10 DEF P

-----------------------------------------------------------------------------
(*************************************************************************)
(* What leaves the form of a state alone: pivots, updates, eliminations and *)
(* merges of columns.                                                    *)
(*************************************************************************)
\* The tableau is another one with the same solutions; nothing else is.
Same(s, t) ==
  /\ t \in States
  /\ BasisForm(t.tableau)
  /\ t.assignment = s.assignment /\ t.lower = s.lower /\ t.upper = s.upper
  /\ t.dissolved = s.dissolved
  /\ \A a \in [Var -> Int] : RowsZero(t.tableau, a, Var) <=> RowsZero(s.tableau, a, Var)
  /\ \A x \in Var : NonBasic(s, x) /\ ColumnEmpty(s, x) => NonBasic(t, x) /\ ColumnEmpty(t, x)

\* The parts of a state.
LEMMA StateFields ==
  ASSUME NEW s \in States
  PROVE  /\ s.tableau \in Tableaus(Var) /\ Basic(s) \subseteq Var
         /\ \A y \in Basic(s) : s.tableau[y] \in [Var -> Int]
         /\ s.assignment \in [Var -> Int]
         /\ s.lower \in [Var -> Int] /\ s.upper \in [Var -> Int]
         /\ s.dissolved \in [F -> Phases]
<1>1. s.tableau \in Tableaus(Var)
  BY DEF States
<1>2. Basic(s) \subseteq Var /\ \A y \in Basic(s) : s.tableau[y] \in [Var -> Int]
  BY <1>1, TableauIn DEF Basic
<1> QED BY <1>1, <1>2 DEF States

\* A pivot on a unit leaves the solutions of the rows.
LEMMA PivotSame ==
  ASSUME NEW s \in States, BasisForm(s.tableau), NEW y \in Basic(s),
         NEW x \in Var \ {y}, UnitAt(s, y, x)
  PROVE  /\ Same(s, Pivot(s, x, y))
         /\ Basic(Pivot(s, x, y)) = (Basic(s) \ {y}) \cup {x}
         /\ NonBasic(s, x)
<1> DEFINE T == s.tableau
           P == Pivoted(T, x, y)
           t == [s EXCEPT !.tableau = P]
<1>1. PICK k \in {-1, 1} : T[y][x] = k
  BY DEF UnitAt
<1>2. T \in Tableaus(Var) /\ y \in DOMAIN T /\ Var \in SUBSET Var /\ IsFiniteSet(Var)
  BY StateFields, VarFinite DEF Basic
<1>3. x \notin DOMAIN T /\ BasisForm(P)
        /\ \A z \in Var : z \notin DOMAIN T /\ (\A w \in DOMAIN T : T[w][z] = 0)
              => z \notin DOMAIN P /\ \A w \in DOMAIN P : P[w][z] = 0
  BY <1>1, <1>2, PivotedForm
<1>4. EntriesPivoted(P, Var, T, x, y, k)
  BY <1>1, <1>2, <1>3, PivotedEntries
<1>5. \A a \in [Var -> Int] : RowsZero(P, a, Var) <=> RowsZero(T, a, Var)
  <2> TAKE a \in [Var -> Int]
  <2>1. IntOn(a, Var)
    BY DEF IntOn
  <2> QED BY <1>1, <1>2, <2>1, PivotedZero
<1>6. P \in Tableaus(Var) /\ DOMAIN P = (DOMAIN T \ {y}) \cup {x}
  BY <1>4 DEF EntriesPivoted
<1> HIDE DEF P
<1>7. /\ t \in States /\ t.tableau = P
      /\ t.assignment = s.assignment /\ t.lower = s.lower /\ t.upper = s.upper
      /\ t.dissolved = s.dissolved
  BY <1>6 DEF States
<1>8. t = Pivot(s, x, y)
  BY PivotIsPivoted DEF P
<1> HIDE DEF t
<1>9. \A z \in Var : NonBasic(s, z) /\ ColumnEmpty(s, z) => NonBasic(t, z) /\ ColumnEmpty(t, z)
  BY <1>3, <1>7 DEF NonBasic, ColumnEmpty, Basic
<1>10. Same(s, t)
  BY <1>3, <1>5, <1>7, <1>9 DEF Same
<1> QED BY <1>3, <1>6, <1>7, <1>8, <1>10 DEF Basic, NonBasic

\* Nothing done is such a change.
LEMMA SameRefl ==
  ASSUME NEW s \in States, BasisForm(s.tableau)
  PROVE  Same(s, s)
BY DEF Same

\* Two such changes are one.
LEMMA SameTrans ==
  ASSUME NEW s, NEW t, NEW u, Same(s, t), Same(t, u)
  PROVE  Same(s, u)
BY DEF Same

\* What is merged depends on the dissolved pairs only.
LEMMA MergedOf ==
  ASSUME NEW s, NEW t, t.dissolved = s.dissolved
  PROVE  /\ \A x : MergedB(t, x) <=> MergedB(s, x)
         /\ \A a : Reading(t, a) = Reading(s, a)
         /\ \A f : Broken(t, f) => t.dissolved[f] = Active
BY DEF MergedB, Reading, Broken

\* Such a change keeps the form of a state.
LEMMA SameForm ==
  ASSUME NEW s, NEW t, NEW E \in SUBSET Var, FormOK(s, E), Same(s, t)
  PROVE  FormOK(t, E)
<1>1. s \in States /\ t \in States
  BY DEF FormOK, Same
<1>2. RowsZero(t.tableau, t.assignment, Var)
  BY <1>1, StateFields DEF FormOK, Same
<1>3. RowsEntail(t, E)
  <2>1. \A a : Reading(t, a) = Reading(s, a)
    BY MergedOf DEF Same
  <2> QED BY <2>1 DEF RowsEntail, FormOK, Same
<1>4. GoneEmpty(t, E)
  <2>1. \A x : MergedB(t, x) <=> MergedB(s, x)
    BY MergedOf DEF Same
  <2> QED BY <2>1 DEF GoneEmpty, Gone, FormOK, Same
<1> QED BY <1>1, <1>2, <1>3, <1>4 DEF FormOK, Same

\* Such a change keeps the bounds.
LEMMA SameConsistent ==
  ASSUME NEW s, NEW t, NEW E, Consistent(s, E), Same(s, t)
  PROVE  Consistent(t, E)
BY DEF Consistent, PairOK, Same

-----------------------------------------------------------------------------
\* Only the values of x and of basic variables are changed.
Changed(s, t, x, v) ==
  /\ t \in States
  /\ t.tableau = s.tableau /\ t.lower = s.lower /\ t.upper = s.upper
  /\ t.dissolved = s.dissolved
  /\ t.assignment[x] = v
  /\ \A z \in Var \ {x} : NonBasic(s, z) => t.assignment[z] = s.assignment[z]

\* An update moves its variable and the basic ones only.
LEMMA UpdateChanges ==
  ASSUME NEW s \in States, NEW x \in Var, NEW v \in Int
  PROVE  /\ Changed(s, Update(s, x, v), x, v)
         /\ \A z \in Var \ {x} : z \in Basic(s) =>
              Update(s, x, v).assignment[z] =
                s.assignment[z] + (v - s.assignment[x]) * s.tableau[z][x]
<1> DEFINE new == [z \in Var |-> IF z = x THEN v
                     ELSE IF z \in Basic(s)
                     THEN s.assignment[z] + (v - s.assignment[x]) * s.tableau[z][x]
                     ELSE s.assignment[z]]
<1>1. Update(s, x, v) = [s EXCEPT !.assignment = new]
  BY DEF Update
<1>2. s.assignment \in [Var -> Int] /\ \A y \in Basic(s) : s.tableau[y] \in [Var -> Int]
  BY StateFields
<1>3. new \in [Var -> Int]
  <2>1. \A z \in Basic(s) : s.assignment[x] \in Int /\ s.tableau[z][x] \in Int
    BY <1>2
  <2>2. \A z \in Basic(s) : (v - s.assignment[x]) * s.tableau[z][x] \in Int
    BY <2>1
  <2> QED BY <1>2, <2>2
<1>4. /\ new[x] = v
      /\ \A z \in Var \ {x} : NonBasic(s, z) => new[z] = s.assignment[z]
      /\ \A z \in Var \ {x} : z \in Basic(s) =>
           new[z] = s.assignment[z] + (v - s.assignment[x]) * s.tableau[z][x]
  BY DEF NonBasic
<1> HIDE DEF new
<1>5. /\ Update(s, x, v) \in States
      /\ Update(s, x, v).tableau = s.tableau
      /\ Update(s, x, v).lower = s.lower /\ Update(s, x, v).upper = s.upper
      /\ Update(s, x, v).dissolved = s.dissolved
      /\ Update(s, x, v).assignment = new
  BY <1>1, <1>3 DEF States
<1> QED BY <1>4, <1>5 DEF Changed

\* The update of a non-basic variable: the rows still hold.
LEMMA UpdateZero ==
  ASSUME NEW s \in States, BasisForm(s.tableau), NEW x \in Var, NonBasic(s, x), NEW v \in Int,
         RowsZero(s.tableau, s.assignment, Var)
  PROVE  RowsZero(s.tableau, Update(s, x, v).assignment, Var)
<1> DEFINE a == s.assignment
           T == s.tableau
           b == Update(s, x, v).assignment
           d == v - a[x]
           move == [z \in Var |-> IF z = x THEN 1 ELSE IF z \in Basic(s) THEN T[z][x] ELSE 0]
<1>1. a \in [Var -> Int] /\ Basic(s) \subseteq Var /\ \A y \in Basic(s) : T[y] \in [Var -> Int]
  BY StateFields
<1>2. Changed(s, Update(s, x, v), x, v)
  BY UpdateChanges
<1>3. b \in [Var -> Int]
  BY <1>2, StateFields DEF Changed
<1>4. /\ move \in [Var -> Int] /\ move[x] = 1 /\ d \in Int
      /\ \A z \in Basic(s) : move[z] = T[z][x]
      /\ \A z \in Var \ {x} : z \notin Basic(s) => move[z] = 0
  BY <1>1 DEF NonBasic
<1>5. \A z \in Var : b[z] = a[z] + d * move[z]
  <2> TAKE z \in Var
  <2>1. CASE z = x
    BY <1>1, <1>2, <1>4, <2>1 DEF Changed
  <2>2. CASE z # x /\ z \in Basic(s)
    <3>1. b[z] = a[z] + d * T[z][x]
      BY <2>2, UpdateChanges
    <3> QED BY <1>4, <2>2, <3>1
  <2>3. CASE z # x /\ z \notin Basic(s)
    <3>1. b[z] = a[z] /\ move[z] = 0 /\ a[z] \in Int
      BY <1>1, <1>2, <1>4, <2>3 DEF Changed, NonBasic
    <3>2. d * 0 = 0
      BY <1>4
    <3> QED BY <3>1, <3>2
  <2> QED BY <2>1, <2>2, <2>3
<1> HIDE DEF a, b, d, move
<1>6. ASSUME NEW y \in Basic(s) PROVE Dot(T[y], b, Var) = 0
  <2>1. IntOn(T[y], Var) /\ IntOn(a, Var) /\ IntOn(b, Var) /\ IntOn(move, Var)
    BY <1>1, <1>3, <1>4 DEF IntOn
  <2>2. Dot(T[y], a, Var) = 0
    BY DEF RowsZero, a, Basic
  <2>3. Dot(T[y], move, Var) = 0
    <3>1. y \in Var /\ x # y /\ T[y][y] = -1 /\ \A z \in Basic(s) \ {y} : T[y][z] = 0
      BY <1>1 DEF BasisForm, Basic, NonBasic
    <3>2. \A z \in Var \ {x, y} : T[y][z] * move[z] = 0
      <4> TAKE z \in Var \ {x, y}
      <4>1. T[y][z] \in Int /\ move[z] \in Int
        BY <1>1, <1>4
      <4>2. T[y][z] = 0 \/ move[z] = 0
        BY <1>4, <3>1
      <4> QED BY <4>1, <4>2
    <3>3. Dot(T[y], move, Var) = Dot(T[y], move, {x, y})
      <4>1. {x, y} \in SUBSET Var
        BY <3>1
      <4> QED BY <2>1, <3>2, <4>1, VarFinite, DotSupport
    <3>4. Dot(T[y], move, {x, y}) = T[y][x] * move[x] + Dot(T[y], move, {x, y} \ {x})
      <4>1. IsFiniteSet({x, y}) /\ IntOn(T[y], {x, y}) /\ IntOn(move, {x, y})
        BY <2>1, <3>1, VarFinite, FS_Subset DEF IntOn
      <4> QED BY <4>1, DotRemove
    <3>5. Dot(T[y], move, {y}) = T[y][y] * move[y] + Dot(T[y], move, {y} \ {y})
      <4>1. IsFiniteSet({y}) /\ IntOn(T[y], {y}) /\ IntOn(move, {y})
        BY <2>1, <3>1, VarFinite, FS_Subset DEF IntOn
      <4> QED BY <4>1, DotRemove
    <3>6. {x, y} \ {x} = {y} /\ {y} \ {y} = {}
      BY <3>1
    <3>7. Dot(T[y], move, {}) = 0
      BY DotEmpty
    <3>8. T[y][x] \in Int /\ move[y] = T[y][x] /\ move[x] = 1
      BY <1>1, <1>4
    <3>9. \A i \in Int : i * 1 + ((-1) * i + 0) = 0
      OBVIOUS
    <3>10. Dot(T[y], move, {x, y}) = T[y][x] * 1 + ((-1) * T[y][x] + 0)
      BY <3>1, <3>4, <3>5, <3>6, <3>7, <3>8
    <3> QED BY <3>3, <3>8, <3>9, <3>10
  <2>4. Dot(T[y], b, Var) = Dot(T[y], a, Var) + d * Dot(T[y], move, Var)
    <3>1. \A z \in Var : T[y][z] * b[z] = T[y][z] * a[z] + d * (T[y][z] * move[z])
      <4> TAKE z \in Var
      <4>1. T[y][z] \in Int /\ a[z] \in Int /\ move[z] \in Int /\ b[z] = a[z] + d * move[z]
        BY <1>5, <2>1 DEF IntOn
      <4>2. \A h, i, j \in Int : h * (i + d * j) = h * i + d * (h * j)
        BY <1>4
      <4> QED BY <4>1, <4>2
    <3>2. IsFiniteSet(Var) /\ d \in Int
      BY <1>4, VarFinite
    <3> QED BY <2>1, <3>1, <3>2, DotCombines
  <2>5. d * 0 = 0
    BY <1>4
  <2> QED BY <2>2, <2>3, <2>4, <2>5
<1> QED BY <1>6 DEF RowsZero, b, Basic

\* The bounds and the dissolved pairs may change, but not which are merged.
LEMMA BoundsForm ==
  ASSUME NEW s, NEW t \in States, NEW E, FormOK(s, E),
         t.tableau = s.tableau, t.assignment = s.assignment,
         \A f \in F : t.dissolved[f] = "MERGE" <=> s.dissolved[f] = "MERGE"
  PROVE  FormOK(t, E)
<1>1. \A x : MergedB(t, x) <=> MergedB(s, x)
  BY PairFacts DEF MergedB, IsB
<1>2. \A a : Reading(t, a) = Reading(s, a)
  BY <1>1 DEF Reading
<1>3. RowsEntail(t, E)
  BY <1>2 DEF RowsEntail, FormOK
<1>4. GoneEmpty(t, E)
  BY <1>1 DEF GoneEmpty, Gone, FormOK, NonBasic, ColumnEmpty, Basic
<1> QED BY <1>3, <1>4 DEF FormOK

\* An update of a non-basic variable keeps the form.
LEMMA UpdateForm ==
  ASSUME NEW s, NEW E \in SUBSET Var, FormOK(s, E), NEW x \in Var, NonBasic(s, x), NEW v \in Int,
         x \in E => v = 0
  PROVE  FormOK(Update(s, x, v), E)
<1> DEFINE t == Update(s, x, v)
<1>1. s \in States /\ BasisForm(s.tableau)
  BY DEF FormOK
<1>2. Changed(s, t, x, v)
  BY <1>1, UpdateChanges
<1>3. RowsZero(s.tableau, t.assignment, Var)
  BY <1>1, UpdateZero DEF FormOK
<1> HIDE DEF t
<1>4. \A y \in E : t.assignment[y] = 0
  BY <1>2 DEF FormOK, Changed, GoneEmpty, Gone
<1>5. (\A z : MergedB(t, z) <=> MergedB(s, z)) /\ (\A a : Reading(t, a) = Reading(s, a))
  BY <1>2, MergedOf DEF Changed
<1>6. RowsEntail(t, E)
  BY <1>2, <1>5 DEF RowsEntail, FormOK, Changed
<1>7. GoneEmpty(t, E)
  BY <1>2, <1>5 DEF GoneEmpty, Gone, FormOK, Changed, NonBasic, ColumnEmpty, Basic
<1>8. FormOK(t, E)
  BY <1>1, <1>2, <1>3, <1>4, <1>6, <1>7 DEF FormOK, Changed
<1> QED BY <1>8 DEF t

-----------------------------------------------------------------------------
\* The column of an eliminated variable, which is zero, is erased.
LEMMA EraseForm ==
  ASSUME NEW s, NEW E \in SUBSET Var, FormOK(s, E), NEW y \in Var, NonBasic(s, y),
         s.assignment[y] = 0
  PROVE  /\ FormOK(EraseColumn(s, y), E \cup {y})
         /\ EraseColumn(s, y) = [s EXCEPT !.tableau = EraseColumn(s, y).tableau]
         /\ Basic(EraseColumn(s, y)) = Basic(s)
<1> DEFINE T == s.tableau
           N == [z \in Basic(s) |-> [T[z] EXCEPT ![y] = 0]]
           t == [s EXCEPT !.tableau = N]
<1>1. s \in States /\ BasisForm(T) /\ RowsZero(T, s.assignment, Var)
  BY DEF FormOK
<1>2. Basic(s) \subseteq Var /\ Basic(s) = DOMAIN T /\ \A z \in Basic(s) : T[z] \in [Var -> Int]
  BY <1>1, StateFields DEF Basic
<1>3. \A z \in Basic(s) : N[z] \in [Var -> Int] /\ N[z][y] = 0
                           /\ \A w \in Var \ {y} : N[z][w] = T[z][w]
  BY <1>2
<1>4. N \in Tableaus(Var) /\ DOMAIN N = Basic(s)
  <2>1. N \in [Basic(s) -> [Var -> Int]]
    BY <1>3
  <2> QED BY <1>2, <2>1, TableauIn
<1>5. EraseColumn(s, y) = t
  BY DEF EraseColumn
<1> HIDE DEF N
<1>6. /\ t \in States /\ t.tableau = N /\ t.assignment = s.assignment
      /\ t.dissolved = s.dissolved
  BY <1>1, <1>4 DEF States
<1> HIDE DEF t
<1>7. ASSUME NEW a \in [Var -> Int], a[y] = 0
      PROVE  RowsZero(N, a, Var) <=> RowsZero(T, a, Var)
  <2>1. ASSUME NEW z \in Basic(s) PROVE Dot(N[z], a, Var) = Dot(T[z], a, Var)
    <3>1. IntOn(N[z], Var) /\ IntOn(T[z], Var) /\ IntOn(a, Var)
      BY <1>2, <1>3 DEF IntOn
    <3>2. \A w \in Var : N[z][w] * a[w] = T[z][w] * a[w]
      <4> TAKE w \in Var
      <4>1. T[z][w] \in Int /\ N[z][w] \in Int
        BY <3>1 DEF IntOn
      <4> QED BY <1>3, <1>7, <4>1
    <3>3. IsFiniteSet(Var)
      BY VarFinite
    <3> QED BY <3>1, <3>2, <3>3, DotEqual
  <2> QED BY <1>2, <1>4, <2>1 DEF RowsZero
<1>8. BasisForm(N)
  BY <1>1, <1>2, <1>3, <1>4 DEF BasisForm, NonBasic
<1>9. RowsZero(N, s.assignment, Var)
  BY <1>1, <1>7, StateFields
<1>10. (\A z : MergedB(t, z) <=> MergedB(s, z)) /\ (\A a : Reading(t, a) = Reading(s, a))
  BY <1>6, MergedOf
<1>11. RowsEntail(t, E \cup {y})
  BY <1>6, <1>7, <1>10 DEF RowsEntail, FormOK
<1>12. GoneEmpty(t, E \cup {y})
  <2> SUFFICES ASSUME NEW x \in Var, Gone(t, E \cup {y}, x)
               PROVE NonBasic(t, x) /\ ColumnEmpty(t, x)
    BY DEF GoneEmpty
  <2>1. CASE x = y
    BY <1>3, <1>4, <1>6, <2>1 DEF NonBasic, ColumnEmpty, Basic
  <2>2. CASE x # y
    <3>1. NonBasic(s, x) /\ ColumnEmpty(s, x)
      BY <1>10, <2>2 DEF FormOK, GoneEmpty, Gone
    <3> QED BY <1>3, <1>4, <1>6, <2>2, <3>1 DEF NonBasic, ColumnEmpty, Basic
  <2> QED BY <2>1, <2>2
<1>13. FormOK(t, E \cup {y})
  BY <1>6, <1>8, <1>9, <1>11, <1>12 DEF FormOK
<1>14. Basic(t) = Basic(s)
  BY <1>4, <1>6 DEF Basic
<1> QED BY <1>5, <1>6, <1>13, <1>14 DEF t

\* The column of b is added to that of f once b is equal to f.
Joined(s, f) ==
  [s EXCEPT
     !.tableau = [y \in Basic(s) |->
        [s.tableau[y] EXCEPT ![f] = @ + s.tableau[y][B[f]], ![B[f]] = 0]],
     !.dissolved[f] = "MERGE"]

\* A merge of two equal columns keeps the form: the equations are read with f
\* for b from then on.
LEMMA JoinForm ==
  ASSUME NEW s, NEW E \in SUBSET Aux, FormOK(s, E), NEW f \in F, s.dissolved[f] # "MERGE",
         NonBasic(s, f), NonBasic(s, B[f]), s.assignment[B[f]] = s.assignment[f]
  PROVE  /\ FormOK(Joined(s, f), E)
         /\ Basic(Joined(s, f)) = Basic(s)
         /\ Joined(s, f).assignment = s.assignment
         /\ Joined(s, f).lower = s.lower /\ Joined(s, f).upper = s.upper
         /\ Joined(s, f).dissolved = [s.dissolved EXCEPT ![f] = "MERGE"]
<1> DEFINE T == s.tableau
           b == B[f]
           N == [y \in Basic(s) |-> [T[y] EXCEPT ![f] = @ + T[y][b], ![b] = 0]]
           t == [s EXCEPT !.tableau = N, !.dissolved[f] = "MERGE"]
<1>1. s \in States /\ BasisForm(T) /\ RowsZero(T, s.assignment, Var)
  BY DEF FormOK
<1>2. Basic(s) \subseteq Var /\ Basic(s) = DOMAIN T /\ \A z \in Basic(s) : T[z] \in [Var -> Int]
  BY <1>1, StateFields DEF Basic
<1>3. f \in Var /\ b \in Var /\ f # b /\ f \notin E /\ b \notin E /\ b \notin F
  BY PairFacts
<1>4. \A z \in Basic(s) : /\ N[z] \in [Var -> Int]
                           /\ N[z][b] = 0 /\ N[z][f] = T[z][f] + T[z][b]
                           /\ \A w \in Var \ {f, b} : N[z][w] = T[z][w]
  <2> TAKE z \in Basic(s)
  <2>1. N[z] = [T[z] EXCEPT ![f] = T[z][f] + T[z][b], ![b] = 0]
    OBVIOUS
  <2>2. T[z] \in [Var -> Int]
    BY <1>2
  <2> HIDE DEF T, b, N
  <2> QED BY <1>3, <2>1, <2>2
<1>5. N \in Tableaus(Var) /\ DOMAIN N = Basic(s)
  <2>1. N \in [Basic(s) -> [Var -> Int]]
    BY <1>4
  <2> QED BY <1>2, <2>1, TableauIn
<1>6. Joined(s, f) = t
  BY DEF Joined
<1> HIDE DEF N
<1>7. /\ t \in States /\ t.tableau = N /\ t.assignment = s.assignment
      /\ t.lower = s.lower /\ t.upper = s.upper
      /\ t.dissolved = [s.dissolved EXCEPT ![f] = "MERGE"]
  BY <1>1, <1>5 DEF States, Phases
<1> HIDE DEF t
<1>8. ASSUME NEW a \in [Var -> Int], NEW c \in [Var -> Int], c[b] = a[f],
             \A w \in Var \ {b} : c[w] = a[w]
      PROVE  RowsZero(N, a, Var) <=> RowsZero(T, c, Var)
  <2>1. ASSUME NEW z \in Basic(s) PROVE Dot(N[z], a, Var) = Dot(T[z], c, Var)
    <3>1. IntOn(N[z], Var) /\ IntOn(T[z], Var) /\ IntOn(a, Var) /\ IntOn(c, Var)
      BY <1>2, <1>4 DEF IntOn
    <3> DEFINE V == Var \ {f} W == V \ {b}
    <3>2. IsFiniteSet(Var) /\ IsFiniteSet(V) /\ V \in SUBSET Var /\ W \in SUBSET Var
            /\ IsFiniteSet(W) /\ b \in V
      BY <1>3, VarFinite, FS_Subset
    <3>3. IntOn(N[z], V) /\ IntOn(T[z], V) /\ IntOn(a, V) /\ IntOn(c, V)
            /\ IntOn(N[z], W) /\ IntOn(T[z], W) /\ IntOn(a, W) /\ IntOn(c, W)
      BY <3>1 DEF IntOn
    <3>4. Dot(N[z], a, Var) = N[z][f] * a[f] + Dot(N[z], a, V)
            /\ Dot(T[z], c, Var) = T[z][f] * c[f] + Dot(T[z], c, V)
      BY <1>3, <3>1, <3>2, DotRemove
    <3> HIDE DEF V, b
    <3>5. Dot(N[z], a, V) = N[z][b] * a[b] + Dot(N[z], a, W) /\ Dot(N[z], a, W) \in Int
            /\ Dot(T[z], c, V) = T[z][b] * c[b] + Dot(T[z], c, W)
      BY <3>2, <3>3, DotRemove
    <3>6. Dot(N[z], a, W) = Dot(T[z], c, W)
      <4>1. \A w \in W : N[z][w] * a[w] = T[z][w] * c[w]
        BY <1>4, <1>8 DEF V
      <4> HIDE DEF W
      <4> QED BY <3>2, <3>3, <4>1, DotEqual
    <3>7. T[z][f] \in Int /\ T[z][b] \in Int /\ a[f] \in Int /\ a[b] \in Int
            /\ c[f] = a[f] /\ c[b] = a[f]
      BY <1>3, <1>8, <3>1 DEF IntOn
    <3> HIDE DEF V, W
    <3>8. N[z][f] = T[z][f] + T[z][b] /\ N[z][b] = 0
      BY <1>4
    <3>9. \A i, j, k, l, m \in Int : (i + j) * k + (0 * l + m) = i * k + (j * k + m)
      OBVIOUS
    <3>10. Dot(N[z], a, Var) = (T[z][f] + T[z][b]) * a[f] + (0 * a[b] + Dot(N[z], a, W))
      BY <3>4, <3>5, <3>8
    <3>11. Dot(T[z], c, Var) = T[z][f] * a[f] + (T[z][b] * a[f] + Dot(N[z], a, W))
      BY <3>4, <3>5, <3>6, <3>7
    <3> QED BY <3>5, <3>7, <3>9, <3>10, <3>11
  <2> QED BY <1>2, <1>5, <2>1 DEF RowsZero
<1>9. BasisForm(N)
  <2>1. f \notin Basic(s) /\ b \notin Basic(s)
    BY DEF NonBasic
  <2> QED BY <1>1, <1>2, <1>4, <1>5, <2>1 DEF BasisForm
<1>10. RowsZero(N, s.assignment, Var)
  BY <1>1, <1>8, StateFields
<1>11. \A z : MergedB(t, z) <=> MergedB(s, z) \/ z = b
  <2>1. \A g \in F : t.dissolved[g] = "MERGE" <=> s.dissolved[g] = "MERGE" \/ g = f
    BY <1>1, <1>7, StateFields
  <2>2. \A z : IsB(z) => PairOf(z) \in F /\ z = B[PairOf(z)]
    BY PairFacts DEF IsB
  <2>3. IsB(b) /\ PairOf(b) = f
    BY PairFacts
  <2> HIDE DEF b
  <2> QED BY <2>1, <2>2, <2>3 DEF MergedB, b
<1>12. RowsEntail(t, E)
  <2> SUFFICES ASSUME NEW a \in [Var -> Int], RowsZero(N, a, Var), \A y \in E : a[y] = 0
               PROVE \A y \in Aux : Dot(Equations[y], Reading(t, a), Var) = 0
    BY <1>7 DEF RowsEntail
  <2> DEFINE c == [a EXCEPT ![b] = a[f]]
  <2>1. c \in [Var -> Int] /\ c[b] = a[f] /\ \A w \in Var \ {b} : c[w] = a[w]
    BY <1>3
  <2>2. Reading(t, a) = Reading(s, c)
    <3>1. ASSUME NEW x \in Var PROVE Reading(t, a)[x] = Reading(s, c)[x]
      <4>1. CASE x = b
        <5>1. ~MergedB(s, b) /\ MergedB(t, b) /\ PairOf(b) = f
          BY <1>11, PairFacts DEF MergedB
        <5> QED BY <1>3, <2>1, <4>1, <5>1 DEF Reading
      <4>2. CASE x # b /\ MergedB(s, x)
        <5>1. PairOf(x) \in Var \ {b} /\ MergedB(t, x)
          BY <1>3, <1>11, <4>2, PairFacts DEF MergedB, IsB
        <5> QED BY <2>1, <4>2, <5>1 DEF Reading
      <4>3. CASE x # b /\ ~MergedB(s, x)
        BY <1>11, <2>1, <4>3 DEF Reading
      <4> QED BY <4>1, <4>2, <4>3
    <3> QED BY <3>1 DEF Reading
  <2> HIDE DEF c
  <2>3. RowsZero(T, c, Var)
    BY <1>8, <2>1
  <2>4. \A y \in E : c[y] = 0
    <3>1. E \subseteq Var
      BY SimplexAssumption
    <3> QED BY <1>3, <2>1, <3>1
  <2> QED BY <2>1, <2>2, <2>3, <2>4 DEF FormOK, RowsEntail
<1>13. GoneEmpty(t, E)
  <2> SUFFICES ASSUME NEW x \in Var, Gone(t, E, x)
               PROVE NonBasic(t, x) /\ ColumnEmpty(t, x)
    BY DEF GoneEmpty
  <2>1. CASE x = b
    BY <1>4, <1>5, <1>7, <2>1 DEF NonBasic, ColumnEmpty, Basic
  <2>2. CASE x # b
    <3>1. Gone(s, E, x) /\ NonBasic(s, x) /\ ColumnEmpty(s, x)
      BY <1>11, <2>2 DEF FormOK, GoneEmpty, Gone
    <3>2. x # f
      BY <1>3, <3>1, PairFacts DEF Gone, MergedB
    <3> QED BY <1>4, <1>5, <1>7, <2>2, <3>1, <3>2 DEF NonBasic, ColumnEmpty, Basic
  <2> QED BY <2>1, <2>2
<1>14. FormOK(t, E)
  BY <1>7, <1>9, <1>10, <1>12, <1>13 DEF FormOK
<1>15. Basic(t) = Basic(s)
  BY <1>5, <1>7 DEF Basic
<1> QED BY <1>6, <1>7, <1>14, <1>15

-----------------------------------------------------------------------------
(*************************************************************************)
(* What an update of a bound does to the tableau and the assignment.     *)
(*************************************************************************)
\* Nothing but the assignment has changed.
Reassigned(s, t, E) ==
  /\ FormOK(t, E)
  /\ t.tableau = s.tableau /\ t.lower = s.lower /\ t.upper = s.upper
  /\ t.dissolved = s.dissolved

\* A variable that follows its bound keeps the form, and is within its bounds.
LEMMA FollowForm ==
  ASSUME NEW s, NEW E \in SUBSET Var, FormOK(s, E), NEW x \in Var, NEW v \in Int,
         s.lower[x] <= v, v <= s.upper[x], x \in E => ~OutOfBounds(s, x)
  PROVE  /\ Reassigned(s, Follow(s, x, v), E)
         /\ NonBasic(s, x) => ~OutOfBounds(Follow(s, x, v), x)
         /\ \A z \in Var \ {x} : NonBasic(s, z) => Follow(s, x, v).assignment[z] = s.assignment[z]
<1>1. CASE NonBasic(s, x) /\ OutOfBounds(s, x)
  <2>1. Follow(s, x, v) = Update(s, x, v)
    BY <1>1 DEF Follow
  <2>2. FormOK(Update(s, x, v), E)
    BY <1>1, UpdateForm
  <2>3. s \in States
    BY DEF FormOK
  <2>4. Changed(s, Update(s, x, v), x, v)
    BY <2>3, UpdateChanges
  <2>5. s.lower[x] \in Int /\ s.upper[x] \in Int
    BY <2>3, StateFields
  <2> QED BY <2>1, <2>2, <2>4, <2>5 DEF Changed, Reassigned, OutOfBounds, TooLow, TooHigh
<1>2. CASE ~(NonBasic(s, x) /\ OutOfBounds(s, x))
  BY <1>2 DEF Follow, Reassigned
<1> QED BY <1>1, <1>2

\* A new assignment does not touch the bounds.
LEMMA ReassignedConsistent ==
  ASSUME NEW s, NEW t, NEW E, Reassigned(s, t, E), Consistent(s, E)
  PROVE  Consistent(t, E)
BY DEF Consistent, Reassigned, PairOK

-----------------------------------------------------------------------------
\* Bounds become tighter, and a dissolved pair stays as it is.
Tightened(s, t) ==
  /\ \A z \in Var : s.lower[z] <= t.lower[z] /\ t.upper[z] <= s.upper[z]
  /\ \A g \in F : s.dissolved[g] # Active => t.dissolved[g] = s.dissolved[g]

OutcomeOK(s, E, o) ==
  /\ o.thrown \in {"NONE", "VIOLATION", "ERROR"}
  /\ FormOK(o.state, E)
  /\ o.thrown # "VIOLATION" => Consistent(o.state, E)
  /\ Tightened(s, o.state)
  /\ InBounds(s) /\ o.thrown = "NONE" => InBounds(o.state)

\* Tightening twice is tightening.
LEMMA TightenedTrans ==
  ASSUME NEW s \in States, NEW t \in States, NEW u \in States, Tightened(s, t), Tightened(t, u)
  PROVE  Tightened(s, u)
<1>1. \A z \in Var : /\ s.lower[z] \in Int /\ t.lower[z] \in Int /\ u.lower[z] \in Int
                    /\ s.upper[z] \in Int /\ t.upper[z] \in Int /\ u.upper[z] \in Int
  BY StateFields
<1> QED BY <1>1 DEF Tightened

\* Nothing done loosens nothing.
LEMMA TightenedRefl ==
  ASSUME NEW s \in States
  PROVE  Tightened(s, s)
<1>1. \A z \in Var : s.lower[z] \in Int /\ s.upper[z] \in Int
  BY StateFields
<1> QED BY <1>1 DEF Tightened

-----------------------------------------------------------------------------
\* Making a variable non-basic pivots once at most.
LEMMA MadeNonBasicSame ==
  ASSUME NEW s, NEW E \in SUBSET Var, FormOK(s, E), NEW y \in Var, NEW z,
         NEW t \in MadeNonBasic(s, y, z)
  PROVE  /\ Same(s, t) /\ NonBasic(t, y)
         /\ NonBasic(s, z) => NonBasic(t, z)
         /\ \A x \in Var : NonBasic(t, x) => NonBasic(s, x) \/ x = y
<1>1. s \in States /\ BasisForm(s.tableau)
  BY DEF FormOK
<1>2. CASE NonBasic(s, y)
  <2>1. t = s
    BY <1>2 DEF MadeNonBasic
  <2> QED BY <1>1, <1>2, <2>1, SameRefl
<1>3. CASE ~NonBasic(s, y)
  <2>1. PICK x \in Var \ {y, z} : UnitAt(s, y, x) /\ t = Pivot(s, x, y)
    BY <1>3 DEF MadeNonBasic
  <2>2. y \in Basic(s) /\ x \in Var \ {y}
    BY <1>3 DEF NonBasic
  <2>3. Same(s, t) /\ Basic(t) = (Basic(s) \ {y}) \cup {x} /\ NonBasic(s, x)
    BY <1>1, <2>1, <2>2, PivotSame
  <2> QED BY <2>1, <2>2, <2>3 DEF NonBasic
<1> QED BY <1>2, <1>3

\* Bringing a non-basic variable within its bounds keeps the form.
LEMMA WithinForm ==
  ASSUME NEW s, NEW E \in SUBSET Var, FormOK(s, E), NEW x \in Var, NonBasic(s, x),
         s.lower[x] <= s.upper[x], x \in E => ~OutOfBounds(s, x)
  PROVE  /\ Reassigned(s, Within(s, x), E)
         /\ ~OutOfBounds(Within(s, x), x)
         /\ \A z \in Var \ {x} : NonBasic(s, z) => Within(s, x).assignment[z] = s.assignment[z]
<1>1. s \in States
  BY DEF FormOK
<1>2. s.lower[x] \in Int /\ s.upper[x] \in Int /\ s.assignment[x] \in Int
  BY <1>1, StateFields
<1>3. CASE TooLow(s, x)
  <2>1. Within(s, x) = Update(s, x, s.lower[x])
    BY <1>3 DEF Within
  <2>2. FormOK(Update(s, x, s.lower[x]), E)
    BY <1>2, <1>3, UpdateForm DEF OutOfBounds
  <2>3. Changed(s, Update(s, x, s.lower[x]), x, s.lower[x])
    BY <1>1, <1>2, UpdateChanges
  <2> QED BY <1>2, <2>1, <2>2, <2>3 DEF Changed, Reassigned, OutOfBounds, TooLow, TooHigh
<1>4. CASE ~TooLow(s, x) /\ TooHigh(s, x)
  <2>1. Within(s, x) = Update(s, x, s.upper[x])
    BY <1>4 DEF Within
  <2>2. FormOK(Update(s, x, s.upper[x]), E)
    BY <1>2, <1>4, UpdateForm DEF OutOfBounds
  <2>3. Changed(s, Update(s, x, s.upper[x]), x, s.upper[x])
    BY <1>1, <1>2, UpdateChanges
  <2> QED BY <1>2, <2>1, <2>2, <2>3 DEF Changed, Reassigned, OutOfBounds, TooLow, TooHigh
<1>5. CASE ~TooLow(s, x) /\ ~TooHigh(s, x)
  BY <1>5 DEF Within, Reassigned, OutOfBounds
<1> QED BY <1>3, <1>4, <1>5

\* A merge is an update of b and a merge of equal columns.
LEMMA MergeColumnsIs ==
  ASSUME NEW s, NEW f
  PROVE  MergeColumns(s, f) = Joined(Update(s, B[f], s.assignment[f]), f)
BY DEF MergeColumns, Joined

\* Both variables of an active pair are non-basic, whatever their values.
LEMMA MergeNonBasicOK ==
  ASSUME NEW s, NEW E \in SUBSET Aux, FormOK(s, E), Consistent(s, E), NEW f \in F,
         s.dissolved[f] = Active, NonBasic(s, f), NonBasic(s, B[f])
  PROVE  /\ FormOK(MergeNonBasic(s, f), E)
         /\ Consistent(MergeNonBasic(s, f), E)
         /\ Tightened(s, MergeNonBasic(s, f))
         /\ MergeNonBasic(s, f).lower = s.lower /\ MergeNonBasic(s, f).upper = s.upper
         /\ \A g \in F \ {f} : MergeNonBasic(s, f).dissolved[g] = s.dissolved[g]
         /\ (\A z \in Var : NonBasic(s, z) /\ z # f /\ z # B[f] => ~OutOfBounds(s, z))
              => InBounds(MergeNonBasic(s, f))
<1> DEFINE b == B[f]
           w == Within(s, f)
           u == Update(w, b, w.assignment[f])
           m == MergeNonBasic(s, f)
<1>1. s \in States /\ E \in SUBSET Var
  BY SimplexAssumption DEF FormOK
<1>2. f \in Var /\ b \in Var /\ f # b /\ f \notin E /\ b \notin E
  BY PairFacts
<1>3. s.lower[f] <= s.upper[f]
  BY <1>2 DEF Consistent
<1>4. /\ Reassigned(s, w, E) /\ ~OutOfBounds(w, f)
      /\ \A z \in Var \ {f} : NonBasic(s, z) => w.assignment[z] = s.assignment[z]
  BY <1>1, <1>2, <1>3, WithinForm
<1> HIDE DEF w
<1>5. FormOK(w, E) /\ w \in States /\ NonBasic(w, b) /\ NonBasic(w, f)
  BY <1>4 DEF Reassigned, FormOK, NonBasic, Basic
<1>6. w.assignment[f] \in Int
  BY <1>2, <1>5, StateFields
<1>7. FormOK(u, E) /\ Changed(w, u, b, w.assignment[f])
  BY <1>1, <1>2, <1>5, <1>6, UpdateForm, UpdateChanges
<1>8. m = Joined(u, f)
  BY MergeColumnsIs DEF MergeNonBasic, w
<1> HIDE DEF u, m
<1>9. /\ u.dissolved = s.dissolved /\ u.lower = s.lower /\ u.upper = s.upper
      /\ u.tableau = s.tableau /\ u.assignment[b] = u.assignment[f]
      /\ u.assignment[f] = w.assignment[f]
      /\ NonBasic(u, f) /\ NonBasic(u, b)
  BY <1>2, <1>4, <1>5, <1>7 DEF Changed, Reassigned, NonBasic, Basic
<1>10. u.dissolved[f] # "MERGE"
  BY <1>9 DEF Active
<1>11. /\ FormOK(m, E) /\ Basic(m) = Basic(u) /\ m.assignment = u.assignment
       /\ m.lower = s.lower /\ m.upper = s.upper
       /\ m.dissolved = [s.dissolved EXCEPT ![f] = "MERGE"]
  BY <1>7, <1>8, <1>9, <1>10, JoinForm
<1>12. s.dissolved \in [F -> Phases] /\ s.lower \in [Var -> Int] /\ s.upper \in [Var -> Int]
  BY <1>1, StateFields
<1>13. \A g \in F : m.dissolved[g] = IF g = f THEN "MERGE" ELSE s.dissolved[g]
  BY <1>11, <1>12
<1>14. Consistent(m, E)
  <2>1. \A g \in F : PairOK(m, g)
    <3> TAKE g \in F
    <3>1. PairOK(s, g) /\ g \in Var /\ B[g] \in Var
      BY PairFacts DEF Consistent
    <3>2. CASE g = f
      <4>1. s.upper[f] \in Int /\ s.upper[b] \in Int
        BY <1>2, <1>12
      <4> QED BY <1>11, <1>13, <3>1, <3>2, <4>1 DEF PairOK, Active
    <3>3. CASE g # f
      BY <1>11, <1>13, <3>1, <3>3 DEF PairOK
    <3> QED BY <3>2, <3>3
  <2> QED BY <1>11, <2>1 DEF Consistent
<1>15. Tightened(s, m)
  BY <1>11, <1>12, <1>13 DEF Tightened
<1>16. ASSUME \A z \in Var : NonBasic(s, z) /\ z # f /\ z # b => ~OutOfBounds(s, z)
       PROVE  InBounds(m)
  <2> SUFFICES ASSUME NEW z \in Var, NonBasic(m, z) PROVE ~OutOfBounds(m, z)
    BY DEF InBounds
  <2>1. NonBasic(s, z)
    BY <1>9, <1>11 DEF NonBasic, Basic
  <2>2. CASE z = f
    BY <1>4, <1>9, <1>11, <2>2 DEF OutOfBounds, TooLow, TooHigh, Reassigned
  <2>3. CASE z = b
    <3>1. /\ m.assignment[b] = w.assignment[f] /\ w.assignment[f] \in Int
          /\ s.lower[f] \in Int /\ s.upper[f] \in Int /\ s.lower[b] \in Int /\ s.upper[b] \in Int
      BY <1>2, <1>6, <1>9, <1>11, <1>12
    <3>2. w.assignment[f] >= s.lower[f] /\ w.assignment[f] <= s.upper[f]
      BY <1>4, <3>1 DEF OutOfBounds, TooLow, TooHigh, Reassigned
    <3>3. s.lower[b] <= s.lower[f] /\ s.upper[f] = s.upper[b]
      BY DEF Consistent, PairOK
    <3> QED BY <1>11, <2>3, <3>1, <3>2, <3>3 DEF OutOfBounds, TooLow, TooHigh
  <2>4. CASE z # f /\ z # b
    <3>1. m.assignment[z] = s.assignment[z]
      BY <1>4, <1>7, <1>11, <2>1, <2>4 DEF Changed, Reassigned, NonBasic, Basic
    <3> QED BY <1>11, <1>16, <2>1, <2>4, <3>1 DEF OutOfBounds, TooLow, TooHigh
  <2> QED BY <2>2, <2>3, <2>4
<1> QED BY <1>11, <1>13, <1>14, <1>15, <1>16 DEF m

\* The pair's lower bounds have just been set to the same value.
LEMMA UnifyOK ==
  ASSUME NEW s, NEW E \in SUBSET Aux, FormOK(s, E), Consistent(s, E), NEW f \in F,
         s.dissolved[f] = Active, NEW o \in UnifyReluPair(s, f)
  PROVE  /\ OutcomeOK(s, E, o)
         /\ o.state.lower = s.lower /\ o.state.upper = s.upper
         /\ \A g \in F \ {f} : o.state.dissolved[g] = s.dissolved[g]
<1> DEFINE b == B[f]
<1>1. s \in States /\ E \in SUBSET Var
  BY SimplexAssumption DEF FormOK
<1>2. f \in Var /\ b \in Var /\ f # b
  BY PairFacts
<1>3. CASE ColumnEmpty(s, b)
  <2>1. o = Ok(s)
    BY <1>3 DEF UnifyReluPair
  <2> QED BY <1>1, <2>1, TightenedRefl DEF Ok, OutcomeOK
<1>4. ASSUME o = CantMakeNonBasic(s) PROVE OutcomeOK(s, E, o)
                               /\ o.state.lower = s.lower /\ o.state.upper = s.upper
                               /\ o.state.dissolved = s.dissolved
  BY <1>1, <1>4, TightenedRefl DEF CantMakeNonBasic, OutcomeOK
<1>5. ASSUME NEW t \in MadeNonBasic(s, b, f),
             LET apart == MadeNonBasic(t, f, b)
             IN  IF apart = {} THEN o = CantMakeNonBasic(t)
                 ELSE \E u \in apart : o = Ok(MergeNonBasic(u, f))
      PROVE  /\ OutcomeOK(s, E, o) /\ o.state.lower = s.lower /\ o.state.upper = s.upper
             /\ \A g \in F \ {f} : o.state.dissolved[g] = s.dissolved[g]
  <2>1. /\ Same(s, t) /\ NonBasic(t, b)
        /\ \A x \in Var : NonBasic(t, x) => NonBasic(s, x) \/ x = b
    BY <1>1, <1>2, MadeNonBasicSame
  <2>2. FormOK(t, E) /\ Consistent(t, E)
    BY <1>1, <2>1, SameForm, SameConsistent
  <2>3. t \in States /\ t.lower = s.lower /\ t.upper = s.upper /\ t.dissolved = s.dissolved
    BY <2>1 DEF Same
  <2>4. Tightened(s, t)
    BY <1>1, <2>3, TightenedRefl DEF Tightened
  <2>5. CASE MadeNonBasic(t, f, b) = {}
    BY <1>5, <2>2, <2>3, <2>4, <2>5 DEF CantMakeNonBasic, OutcomeOK
  <2>6. CASE MadeNonBasic(t, f, b) # {}
    <3>1. PICK u \in MadeNonBasic(t, f, b) : o = Ok(MergeNonBasic(u, f))
      BY <1>5, <2>6
    <3>2. /\ Same(t, u) /\ NonBasic(u, f) /\ NonBasic(u, b)
          /\ \A x \in Var : NonBasic(u, x) => NonBasic(t, x) \/ x = f
      BY <1>1, <1>2, <2>1, <2>2, MadeNonBasicSame
    <3>3. FormOK(u, E) /\ Consistent(u, E)
      BY <1>1, <2>2, <3>2, SameForm, SameConsistent
    <3>4. Same(s, u)
      BY <2>1, <3>2, SameTrans
    <3>5. /\ u \in States /\ u.lower = s.lower /\ u.upper = s.upper /\ u.dissolved = s.dissolved
          /\ u.assignment = s.assignment
      BY <3>4 DEF Same
    <3> DEFINE m == MergeNonBasic(u, f)
    <3>6. /\ FormOK(m, E) /\ Consistent(m, E) /\ Tightened(u, m)
          /\ m.lower = u.lower /\ m.upper = u.upper
          /\ \A g \in F \ {f} : m.dissolved[g] = u.dissolved[g]
          /\ (\A z \in Var : NonBasic(u, z) /\ z # f /\ z # b => ~OutOfBounds(u, z))
               => InBounds(m)
      BY <3>2, <3>3, <3>5, MergeNonBasicOK
    <3> HIDE DEF m
    <3>7. InBounds(s) => \A z \in Var : NonBasic(u, z) /\ z # f /\ z # b => ~OutOfBounds(u, z)
      BY <2>1, <3>2, <3>5 DEF InBounds, OutOfBounds, TooLow, TooHigh
    <3>8. Tightened(s, m)
      BY <3>5, <3>6 DEF Tightened
    <3>9. o.state = m /\ o.thrown = "NONE"
      BY <3>1 DEF Ok, m
    <3> QED BY <3>5, <3>6, <3>7, <3>8, <3>9 DEF OutcomeOK
  <2> QED BY <2>5, <2>6
<1>6. CASE ~ColumnEmpty(s, b)
  <2>1. \/ o = CantMakeNonBasic(s)
        \/ \E t \in MadeNonBasic(s, b, f) :
             LET apart == MadeNonBasic(t, f, b)
             IN  IF apart = {} THEN o = CantMakeNonBasic(t)
                 ELSE \E u \in apart : o = Ok(MergeNonBasic(u, f))
    BY <1>6 DEF UnifyReluPair
  <2> QED BY <1>4, <1>5, <2>1
<1> QED BY <1>3, <1>6

-----------------------------------------------------------------------------
(*************************************************************************)
(* Updates of bounds.                                                    *)
(*************************************************************************)
\* Bounds of the variables in X have become tighter.
Rebound(s, t, X) ==
  /\ t \in States
  /\ t.tableau = s.tableau /\ t.assignment = s.assignment
  /\ Tightened(s, t)
  /\ \A z \in Var \ X : t.lower[z] = s.lower[z] /\ t.upper[z] = s.upper[z]
  /\ \A g \in F : t.dissolved[g] = "MERGE" <=> s.dissolved[g] = "MERGE"

\* Unless something was thrown, the bound is set, and only a lower bound merges.
BoundSet(s, x, side, v, o) ==
  o.thrown = "NONE" =>
    /\ IF side = "lower" THEN o.state.lower[x] >= v ELSE o.state.upper[x] <= v
    /\ \A g \in F : o.state.dissolved[g] = "MERGE" =>
         s.dissolved[g] = "MERGE" \/ (side = "lower" /\ x \in {g, B[g]})

\* Bounds that contradict each other leave the tableau alone.
LEMMA ViolationOK ==
  ASSUME NEW s, NEW E, FormOK(s, E), NEW t, NEW X, Rebound(s, t, X)
  PROVE  OutcomeOK(s, E, Violation(t))
<1>1. FormOK(t, E)
  BY BoundsForm DEF Rebound
<1> QED BY <1>1 DEF OutcomeOK, Violation, Rebound

\* A new bound of one variable, which follows it if it is non-basic.
LEMMA FollowedOK ==
  ASSUME NEW s, NEW E \in SUBSET Var, FormOK(s, E), NEW x \in Var, x \notin E,
         NEW t, Rebound(s, t, {x}), Consistent(t, E),
         NEW v \in Int, t.lower[x] <= v, v <= t.upper[x]
  PROVE  OutcomeOK(s, E, Ok(Follow(t, x, v))) /\ Reassigned(t, Follow(t, x, v), E)
<1> DEFINE u == Follow(t, x, v)
<1>1. FormOK(t, E)
  BY BoundsForm DEF Rebound
<1>2. /\ Reassigned(t, u, E)
      /\ NonBasic(t, x) => ~OutOfBounds(u, x)
      /\ \A z \in Var \ {x} : NonBasic(t, z) => u.assignment[z] = t.assignment[z]
  BY <1>1, FollowForm
<1> HIDE DEF u
<1>3. Consistent(u, E)
  BY <1>2, ReassignedConsistent
<1>4. Tightened(s, u)
  BY <1>2 DEF Rebound, Reassigned, Tightened
<1>5. ASSUME InBounds(s) PROVE InBounds(u)
  <2> SUFFICES ASSUME NEW z \in Var, NonBasic(u, z) PROVE ~OutOfBounds(u, z)
    BY DEF InBounds
  <2>1. NonBasic(t, z) /\ NonBasic(s, z)
    BY <1>2 DEF Reassigned, Rebound, NonBasic, Basic
  <2>2. CASE z = x
    BY <1>2, <2>1, <2>2
  <2>3. CASE z # x
    BY <1>2, <1>5, <2>1, <2>3 DEF Rebound, Reassigned, InBounds, OutOfBounds, TooLow, TooHigh
  <2> QED BY <2>2, <2>3
<1>6. FormOK(u, E)
  BY <1>2 DEF Reassigned
<1>7. OutcomeOK(s, E, Ok(u))
  BY <1>3, <1>4, <1>5, <1>6 DEF OutcomeOK, Ok
<1> QED BY <1>2, <1>7 DEF u

\* The values of a pair that both follow a bound.
FollowedBoth(s, t, E) ==
  /\ Consistent(t, E) /\ FormOK(t, E) /\ Tightened(s, t)
  /\ InBounds(s) => InBounds(t)

\* New bounds of two variables, which follow them.
LEMMA FollowedBothOK ==
  ASSUME NEW s, NEW E \in SUBSET Var, FormOK(s, E),
         NEW x \in Var, x \notin E, NEW y \in Var \ {x}, y \notin E,
         NEW t, Rebound(s, t, {x, y}), Consistent(t, E),
         NEW v \in Int, t.lower[x] <= v, v <= t.upper[x],
         NEW w \in Int, t.lower[y] <= w, w <= t.upper[y]
  PROVE  /\ FollowedBoth(s, Follow(Follow(t, x, v), y, w), E)
         /\ OutcomeOK(s, E, Ok(Follow(Follow(t, x, v), y, w)))
         /\ Reassigned(t, Follow(Follow(t, x, v), y, w), E)
<1> DEFINE p == Follow(t, x, v)
           u == Follow(p, y, w)
<1>1. FormOK(t, E)
  BY BoundsForm DEF Rebound
<1>2. /\ Reassigned(t, p, E)
      /\ NonBasic(t, x) => ~OutOfBounds(p, x)
      /\ \A z \in Var \ {x} : NonBasic(t, z) => p.assignment[z] = t.assignment[z]
  BY <1>1, FollowForm
<1> HIDE DEF p
<1>3. FormOK(p, E) /\ p.lower = t.lower /\ p.upper = t.upper
  BY <1>2 DEF Reassigned
<1>4. /\ Reassigned(p, u, E)
      /\ NonBasic(p, y) => ~OutOfBounds(u, y)
      /\ \A z \in Var \ {y} : NonBasic(p, z) => u.assignment[z] = p.assignment[z]
  BY <1>3, FollowForm
<1> HIDE DEF u
<1>5. Consistent(u, E)
  BY <1>2, <1>4, ReassignedConsistent
<1>6. Tightened(s, u)
  BY <1>2, <1>4 DEF Rebound, Reassigned, Tightened
<1>7. ASSUME InBounds(s) PROVE InBounds(u)
  <2> SUFFICES ASSUME NEW z \in Var, NonBasic(u, z) PROVE ~OutOfBounds(u, z)
    BY DEF InBounds
  <2>1. NonBasic(p, z) /\ NonBasic(t, z) /\ NonBasic(s, z)
    BY <1>2, <1>4 DEF Reassigned, Rebound, NonBasic, Basic
  <2>2. CASE z = y
    BY <1>4, <2>1, <2>2
  <2>3. CASE z = x
    BY <1>2, <1>4, <2>1, <2>3 DEF Reassigned, OutOfBounds, TooLow, TooHigh
  <2>4. CASE z # x /\ z # y
    BY <1>2, <1>4, <1>7, <2>1, <2>4 DEF Rebound, Reassigned, InBounds, OutOfBounds, TooLow, TooHigh
  <2> QED BY <2>2, <2>3, <2>4
<1>8. FormOK(u, E)
  BY <1>4 DEF Reassigned
<1>9. OutcomeOK(s, E, Ok(u)) /\ FollowedBoth(s, u, E)
  BY <1>5, <1>6, <1>7, <1>8 DEF OutcomeOK, Ok, FollowedBoth
<1>10. Reassigned(t, u, E)
  BY <1>2, <1>4 DEF Reassigned
<1> QED BY <1>9, <1>10 DEF u, p

-----------------------------------------------------------------------------
\* A bound of a variable of its own: one of no pair, or of a dissolved one.
LEMMA PlainPair ==
  ASSUME NEW s \in States, NEW E, Consistent(s, E), NEW x \in Var, NEW g \in F,
         ~ActiveRelu(s, x) \/ x \notin {g, B[g]}
  PROVE  /\ x \in {g, B[g]} => s.dissolved[g] \in {"SPLIT", "MERGE"}
         /\ x = B[g] => (MergedB(s, x) <=> s.dissolved[g] = "MERGE")
         /\ PairOf(B[g]) = g
<1>1. s.dissolved[g] \in Phases
  BY StateFields
<1>2. PairOf(g) = g /\ PairOf(B[g]) = g /\ IsRelu(g) /\ IsRelu(B[g]) /\ IsB(B[g])
  BY PairFacts
<1> QED BY <1>1, <1>2 DEF ActiveRelu, MergedB, Phases

\* Every case of the update of an upper bound.
LEMMA UpperOK ==
  ASSUME NEW s, NEW E \in SUBSET Aux, FormOK(s, E), Consistent(s, E),
         NEW x \in Var, NEW v \in Int, v < s.upper[x],
         MergedB(s, x) => s.upper[PairOf(x)] <= v,
         NEW o \in UpdateUpperBound(s, x, v)
  PROVE  OutcomeOK(s, E, o) /\ BoundSet(s, x, "upper", v, o)
<1> DEFINE f == PairOf(x)
<1>1. s \in States /\ E \in SUBSET Var
  BY SimplexAssumption DEF FormOK
<1>2. /\ s.lower \in [Var -> Int] /\ s.upper \in [Var -> Int] /\ s.dissolved \in [F -> Phases]
  BY <1>1, StateFields
<1>3. CASE ~ActiveRelu(s, x) \/ (v < 0 /\ x \in F)
  <2> DEFINE t == [s EXCEPT !.upper[x] = v]
  <2>1. /\ t \in States /\ t.tableau = s.tableau /\ t.assignment = s.assignment
        /\ t.lower = s.lower /\ t.upper = [s.upper EXCEPT ![x] = v] /\ t.dissolved = s.dissolved
    BY <1>1, <1>2 DEF States
  <2>2. o = IF Contradictory(t, {x}) THEN Violation(t) ELSE Ok(Follow(t, x, v))
    BY <1>3 DEF UpdateUpperBound
  <2> HIDE DEF t
  <2>3. t.upper[x] = v /\ \A z \in Var \ {x} : t.upper[z] = s.upper[z]
    BY <1>2, <2>1
  <2>4. Rebound(s, t, {x})
    <3>1. Tightened(s, t)
      BY <1>2, <2>1, <2>3 DEF Tightened
    <3> QED BY <2>1, <2>3, <3>1 DEF Rebound
  <2>5. CASE Contradictory(t, {x})
    BY <2>2, <2>4, <2>5, ViolationOK DEF BoundSet, Violation
  <2>6. CASE ~Contradictory(t, {x})
    <3>1. s.lower[x] <= v
      BY <1>2, <2>1, <2>3, <2>6 DEF Contradictory
    <3>2. x \notin E
      BY <1>2, <3>1 DEF Consistent
    <3>3. ~ActiveRelu(s, x)
      <4>1. x \in F => s.lower[x] >= 0
        BY DEF Consistent, PairOK
      <4> QED BY <1>2, <1>3, <3>1, <4>1
    <3>4. \A g \in F : PairOK(t, g)
      <4> TAKE g \in F
      <4>1. PairOK(s, g) /\ g \in Var /\ B[g] \in Var /\ g # B[g]
        BY PairFacts DEF Consistent
      <4>2. /\ x \in {g, B[g]} => s.dissolved[g] \in {"SPLIT", "MERGE"}
            /\ x = B[g] => (MergedB(s, x) <=> s.dissolved[g] = "MERGE")
            /\ PairOf(B[g]) = g
        BY <1>1, <3>3, PlainPair
      <4>3. s.upper[g] \in Int /\ s.upper[B[g]] \in Int
        BY <1>2, <4>1
      <4>4. CASE x = g
        BY <2>1, <2>3, <4>1, <4>2, <4>3, <4>4 DEF PairOK, Active
      <4>5. CASE x = B[g]
        BY <2>1, <2>3, <4>1, <4>2, <4>3, <4>5 DEF PairOK, Active
      <4>6. CASE x # g /\ x # B[g]
        BY <2>1, <2>3, <4>1, <4>6 DEF PairOK
      <4> QED BY <4>4, <4>5, <4>6
    <3>5. Consistent(t, E)
      BY <1>1, <2>1, <2>3, <3>1, <3>2, <3>4 DEF Consistent
    <3>6. t.lower[x] <= v /\ v <= t.upper[x]
      BY <2>1, <2>3, <3>1
    <3>7. OutcomeOK(s, E, Ok(Follow(t, x, v))) /\ Reassigned(t, Follow(t, x, v), E)
      BY <1>1, <2>4, <3>2, <3>5, <3>6, FollowedOK
    <3> QED BY <2>1, <2>2, <2>3, <2>6, <3>7 DEF BoundSet, Reassigned, Ok
  <2> QED BY <2>5, <2>6
<1>4. ASSUME ActiveRelu(s, x), ~(v < 0 /\ x \in F)
      PROVE  /\ f \in F /\ s.dissolved[f] = Active
             /\ \/ x = f /\ Partner(x) = B[f]
                \/ x \notin F /\ x = B[f] /\ Partner(x) = f
             /\ f \in Var /\ B[f] \in Var /\ f # B[f] /\ f \notin E /\ B[f] \notin E
             /\ PairOK(s, f) /\ s.lower[f] <= s.upper[f] /\ s.upper[f] = s.upper[B[f]]
             /\ \A g \in F \ {f} : {g, B[g]} \cap {f, B[f]} = {}
  <2>1. /\ f \in F
        /\ \/ x = f /\ Partner(x) = B[x]
           \/ x \notin F /\ x = B[f] /\ Partner(x) = f
    BY <1>4, ReluVariable DEF ActiveRelu
  <2>2. s.dissolved[f] = Active
    BY <1>4 DEF ActiveRelu
  <2> HIDE DEF f
  <2>3. f \in Var /\ B[f] \in Var /\ f # B[f] /\ f \notin E /\ B[f] \notin E
    BY <2>1, PairFacts
  <2>4. PairOK(s, f) /\ s.lower[f] <= s.upper[f] /\ s.upper[f] = s.upper[B[f]]
    BY <2>1, <2>2, <2>3 DEF Consistent, PairOK
  <2>5. \A g \in F \ {f} : {g, B[g]} \cap {f, B[f]} = {}
    BY <2>1, PairFacts, SimplexAssumption
  <2> QED BY <2>1, <2>2, <2>3, <2>4, <2>5
<1> HIDE DEF f
<1>5. CASE ActiveRelu(s, x) /\ ~(v < 0 /\ x \in F) /\ v > 0
  <2> DEFINE t == [s EXCEPT !.upper[x] = v, !.upper[Partner(x)] = v]
  <2>0. Partner(x) \in Var /\ Partner(x) # x /\ x \notin E /\ Partner(x) \notin E
          /\ {x, Partner(x)} = {f, B[f]}
    BY <1>4, <1>5
  <2>1. /\ t \in States /\ t.tableau = s.tableau /\ t.assignment = s.assignment
        /\ t.lower = s.lower /\ t.upper = [s.upper EXCEPT ![x] = v, ![Partner(x)] = v]
        /\ t.dissolved = s.dissolved
    BY <1>1, <1>2, <2>0 DEF States
  <2>2. o = IF Contradictory(t, {x, Partner(x)}) THEN Violation(t)
            ELSE Ok(Follow(Follow(t, x, v), Partner(x), v))
    BY <1>5 DEF UpdateUpperBound
  <2> HIDE DEF t
  <2>3. t.upper[x] = v /\ t.upper[Partner(x)] = v
          /\ \A z \in Var \ {x, Partner(x)} : t.upper[z] = s.upper[z]
    BY <1>2, <2>0, <2>1
  <2>4. Rebound(s, t, {x, Partner(x)})
    <3>1. v <= s.upper[Partner(x)] /\ v <= s.upper[x]
      BY <1>2, <1>4, <1>5
    <3>2. Tightened(s, t)
      BY <1>2, <2>1, <2>3, <3>1 DEF Tightened
    <3> QED BY <2>1, <2>3, <3>2 DEF Rebound
  <2>5. CASE Contradictory(t, {x, Partner(x)})
    BY <2>2, <2>4, <2>5, ViolationOK DEF BoundSet, Violation
  <2>6. CASE ~Contradictory(t, {x, Partner(x)})
    <3>1. s.lower[x] <= v /\ s.lower[Partner(x)] <= v
      BY <1>2, <2>0, <2>1, <2>3, <2>6 DEF Contradictory
    <3>2. \A g \in F : PairOK(t, g)
      <4> TAKE g \in F
      <4>1. PairOK(s, g) /\ g \in Var /\ B[g] \in Var
        BY PairFacts DEF Consistent
      <4>2. CASE g = f
        <5>1. t.upper[f] = v /\ t.upper[B[f]] = v
          BY <2>0, <2>3
        <5>2. s.dissolved[f] = Active
          BY <1>4, <1>5
        <5> QED BY <2>1, <4>1, <4>2, <5>1, <5>2 DEF PairOK, Active
      <4>3. CASE g # f
        <5>1. t.upper[g] = s.upper[g] /\ t.upper[B[g]] = s.upper[B[g]]
          BY <1>4, <1>5, <2>0, <2>3, <4>1, <4>3
        <5> QED BY <2>1, <4>1, <5>1 DEF PairOK
      <4> QED BY <4>2, <4>3
    <3>3. Consistent(t, E)
      BY <1>1, <2>0, <2>1, <2>3, <3>1, <3>2 DEF Consistent
    <3>4. t.lower[x] <= v /\ v <= t.upper[x] /\ t.lower[Partner(x)] <= v /\ v <= t.upper[Partner(x)]
      BY <2>1, <2>3, <3>1
    <3>5. /\ OutcomeOK(s, E, Ok(Follow(Follow(t, x, v), Partner(x), v)))
          /\ Reassigned(t, Follow(Follow(t, x, v), Partner(x), v), E)
      BY <1>1, <2>0, <2>4, <3>3, <3>4, FollowedBothOK
    <3> DEFINE u == Follow(Follow(t, x, v), Partner(x), v)
    <3>6. u.upper[x] <= v /\ u.dissolved = s.dissolved
      BY <2>1, <2>3, <3>5 DEF Reassigned
    <3>7. OutcomeOK(s, E, Ok(u)) /\ o = Ok(u)
      BY <2>2, <2>6, <3>5
    <3> HIDE DEF u
    <3>8. o.state = u
      BY <3>7 DEF Ok
    <3> QED BY <3>6, <3>7, <3>8 DEF BoundSet
  <2> QED BY <2>5, <2>6
<1>6. CASE ActiveRelu(s, x) /\ ~(v < 0 /\ x \in F) /\ ~(v > 0)
  <2> DEFINE t == [s EXCEPT !.upper[f] = 0, !.upper[B[f]] = v, !.dissolved[f] = "SPLIT"]
  <2>0. f \in F /\ f \in Var /\ B[f] \in Var /\ f # B[f] /\ f \notin E /\ B[f] \notin E
    BY <1>4, <1>6
  <2>1. /\ t \in States /\ t.tableau = s.tableau /\ t.assignment = s.assignment
        /\ t.lower = s.lower /\ t.upper = [s.upper EXCEPT ![f] = 0, ![B[f]] = v]
        /\ t.dissolved = [s.dissolved EXCEPT ![f] = "SPLIT"]
    <3>1. [s.upper EXCEPT ![f] = 0, ![B[f]] = v] \in [Var -> Int]
      BY <1>2, <2>0
    <3>2. [s.dissolved EXCEPT ![f] = "SPLIT"] \in [F -> Phases]
      BY <1>2, <2>0 DEF Phases
    <3>3. t = [s EXCEPT !.upper = [s.upper EXCEPT ![f] = 0, ![B[f]] = v],
                        !.dissolved = [s.dissolved EXCEPT ![f] = "SPLIT"]]
      BY <1>1 DEF States
    <3> QED BY <1>1, <3>1, <3>2, <3>3 DEF States
  <2>2. o = IF Contradictory(t, {f, B[f]}) THEN Violation(t)
            ELSE Ok(Follow(Follow(t, B[f], v), f, 0))
    BY <1>6 DEF UpdateUpperBound, f
  <2> HIDE DEF t
  <2>3. t.upper[f] = 0 /\ t.upper[B[f]] = v /\ \A z \in Var \ {f, B[f]} : t.upper[z] = s.upper[z]
    BY <1>2, <2>0, <2>1
  <2>4. \A g \in F : t.dissolved[g] = IF g = f THEN "SPLIT" ELSE s.dissolved[g]
    BY <1>2, <2>1
  <2>5. Rebound(s, t, {B[f], f})
    <3>1. v <= s.upper[B[f]] /\ 0 <= s.upper[f]
      <4>1. s.lower[f] >= 0 /\ s.lower[f] <= s.upper[f] /\ s.lower[f] \in Int /\ s.upper[f] \in Int
        BY <1>2, <1>4, <1>6, <2>0 DEF PairOK
      <4> QED BY <1>2, <1>4, <1>6, <2>0, <4>1
    <3>2. Tightened(s, t)
      BY <1>2, <1>4, <1>6, <2>1, <2>3, <2>4, <3>1 DEF Tightened
    <3>3. s.dissolved[f] # "MERGE"
      BY <1>4, <1>6 DEF Active
    <3> QED BY <2>1, <2>3, <2>4, <3>2, <3>3 DEF Rebound
  <2>6. CASE Contradictory(t, {f, B[f]})
    BY <2>2, <2>5, <2>6, ViolationOK DEF BoundSet, Violation
  <2>7. CASE ~Contradictory(t, {f, B[f]})
    <3>1. s.lower[f] <= 0 /\ s.lower[B[f]] <= v
      BY <1>2, <2>0, <2>1, <2>3, <2>7 DEF Contradictory
    <3>2. \A g \in F : PairOK(t, g)
      <4> TAKE g \in F
      <4>1. PairOK(s, g) /\ g \in Var /\ B[g] \in Var
        BY PairFacts DEF Consistent
      <4>2. CASE g = f
        BY <1>6, <2>1, <2>3, <2>4, <4>1, <4>2 DEF PairOK, Active
      <4>3. CASE g # f
        <5>1. t.upper[g] = s.upper[g] /\ t.upper[B[g]] = s.upper[B[g]]
          BY <1>4, <1>6, <2>3, <4>1, <4>3
        <5> QED BY <2>1, <2>4, <4>1, <4>3, <5>1 DEF PairOK
      <4> QED BY <4>2, <4>3
    <3>3. Consistent(t, E)
      BY <1>1, <2>0, <2>1, <2>3, <3>1, <3>2 DEF Consistent
    <3>4. t.lower[B[f]] <= v /\ v <= t.upper[B[f]] /\ t.lower[f] <= 0 /\ 0 <= t.upper[f]
      BY <2>1, <2>3, <3>1
    <3>5. /\ OutcomeOK(s, E, Ok(Follow(Follow(t, B[f], v), f, 0)))
          /\ Reassigned(t, Follow(Follow(t, B[f], v), f, 0), E)
      BY <1>1, <2>0, <2>5, <3>3, <3>4, FollowedBothOK
    <3>6. t.upper[x] <= v
      BY <1>4, <1>6, <2>3
    <3> QED BY <2>2, <2>4, <2>7, <3>5, <3>6 DEF BoundSet, Reassigned, Ok
  <2> QED BY <2>6, <2>7
<1> QED BY <1>3, <1>5, <1>6

\* Every case of the update of a lower bound.
LEMMA LowerOK ==
  ASSUME NEW s, NEW E \in SUBSET Aux, FormOK(s, E), Consistent(s, E),
         NEW x \in Var, NEW v \in Int, v > s.lower[x],
         MergedB(s, x) => v <= s.lower[PairOf(x)],
         NEW o \in UpdateLowerBound(s, x, v)
  PROVE  OutcomeOK(s, E, o) /\ BoundSet(s, x, "lower", v, o)
<1> DEFINE f == PairOf(x)
<1>1. s \in States /\ E \in SUBSET Var
  BY SimplexAssumption DEF FormOK
<1>2. /\ s.lower \in [Var -> Int] /\ s.upper \in [Var -> Int] /\ s.dissolved \in [F -> Phases]
  BY <1>1, StateFields
<1>3. CASE ~ActiveRelu(s, x) \/ v < 0
  <2> DEFINE t == [s EXCEPT !.lower[x] = v]
  <2>1. /\ t \in States /\ t.tableau = s.tableau /\ t.assignment = s.assignment
        /\ t.upper = s.upper /\ t.lower = [s.lower EXCEPT ![x] = v] /\ t.dissolved = s.dissolved
    BY <1>1, <1>2 DEF States
  <2>2. o = IF Contradictory(t, {x}) THEN Violation(t) ELSE Ok(Follow(t, x, v))
    BY <1>3 DEF UpdateLowerBound
  <2> HIDE DEF t
  <2>3. t.lower[x] = v /\ \A z \in Var \ {x} : t.lower[z] = s.lower[z]
    BY <1>2, <2>1
  <2>4. Rebound(s, t, {x})
    <3>1. Tightened(s, t)
      BY <1>2, <2>1, <2>3 DEF Tightened
    <3> QED BY <2>1, <2>3, <3>1 DEF Rebound
  <2>5. CASE Contradictory(t, {x})
    BY <2>2, <2>4, <2>5, ViolationOK DEF BoundSet, Violation
  <2>6. CASE ~Contradictory(t, {x})
    <3>1. v <= s.upper[x]
      BY <1>2, <2>1, <2>3, <2>6 DEF Contradictory
    <3>2. x \notin E
      BY <1>2, <3>1 DEF Consistent
    <3>3. \A g \in F : PairOK(t, g)
      <4> TAKE g \in F
      <4>1. PairOK(s, g) /\ g \in Var /\ B[g] \in Var /\ g # B[g]
        BY PairFacts DEF Consistent
      <4>2. /\ s.lower[g] \in Int /\ s.lower[B[g]] \in Int /\ s.dissolved[g] \in Phases
            /\ s.lower[g] >= 0
        BY <1>2, <4>1 DEF PairOK
      <4>3. x = B[g] => (MergedB(s, x) <=> s.dissolved[g] = "MERGE") /\ PairOf(B[g]) = g
        BY PairFacts DEF MergedB
      <4>4. v < 0 \/ (x \in {g, B[g]} => s.dissolved[g] # Active)
        <5>1. IsRelu(g) /\ IsRelu(B[g]) /\ PairOf(g) = g /\ PairOf(B[g]) = g
          BY PairFacts
        <5> QED BY <1>3, <5>1 DEF ActiveRelu
      <4>5. CASE x = g
        BY <2>1, <2>3, <4>1, <4>2, <4>4, <4>5 DEF PairOK, Active
      <4>6. CASE x = B[g]
        <5>1. t.lower[B[g]] = v /\ t.lower[g] = s.lower[g] /\ s.lower[B[g]] < v
          BY <2>3, <4>1, <4>6
        <5>2. CASE s.dissolved[g] = Active
          <6>1. v < 0 /\ s.lower[g] = 0
            BY <4>1, <4>2, <4>4, <4>6, <5>1, <5>2 DEF PairOK
          <6> QED BY <2>1, <4>1, <4>2, <5>1, <5>2, <6>1 DEF PairOK, Active
        <5>3. CASE s.dissolved[g] # Active
          BY <2>1, <4>1, <4>2, <4>3, <4>6, <5>1, <5>3 DEF PairOK
        <5> QED BY <5>2, <5>3
      <4>7. CASE x # g /\ x # B[g]
        BY <2>1, <2>3, <4>1, <4>7 DEF PairOK
      <4> QED BY <4>5, <4>6, <4>7
    <3>4. Consistent(t, E)
      BY <1>1, <2>1, <2>3, <3>1, <3>2, <3>3 DEF Consistent
    <3>5. t.lower[x] <= v /\ v <= t.upper[x]
      BY <2>1, <2>3, <3>1
    <3>6. OutcomeOK(s, E, Ok(Follow(t, x, v))) /\ Reassigned(t, Follow(t, x, v), E)
      BY <1>1, <2>4, <3>2, <3>4, <3>5, FollowedOK
    <3> QED BY <2>1, <2>2, <2>3, <2>6, <3>6 DEF BoundSet, Reassigned, Ok
  <2> QED BY <2>5, <2>6
<1>4. CASE ActiveRelu(s, x) /\ ~(v < 0)
  <2> DEFINE t == [s EXCEPT !.lower[x] = v, !.lower[Partner(x)] = v]
             u == Follow(Follow(t, x, v), Partner(x), v)
  <2>1. /\ f \in F
        /\ \/ x = f /\ Partner(x) = B[x]
           \/ x \notin F /\ x = B[f] /\ Partner(x) = f
    BY <1>4, ReluVariable DEF ActiveRelu
  <2>2. s.dissolved[f] = Active
    BY <1>4 DEF ActiveRelu
  <2>3. o \in IF Contradictory(t, {x, Partner(x)}) THEN {Violation(t)} ELSE UnifyReluPair(u, f)
    BY <1>4 DEF UpdateLowerBound
  <2>4. /\ Partner(x) \in Var /\ Partner(x) # x /\ x \notin E /\ Partner(x) \notin E
        /\ {x, Partner(x)} = {f, B[f]}
        /\ \A g \in F \ {f} : {g, B[g]} \cap {f, B[f]} = {}
    BY <2>1, PairFacts, SimplexAssumption
  <2>5. /\ t \in States /\ t.tableau = s.tableau /\ t.assignment = s.assignment
        /\ t.upper = s.upper /\ t.lower = [s.lower EXCEPT ![x] = v, ![Partner(x)] = v]
        /\ t.dissolved = s.dissolved
    BY <1>1, <1>2, <2>4 DEF States
  <2> HIDE DEF t, f
  <2>6. t.lower[x] = v /\ t.lower[Partner(x)] = v
          /\ \A z \in Var \ {x, Partner(x)} : t.lower[z] = s.lower[z]
    BY <1>2, <2>4, <2>5
  <2>7. Rebound(s, t, {x, Partner(x)})
    <3>1. PairOK(s, f) /\ s.lower[f] \in Int /\ s.lower[B[f]] \in Int
      BY <1>2, <2>1, PairFacts DEF Consistent
    <3>2. s.lower[Partner(x)] <= v
      BY <1>4, <2>1, <2>2, <3>1 DEF PairOK
    <3>3. Tightened(s, t)
      BY <1>2, <2>5, <2>6, <3>2 DEF Tightened
    <3> QED BY <2>5, <2>6, <3>3 DEF Rebound
  <2>8. CASE Contradictory(t, {x, Partner(x)})
    BY <2>3, <2>7, <2>8, ViolationOK DEF BoundSet, Violation
  <2>9. CASE ~Contradictory(t, {x, Partner(x)})
    <3>1. v <= s.upper[x] /\ v <= s.upper[Partner(x)]
      BY <1>2, <2>4, <2>5, <2>6, <2>9 DEF Contradictory
    <3>2. \A g \in F : PairOK(t, g)
      <4> TAKE g \in F
      <4>1. PairOK(s, g) /\ g \in Var /\ B[g] \in Var
        BY PairFacts DEF Consistent
      <4>2. CASE g = f
        <5>1. t.lower[f] = v /\ t.lower[B[f]] = v
          BY <2>4, <2>6
        <5> QED BY <1>4, <2>2, <2>5, <4>1, <4>2, <5>1 DEF PairOK, Active
      <4>3. CASE g # f
        <5>1. t.lower[g] = s.lower[g] /\ t.lower[B[g]] = s.lower[B[g]]
          BY <2>4, <2>6, <4>1, <4>3
        <5> QED BY <2>5, <4>1, <5>1 DEF PairOK
      <4> QED BY <4>2, <4>3
    <3>3. Consistent(t, E)
      BY <1>1, <2>4, <2>5, <2>6, <3>1, <3>2 DEF Consistent
    <3>4. t.lower[x] <= v /\ v <= t.upper[x] /\ t.lower[Partner(x)] <= v /\ v <= t.upper[Partner(x)]
      BY <2>5, <2>6, <3>1
    <3>5. FollowedBoth(s, u, E) /\ Reassigned(t, u, E)
      BY <1>1, <2>4, <2>7, <3>3, <3>4, FollowedBothOK
    <3> HIDE DEF u
    <3>6. FormOK(u, E) /\ Consistent(u, E) /\ u.dissolved[f] = Active /\ u \in States
      BY <2>2, <2>5, <3>5 DEF FollowedBoth, Reassigned, FormOK
    <3>7. /\ OutcomeOK(u, E, o) /\ o.state.lower = u.lower
          /\ \A g \in F \ {f} : o.state.dissolved[g] = u.dissolved[g]
      BY <2>1, <2>3, <2>9, <3>6, UnifyOK
    <3>8. o.state \in States
      BY <3>7 DEF OutcomeOK, FormOK
    <3>9. Tightened(s, o.state)
      BY <1>1, <3>5, <3>6, <3>7, <3>8, TightenedTrans DEF FollowedBoth, OutcomeOK
    <3>10. OutcomeOK(s, E, o)
      BY <3>5, <3>7, <3>9 DEF OutcomeOK, FollowedBoth
    <3>11. o.state.lower[x] = v /\ \A g \in F \ {f} : o.state.dissolved[g] = s.dissolved[g]
      BY <2>5, <2>6, <3>5, <3>7 DEF Reassigned
    <3> QED BY <2>4, <3>10, <3>11 DEF BoundSet
  <2> QED BY <2>8, <2>9
<1> QED BY <1>3, <1>4

\* Every update of a bound keeps the form, does not loosen bounds and, unless it
\* throws, leaves the non-basic variables within theirs.
LEMMA SetBoundOK ==
  ASSUME NEW s, NEW E \in SUBSET Aux, FormOK(s, E), Consistent(s, E),
         NEW x \in Var, NEW side \in {"lower", "upper"}, NEW v \in Int, Tighter(s, x, side, v),
         MergedB(s, x) => IF side = "lower" THEN v <= s.lower[PairOf(x)]
                          ELSE s.upper[PairOf(x)] <= v,
         NEW o \in SetBound(s, x, side, v)
  PROVE  OutcomeOK(s, E, o) /\ BoundSet(s, x, side, v, o)
<1>1. CASE side = "lower"
  BY <1>1, LowerOK DEF Tighter, SetBound
<1>2. CASE side = "upper"
  BY <1>2, UpperOK DEF Tighter, SetBound
<1> QED BY <1>1, <1>2

-----------------------------------------------------------------------------
(*************************************************************************)
(* Bounds asserted again.                                                *)
(*************************************************************************)
BackupOK ==
  /\ backup \in [keep : BOOLEAN, basics : SUBSET Var, lower : [Var -> Int],
                 upper : [Var -> Int], dissolved : [F -> Phases]]
  /\ \A f \in F : PairOK(backup, f)

\* The bounds of b that are still to be asserted are no tighter than those of f.
Pending(s) ==
  \A f \in F : s.dissolved[f] = "MERGE" =>
    backup.lower[B[f]] <= s.lower[f] /\ s.upper[f] <= backup.upper[B[f]]

BackupBound(x, side) == IF side = "lower" THEN backup.lower[x] ELSE backup.upper[x]

Asserts(p, o, x, side) ==
  /\ Tightened(p.state, o.state)
  /\ o.thrown = "NONE" =>
       /\ p.thrown = "NONE"
       /\ IF side = "lower" THEN o.state.lower[x] >= backup.lower[x]
          ELSE o.state.upper[x] <= backup.upper[x]
       /\ \A g \in F : o.state.dissolved[g] = "MERGE" =>
            p.state.dissolved[g] = "MERGE" \/ (side = "lower" /\ x \in {g, B[g]})

\* The bound that is asserted of a merged b does not matter for its f.
Admits(p, x, side) ==
  p.thrown = "NONE" /\ MergedB(p.state, x) =>
    IF side = "lower" THEN backup.lower[x] <= p.state.lower[PairOf(x)]
    ELSE p.state.upper[PairOf(x)] <= backup.upper[x]

\* One bound of the backup is asserted, after outcomes that admit it.
LEMMA AssertedOK ==
  ASSUME BackupOK, NEW s, NEW E \in SUBSET Aux, FormOK(s, E),
         NEW x \in Var, NEW side \in {"lower", "upper"},
         NEW O, \A p \in O : OutcomeOK(s, E, p) /\ Admits(p, x, side),
         NEW o \in Asserted(O, x, side)
  PROVE  /\ OutcomeOK(s, E, o)
         /\ \E p \in O : Asserts(p, o, x, side)
<1> DEFINE v == BackupBound(x, side)
<1>1. v \in Int /\ backup.lower[x] \in Int /\ backup.upper[x] \in Int
  BY DEF BackupOK, BackupBound
<1>2. PICK p \in O : IF p.thrown = "NONE" /\ Tighter(p.state, x, side, v)
                     THEN o \in SetBound(p.state, x, side, v) ELSE o = p
  BY DEF Asserted, BackupBound
<1>3. v = IF side = "lower" THEN backup.lower[x] ELSE backup.upper[x]
  BY DEF BackupBound
<1> HIDE DEF v
<1>4. OutcomeOK(s, E, p) /\ Admits(p, x, side) /\ p.state \in States /\ s \in States
  BY DEF OutcomeOK, FormOK
<1>5. p.state.lower[x] \in Int /\ p.state.upper[x] \in Int
  BY <1>4, StateFields
<1>6. CASE p.thrown = "NONE" /\ Tighter(p.state, x, side, v)
  <2>1. FormOK(p.state, E) /\ Consistent(p.state, E)
    BY <1>4, <1>6 DEF OutcomeOK
  <2>2. MergedB(p.state, x) => IF side = "lower" THEN v <= p.state.lower[PairOf(x)]
                               ELSE p.state.upper[PairOf(x)] <= v
    BY <1>3, <1>4, <1>6 DEF Admits
  <2>3. o \in SetBound(p.state, x, side, v)
    BY <1>2, <1>6
  <2>4. OutcomeOK(p.state, E, o) /\ BoundSet(p.state, x, side, v, o)
    BY <1>1, <1>6, <2>1, <2>2, <2>3, SetBoundOK
  <2>5. Tightened(p.state, o.state) /\ Tightened(s, p.state) /\ o.state \in States
    BY <1>4, <2>4 DEF OutcomeOK, FormOK
  <2>6. OutcomeOK(s, E, o)
    BY <1>4, <1>6, <2>4, <2>5, TightenedTrans DEF OutcomeOK
  <2>7. Asserts(p, o, x, side)
    BY <1>3, <1>6, <2>4, <2>5 DEF Asserts, BoundSet
  <2> QED BY <2>6, <2>7
<1>7. CASE ~(p.thrown = "NONE" /\ Tighter(p.state, x, side, v))
  <2>1. o = p
    BY <1>2, <1>7
  <2>2. Tightened(p.state, p.state)
    BY <1>4, TightenedRefl
  <2>3. Asserts(p, p, x, side)
    BY <1>1, <1>3, <1>5, <1>7, <2>2 DEF Asserts, Tighter
  <2> QED BY <1>4, <2>1, <2>3
<1> QED BY <1>6, <1>7

\* Nothing done is an outcome.
LEMMA OkOutcome ==
  ASSUME NEW s, NEW E, FormOK(s, E), Consistent(s, E)
  PROVE  OutcomeOK(s, E, Ok(s)) /\ Ok(s).state = s /\ Ok(s).thrown = "NONE"
<1>1. Tightened(s, s)
  BY TightenedRefl DEF FormOK
<1> QED BY <1>1 DEF OutcomeOK, Ok

\* A pair that was merged before still has nothing to fear from the bounds of b.
LEMMA PendingKept ==
  ASSUME BackupOK, NEW s \in States, NEW t \in States, Pending(s), Tightened(s, t),
         NEW g \in F, s.dissolved[g] = "MERGE"
  PROVE  backup.lower[B[g]] <= t.lower[g] /\ t.upper[g] <= backup.upper[B[g]]
<1>1. g \in Var /\ B[g] \in Var
  BY PairFacts
<1>2. /\ s.lower[g] \in Int /\ t.lower[g] \in Int /\ s.upper[g] \in Int /\ t.upper[g] \in Int
      /\ backup.lower[B[g]] \in Int /\ backup.upper[B[g]] \in Int
  BY <1>1, StateFields DEF BackupOK
<1> QED BY <1>1, <1>2 DEF Pending, Tightened

\* The bounds of one variable are asserted: the b of a merged pair never gets a
\* bound tighter than that of its f.
LEMMA ReassertedOK ==
  ASSUME BackupOK, NEW s, NEW E \in SUBSET Aux, FormOK(s, E), Consistent(s, E), Pending(s),
         NEW x \in Var, NEW o \in Reasserted(s, x)
  PROVE  OutcomeOK(s, E, o) /\ (o.thrown = "NONE" => Pending(o.state))
<1>1. s \in States /\ OutcomeOK(s, E, Ok(s)) /\ Ok(s).state = s /\ Ok(s).thrown = "NONE"
  BY OkOutcome DEF FormOK
<1>2. \A p : OutcomeOK(s, E, p) => p.state \in States
  BY DEF OutcomeOK, FormOK
<1> DEFINE start == {Ok(s)}
<1>3. CASE ~ActiveRelu(s, x)
  <2> DEFINE first == Asserted(start, x, "lower")
  <2>1. o \in Asserted(first, x, "upper")
    BY <1>3 DEF Reasserted
  <2>2. MergedB(s, x) => PairOf(x) \in F /\ x = B[PairOf(x)] /\ s.dissolved[PairOf(x)] = "MERGE"
    BY PairFacts DEF MergedB, IsB
  <2>3. Admits(Ok(s), x, "lower")
    BY <1>1, <2>2 DEF Admits, Pending
  <2>4. ASSUME NEW p \in first
        PROVE  OutcomeOK(s, E, p) /\ Asserts(Ok(s), p, x, "lower")
    BY <1>1, <2>3, AssertedOK
  <2>5. ASSUME NEW p \in first
        PROVE  Admits(p, x, "upper")
    <3> SUFFICES ASSUME p.thrown = "NONE", MergedB(p.state, x)
                 PROVE p.state.upper[PairOf(x)] <= backup.upper[x]
      BY DEF Admits
    <3>1. PairOf(x) \in F /\ x = B[PairOf(x)] /\ IsRelu(x) /\ p.state.dissolved[PairOf(x)] = "MERGE"
      BY PairFacts DEF MergedB, IsB
    <3>2. s.dissolved[PairOf(x)] # Active
      BY <1>3, <3>1 DEF ActiveRelu
    <3>3. s.dissolved[PairOf(x)] = "MERGE" /\ Tightened(s, p.state)
      BY <1>1, <2>4, <3>1, <3>2 DEF Asserts, Tightened
    <3> QED BY <1>1, <1>2, <2>4, <3>1, <3>3, PendingKept
  <2> HIDE DEF first
  <2>6. PICK p \in first : OutcomeOK(s, E, o) /\ Asserts(p, o, x, "upper")
    BY <2>1, <2>4, <2>5, AssertedOK
  <2>7. ASSUME o.thrown = "NONE" PROVE Pending(o.state)
    <3>1. o.state \in States /\ Tightened(s, o.state)
      BY <2>6 DEF OutcomeOK, FormOK
    <3> SUFFICES ASSUME NEW g \in F, o.state.dissolved[g] = "MERGE"
                 PROVE  s.dissolved[g] = "MERGE"
      BY <1>1, <3>1, PendingKept DEF Pending
    <3>2. s.dissolved[g] = "MERGE" \/ x \in {g, B[g]}
      BY <1>1, <2>4, <2>6, <2>7 DEF Asserts
    <3>3. CASE x \in {g, B[g]}
      <4>1. s.dissolved[g] # Active
        BY <1>3, <3>3, PairFacts DEF ActiveRelu
      <4> QED BY <3>1, <4>1 DEF Tightened
    <3> QED BY <3>2, <3>3
  <2> QED BY <2>6, <2>7
<1>4. CASE ActiveRelu(s, x) /\ x \notin F
  <2>1. o = Ok(s)
    BY <1>4 DEF Reasserted
  <2> QED BY <1>1, <2>1
<1>5. CASE ActiveRelu(s, x) /\ x \in F
  <2> DEFINE b == B[x]
  <2>1. /\ s.dissolved[x] = Active /\ b \in Var /\ PairOf(b) = x /\ ~IsB(x) /\ PairOK(backup, x)
        /\ \A g \in F \ {x} : {g, B[g]} \cap {x, b} = {}
    BY <1>5, PairFacts, SimplexAssumption DEF ActiveRelu, BackupOK
  <2>2. backup.dissolved[x] \in Phases
    BY <1>5 DEF BackupOK
  <2>3. \A p, side : Admits(p, x, side)
    BY <2>1 DEF Admits, MergedB
  <2>4. \A p, side : (p.thrown = "NONE" => p.state.dissolved[x] # "MERGE") => Admits(p, b, side)
    BY <2>1 DEF Admits, MergedB
  <2>5. backup.lower[x] \in Int /\ backup.upper[x] \in Int
          /\ backup.lower[b] \in Int /\ backup.upper[b] \in Int
    BY <1>5, <2>1 DEF BackupOK
  <2>6. ASSUME OutcomeOK(s, E, o), o.thrown = "NONE",
               \A g \in F \ {x} : o.state.dissolved[g] = "MERGE" => s.dissolved[g] = "MERGE",
               o.state.dissolved[x] = "MERGE" =>
                 backup.lower[b] <= o.state.lower[x] /\ o.state.upper[x] <= backup.upper[b]
        PROVE  Pending(o.state)
    <3>1. o.state \in States /\ Tightened(s, o.state)
      BY <2>6 DEF OutcomeOK, FormOK
    <3> SUFFICES ASSUME NEW g \in F, o.state.dissolved[g] = "MERGE"
                 PROVE  backup.lower[B[g]] <= o.state.lower[g] /\ o.state.upper[g] <= backup.upper[B[g]]
      BY DEF Pending
    <3>2. CASE g = x
      BY <2>6, <3>2
    <3>3. CASE g # x
      BY <1>1, <2>6, <3>1, <3>3, PendingKept
    <3> QED BY <3>2, <3>3
  <2>7. ASSUME OutcomeOK(s, E, o), o.thrown = "NONE", o.state.dissolved[x] = "MERGE"
        PROVE  /\ o.state.lower[b] <= o.state.lower[x] /\ o.state.upper[x] <= o.state.upper[b]
               /\ o.state.lower[x] \in Int /\ o.state.lower[b] \in Int
               /\ o.state.upper[x] \in Int /\ o.state.upper[b] \in Int
    <3>1. PairOK(o.state, x) /\ o.state \in States
      BY <1>5, <2>7 DEF OutcomeOK, Consistent, FormOK
    <3>2. x \in Var /\ b \in Var
      BY <2>1
    <3> QED BY <2>7, <3>1, <3>2, StateFields DEF PairOK
  <2> HIDE DEF b
  <2>8. CASE backup.dissolved[x] = Active
    <3> DEFINE first == Asserted(start, x, "upper")
    <3>1. o \in Asserted(first, b, "lower")
      BY <1>5, <2>8 DEF Reasserted, b, Active
    <3>2. ASSUME NEW p \in first
          PROVE  OutcomeOK(s, E, p) /\ Asserts(Ok(s), p, x, "upper")
      BY <1>1, <2>3, AssertedOK
    <3>3. ASSUME NEW p \in first, p.thrown = "NONE", NEW g \in F, p.state.dissolved[g] = "MERGE"
          PROVE  s.dissolved[g] = "MERGE"
      BY <1>1, <3>2, <3>3 DEF Asserts
    <3>4. \A p \in first : OutcomeOK(s, E, p) /\ Admits(p, b, "lower")
      BY <1>5, <2>1, <2>4, <3>2, <3>3 DEF Active
    <3> HIDE DEF first
    <3>5. PICK p \in first : OutcomeOK(s, E, o) /\ Asserts(p, o, b, "lower")
      BY <2>1, <3>1, <3>4, AssertedOK
    <3>6. ASSUME o.thrown = "NONE" PROVE Pending(o.state)
      <4>1. /\ p.thrown = "NONE" /\ o.state.lower[b] >= backup.lower[b]
            /\ p.state.upper[x] <= backup.upper[x] /\ o.state.upper[x] <= p.state.upper[x]
        BY <3>2, <3>5, <3>6 DEF Asserts, Tightened
      <4>2. \A g \in F \ {x} : o.state.dissolved[g] = "MERGE" => s.dissolved[g] = "MERGE"
        BY <2>1, <3>3, <3>5, <3>6, <4>1 DEF Asserts
      <4>3. backup.upper[x] = backup.upper[b]
        BY <2>1, <2>8 DEF PairOK, b
      <4>4. p.state \in States
        BY <1>2, <3>2
      <4>5. p.state.upper[x] \in Int
        BY <4>4, StateFields
      <4> QED BY <2>5, <2>6, <2>7, <3>5, <3>6, <4>1, <4>2, <4>3, <4>5
    <3> QED BY <3>5, <3>6
  <2>9. CASE backup.dissolved[x] = "SPLIT"
    <3> DEFINE first == Asserted(start, b, "upper")
    <3>1. o \in Asserted(first, b, "lower")
      BY <1>5, <2>9 DEF Reasserted, b, Active
    <3>2. ASSUME NEW p \in first
          PROVE  OutcomeOK(s, E, p) /\ Asserts(Ok(s), p, b, "upper")
      <4>1. Admits(Ok(s), b, "upper")
        BY <1>1, <2>1, <2>4 DEF Active
      <4> QED BY <1>1, <2>1, <4>1, AssertedOK
    <3>3. ASSUME NEW p \in first, p.thrown = "NONE", NEW g \in F, p.state.dissolved[g] = "MERGE"
          PROVE  s.dissolved[g] = "MERGE"
      BY <1>1, <3>2, <3>3 DEF Asserts
    <3>4. \A p \in first : OutcomeOK(s, E, p) /\ Admits(p, b, "lower")
      BY <1>5, <2>1, <2>4, <3>2, <3>3 DEF Active
    <3> HIDE DEF first
    <3>5. PICK p \in first : OutcomeOK(s, E, o) /\ Asserts(p, o, b, "lower")
      BY <2>1, <3>1, <3>4, AssertedOK
    <3>6. ASSUME o.thrown = "NONE" PROVE Pending(o.state)
      <4>1. /\ p.thrown = "NONE" /\ o.state.lower[b] >= backup.lower[b]
            /\ p.state.upper[b] <= backup.upper[b] /\ o.state.upper[b] <= p.state.upper[b]
        BY <2>1, <3>2, <3>5, <3>6 DEF Asserts, Tightened
      <4>2. \A g \in F \ {x} : o.state.dissolved[g] = "MERGE" => s.dissolved[g] = "MERGE"
        BY <2>1, <3>3, <3>5, <3>6, <4>1 DEF Asserts
      <4>4. p.state \in States
        BY <1>2, <3>2
      <4>5. p.state.upper[b] \in Int
        BY <2>1, <4>4, StateFields
      <4> QED BY <2>5, <2>6, <2>7, <3>5, <3>6, <4>1, <4>2, <4>5
    <3> QED BY <3>5, <3>6
  <2>10. CASE backup.dissolved[x] = "MERGE"
    <3> DEFINE first == Asserted(start, b, "lower")
               second == Asserted(first, x, "lower")
    <3>1. o \in Asserted(second, x, "upper")
      BY <1>5, <2>10 DEF Reasserted, b, Active
    <3>2. ASSUME NEW p \in first
          PROVE  OutcomeOK(s, E, p) /\ Asserts(Ok(s), p, b, "lower")
      <4>1. Admits(Ok(s), b, "lower")
        BY <1>1, <2>1, <2>4 DEF Active
      <4> QED BY <1>1, <2>1, <4>1, AssertedOK
    <3> HIDE DEF first
    <3>3. ASSUME NEW q \in second
          PROVE  OutcomeOK(s, E, q) /\ \E p \in first : Asserts(p, q, x, "lower")
      BY <2>3, <3>2, AssertedOK
    <3> HIDE DEF second
    <3>4. PICK q \in second : OutcomeOK(s, E, o) /\ Asserts(q, o, x, "upper")
      BY <2>3, <3>1, <3>3, AssertedOK
    <3>5. PICK p \in first : Asserts(p, q, x, "lower")
      BY <3>3
    <3>6. ASSUME o.thrown = "NONE" PROVE Pending(o.state)
      <4>1. q.thrown = "NONE" /\ p.thrown = "NONE"
        BY <3>4, <3>5, <3>6 DEF Asserts
      <4>2. /\ q.state.lower[x] >= backup.lower[x] /\ q.state.lower[x] <= o.state.lower[x]
            /\ o.state.upper[x] <= backup.upper[x]
        BY <3>4, <3>5, <3>6, <4>1 DEF Asserts, Tightened
      <4>3. \A g \in F \ {x} : o.state.dissolved[g] = "MERGE" => s.dissolved[g] = "MERGE"
        BY <1>1, <2>1, <3>2, <3>4, <3>5, <3>6, <4>1 DEF Asserts
      <4>4. backup.lower[b] <= backup.lower[x] /\ backup.upper[x] <= backup.upper[b]
        BY <2>1, <2>10 DEF PairOK, b
      <4>5. q.state \in States /\ o.state \in States
        BY <1>2, <3>3, <3>4
      <4>6. q.state.lower[x] \in Int /\ o.state.lower[x] \in Int /\ o.state.upper[x] \in Int
        BY <4>5, StateFields
      <4> QED BY <2>5, <2>6, <3>4, <3>6, <4>2, <4>3, <4>4, <4>6
    <3> QED BY <3>4, <3>6
  <2> QED BY <2>2, <2>8, <2>9, <2>10 DEF Phases
<1> QED BY <1>3, <1>4, <1>5

-----------------------------------------------------------------------------
(*************************************************************************)
(* Repairs of pairs, and the elimination of auxiliary variables.         *)
(*************************************************************************)
\* Smaller terms have a smaller sum.
LEMMA DotOrdered ==
  ASSUME NEW S, IsFiniteSet(S),
         NEW r, NEW a, IntOn(r, S), IntOn(a, S), NEW q, NEW b, IntOn(q, S), IntOn(b, S),
         \A x \in S : r[x] * a[x] <= q[x] * b[x]
  PROVE  Dot(r, a, S) <= Dot(q, b, S)
<1> DEFINE bad == {T \in SUBSET S : ~(Dot(r, a, T) <= Dot(q, b, T))}
<1> SUFFICES ASSUME bad # {} PROVE FALSE
  OBVIOUS
<1>1. PICK X \in bad : \A Y \in bad : Y \subseteq X => Y = X
  <2>1. bad \subseteq SUBSET S OBVIOUS
  <2> HIDE DEF bad
  <2> QED BY <2>1, MinimalSubset
<1>2. X # {}
  <2> SUFFICES ASSUME X = {} PROVE FALSE
    OBVIOUS
  <2>1. Dot(r, a, X) = 0 /\ Dot(q, b, X) = 0
    BY DotEmpty
  <2> QED BY <2>1
<1>3. PICK x \in X : TRUE
  BY <1>2
<1> DEFINE Y == X \ {x}
<1>4. Dot(r, a, Y) <= Dot(q, b, Y)
  BY <1>1
<1>5. IsFiniteSet(X) /\ IntOn(r, X) /\ IntOn(a, X) /\ IntOn(q, X) /\ IntOn(b, X)
  BY FS_Subset DEF IntOn
<1>6. /\ Dot(r, a, X) = r[x] * a[x] + Dot(r, a, Y) /\ Dot(r, a, Y) \in Int
      /\ Dot(q, b, X) = q[x] * b[x] + Dot(q, b, Y) /\ Dot(q, b, Y) \in Int
  BY <1>5, DotRemove
<1>7. r[x] * a[x] <= q[x] * b[x]
  OBVIOUS
<1>8. r[x] * a[x] \in Int /\ q[x] * b[x] \in Int
  BY DEF IntOn
<1> HIDE DEF Y
<1>9. PICK l \in Int, m \in Int : l = r[x] * a[x] /\ m = q[x] * b[x]
  BY <1>8
<1>10. Dot(r, a, X) = l + Dot(r, a, Y) /\ Dot(q, b, X) = m + Dot(q, b, Y) /\ l <= m
  BY <1>6, <1>7, <1>9
<1>11. Dot(r, a, X) <= Dot(q, b, X)
  BY <1>4, <1>6, <1>9, <1>10
<1> QED BY <1>11

\* The value of a basic variable is the sum of its row over the others.
LEMMA RowValue ==
  ASSUME NEW S, IsFiniteSet(S), NEW r, NEW a, IntOn(r, S), IntOn(a, S), NEW y \in S, r[y] = -1
  PROVE  /\ Dot(r, a, S \ {y}) \in Int
         /\ Dot(r, a, S) = 0 <=> a[y] = Dot(r, a, S \ {y})
<1>1. Dot(r, a, S) = r[y] * a[y] + Dot(r, a, S \ {y}) /\ Dot(r, a, S \ {y}) \in Int
  BY DotRemove
<1>2. a[y] \in Int
  BY DEF IntOn
<1>3. \A i, j \in Int : ((-1) * i + j = 0) <=> i = j
  OBVIOUS
<1>4. Dot(r, a, S) = (-1) * a[y] + Dot(r, a, S \ {y})
  BY <1>1
<1>5. (-1) * a[y] + Dot(r, a, S \ {y}) = 0 <=> a[y] = Dot(r, a, S \ {y})
  BY <1>1, <1>2, <1>3
<1> QED BY <1>1, <1>4, <1>5

-----------------------------------------------------------------------------
\* y is non-basic now and has the value v; the other non-basic variables have
\* been so before.
Moved(s, t, y, v, E) ==
  /\ FormOK(t, E)
  /\ t.lower = s.lower /\ t.upper = s.upper /\ t.dissolved = s.dissolved
  /\ NonBasic(t, y) /\ t.assignment[y] = v
  /\ \A z \in Var \ {y} : NonBasic(t, z) => NonBasic(s, z) /\ t.assignment[z] = s.assignment[z]

\* A pivot on a unit keeps the form.
LEMMA PivotForm ==
  ASSUME NEW s, NEW E \in SUBSET Var, FormOK(s, E), NEW y \in Basic(s),
         NEW x \in Var \ {y}, UnitAt(s, y, x)
  PROVE  /\ FormOK(Pivot(s, x, y), E) /\ Same(s, Pivot(s, x, y))
         /\ Basic(Pivot(s, x, y)) = (Basic(s) \ {y}) \cup {x}
         /\ y \in Var /\ NonBasic(s, x) /\ NonBasic(Pivot(s, x, y), y)
<1>1. s \in States /\ BasisForm(s.tableau) /\ y \in Var
  BY StateFields DEF FormOK
<1>2. /\ Same(s, Pivot(s, x, y)) /\ NonBasic(s, x)
      /\ Basic(Pivot(s, x, y)) = (Basic(s) \ {y}) \cup {x}
  BY <1>1, PivotSame
<1>3. FormOK(Pivot(s, x, y), E)
  BY <1>2, SameForm
<1> QED BY <1>1, <1>2, <1>3 DEF NonBasic

\* An update of a non-basic variable moves no other non-basic one.
LEMMA UpdateMoves ==
  ASSUME NEW s, NEW E \in SUBSET Var, FormOK(s, E), NEW x \in Var, NonBasic(s, x), NEW v \in Int,
         x \notin E
  PROVE  Moved(s, Update(s, x, v), x, v, E)
<1>1. FormOK(Update(s, x, v), E)
  BY UpdateForm
<1>2. s \in States
  BY DEF FormOK
<1>3. Changed(s, Update(s, x, v), x, v)
  BY <1>2, UpdateChanges
<1> QED BY <1>1, <1>3 DEF Changed, Moved, NonBasic, Basic

\* A pivot and an update of the variable that has left the basis.
LEMMA PivotMoves ==
  ASSUME NEW s, NEW E \in SUBSET Var, FormOK(s, E), NEW y \in Basic(s),
         NEW x \in Var \ {y}, UnitAt(s, y, x), NEW v \in Int
  PROVE  /\ Moved(s, Update(Pivot(s, x, y), y, v), y, v, E)
         /\ Basic(Update(Pivot(s, x, y), y, v)) = (Basic(s) \ {y}) \cup {x}
<1> DEFINE t == Pivot(s, x, y)
           u == Update(t, y, v)
<1>1. FormOK(t, E) /\ Same(s, t) /\ Basic(t) = (Basic(s) \ {y}) \cup {x} /\ y \in Var /\ NonBasic(t, y)
        /\ NonBasic(s, x)
  BY PivotForm
<1> HIDE DEF t
<1>2. y \notin E
  BY DEF FormOK, GoneEmpty, Gone, NonBasic
<1>3. Moved(t, u, y, v, E)
  BY <1>1, <1>2, UpdateMoves
<1>4. Changed(t, u, y, v)
  BY <1>1, UpdateChanges DEF FormOK
<1> HIDE DEF u
<1>5. Moved(s, u, y, v, E)
  BY <1>1, <1>3 DEF Moved, Same, NonBasic
<1>6. Basic(u) = Basic(t)
  BY <1>4 DEF Changed, Basic
<1> QED BY <1>1, <1>5, <1>6 DEF t, u

\* Moving a variable does not touch the bounds.
LEMMA MovedConsistent ==
  ASSUME NEW s, NEW t, NEW y, NEW v, NEW E, Moved(s, t, y, v, E), Consistent(s, E)
  PROVE  Consistent(t, E)
BY DEF Consistent, Moved, PairOK

\* Moving a variable to a value within its bounds keeps all others in theirs.
LEMMA MovedInBounds ==
  ASSUME NEW s, NEW t, NEW y \in Var, NEW v \in Int, NEW E, Moved(s, t, y, v, E), InBounds(s),
         s \in States, s.lower[y] <= v, v <= s.upper[y]
  PROVE  InBounds(t)
<1>1. s.lower[y] \in Int /\ s.upper[y] \in Int
  BY StateFields
<1> SUFFICES ASSUME NEW z \in Var, NonBasic(t, z) PROVE ~OutOfBounds(t, z)
  BY DEF InBounds
<1>2. CASE z = y
  BY <1>1, <1>2 DEF Moved, OutOfBounds, TooLow, TooHigh
<1>3. CASE z # y
  BY <1>3 DEF Moved, InBounds, OutOfBounds, TooLow, TooHigh
<1> QED BY <1>2, <1>3

\* The repair of a variable of a pair moves it.
LEMMA FixMoves ==
  ASSUME NEW s, NEW E \in SUBSET Var, FormOK(s, E), NEW x \in Var, x \notin E, NEW v \in Int,
         NEW t \in FixBrokenReluVariable(s, x, v)
  PROVE  Moved(s, t, x, v, E)
<1>1. CASE NonBasic(s, x)
  BY <1>1, UpdateMoves DEF FixBrokenReluVariable
<1>2. CASE ~NonBasic(s, x)
  <2>1. PICK z \in PivotCandidates(s, x, v > s.assignment[x]) :
          UnitAt(s, x, z) /\ t = Update(Pivot(s, z, x), x, v)
    BY <1>2 DEF FixBrokenReluVariable
  <2>2. z \in Var \ {x} /\ x \in Basic(s)
    BY <1>2 DEF PivotCandidates, NonBasic
  <2> QED BY <2>1, <2>2, PivotMoves
<1> QED BY <1>1, <1>2

\* What f should be is within its bounds if b is.
LEMMA ReluOfInBounds ==
  ASSUME NEW s \in States, NEW E, Consistent(s, E), NEW f \in F, s.dissolved[f] = Active,
         ~OutOfBounds(s, B[f])
  PROVE  ReluOf(s, f) \in Int /\ s.lower[f] <= ReluOf(s, f) /\ ReluOf(s, f) <= s.upper[f]
<1>1. f \in Var /\ B[f] \in Var
  BY PairFacts
<1>2. /\ s.lower[f] \in Int /\ s.upper[f] \in Int /\ s.lower[B[f]] \in Int /\ s.upper[B[f]] \in Int
      /\ s.assignment[B[f]] \in Int
  BY <1>1, StateFields
<1>3. PairOK(s, f) /\ s.lower[f] <= s.upper[f]
  BY <1>1 DEF Consistent
<1>4. s.lower[B[f]] <= s.assignment[B[f]] /\ s.assignment[B[f]] <= s.upper[B[f]]
  BY <1>2 DEF OutOfBounds, TooLow, TooHigh
<1> QED BY <1>2, <1>3, <1>4 DEF ReluOf, PairOK

-----------------------------------------------------------------------------
\* y has been moved to a bound, or no pivot was found for it.
EliminatedOK(s, E, y, t) ==
  LET new == IF NonBasic(t, y) /\ FixedAtZero(t, y) THEN E \cup {y} ELSE E
  IN  /\ FormOK(t, new) /\ Consistent(t, new)
      /\ t.dissolved = s.dissolved /\ Basic(s) \ {y} \subseteq Basic(t)
      /\ InBounds(s) => InBounds(t)

\* The elimination of an auxiliary variable erases a column that is zero for
\* good, and keeps everything else.
LEMMA EliminatedIsOK ==
  ASSUME NEW s, NEW E \in SUBSET Var, FormOK(s, E), Consistent(s, E), NEW y \in Basic(s),
         NEW t \in Eliminated(s, y)
  PROVE  EliminatedOK(s, E, y, t)
<1> DEFINE increase == TooLow(s, y)
           v == IF increase THEN s.lower[y] ELSE s.upper[y]
           candidates == PivotCandidates(s, y, increase)
<1>1. s \in States /\ y \in Var
  BY StateFields DEF FormOK
<1>2. s.lower[y] \in Int /\ s.upper[y] \in Int /\ s.lower[y] <= s.upper[y]
  BY <1>1, StateFields DEF Consistent
<1>3. v \in Int /\ s.lower[y] <= v /\ v <= s.upper[y] /\ (FixedAtZero(s, y) => v = 0)
  BY <1>2 DEF FixedAtZero
<1>4. CASE candidates = {}
  <2>1. t = s
    BY <1>4 DEF Eliminated
  <2> QED BY <2>1 DEF EliminatedOK, NonBasic
<1>5. CASE candidates # {}
  <2>1. PICK x \in candidates :
          /\ UnitAt(s, y, x)
          /\ t = LET m == Update(Pivot(s, x, y), y, v)
                 IN  IF FixedAtZero(s, y) THEN EraseColumn(m, y) ELSE m
    BY <1>5 DEF Eliminated
  <2> DEFINE m == Update(Pivot(s, x, y), y, v)
  <2>2. x \in Var \ {y}
    BY DEF PivotCandidates
  <2> HIDE DEF v
  <2>3. Moved(s, m, y, v, E) /\ Basic(m) = (Basic(s) \ {y}) \cup {x}
    BY <1>3, <2>1, <2>2, PivotMoves
  <2>4. t = IF FixedAtZero(s, y) THEN EraseColumn(m, y) ELSE m
    BY <2>1
  <2> HIDE DEF m
  <2>5. Consistent(m, E) /\ FormOK(m, E) /\ (InBounds(s) => InBounds(m))
    BY <1>1, <1>3, <2>3, MovedConsistent, MovedInBounds DEF Moved
  <2>6. FixedAtZero(m, y) <=> FixedAtZero(s, y)
    BY <2>3 DEF FixedAtZero, Moved
  <2>7. CASE ~FixedAtZero(s, y)
    BY <2>3, <2>4, <2>5, <2>6, <2>7 DEF EliminatedOK, Moved
  <2>8. CASE FixedAtZero(s, y)
    <3>1. NonBasic(m, y) /\ m.assignment[y] = 0 /\ t = EraseColumn(m, y) /\ m \in States
      BY <1>3, <2>3, <2>4, <2>8 DEF Moved, FormOK
    <3>2. /\ FormOK(t, E \cup {y})
          /\ t = [m EXCEPT !.tableau = t.tableau] /\ Basic(t) = Basic(m)
      BY <1>1, <2>5, <3>1, EraseForm
    <3>3. /\ t.assignment = m.assignment /\ t.lower = m.lower /\ t.upper = m.upper
          /\ t.dissolved = m.dissolved
      BY <3>1, <3>2 DEF States
    <3>4. NonBasic(t, y) /\ FixedAtZero(t, y)
      BY <2>6, <2>8, <3>1, <3>2, <3>3 DEF NonBasic, FixedAtZero
    <3>5. Consistent(t, E \cup {y})
      BY <2>5, <3>3, <3>4 DEF Consistent, PairOK, FixedAtZero
    <3>6. InBounds(m) => InBounds(t)
      BY <3>2, <3>3 DEF InBounds, NonBasic, OutOfBounds, TooLow, TooHigh
    <3> QED BY <2>3, <2>5, <3>2, <3>3, <3>4, <3>5, <3>6 DEF EliminatedOK, Moved
  <2> QED BY <2>7, <2>8
<1> QED BY <1>4, <1>5

-----------------------------------------------------------------------------
(*************************************************************************)
(* The adjustment of the basis, and the calculation of basic variables.  *)
(*************************************************************************)
Repairs(t, x) ==
  LET f == PairOf(x)
  IN  ActiveRelu(t, x) /\ Broken(t, f) /\ NonBasic(t, f) /\ NonBasic(t, B[f])

\* What the repair gives f is what f should be.
RepairsRight(s, x, y) ==
  LET t == Within(Pivot(s, x, y), y)
      f == PairOf(y)
  IN  Repairs(t, y) => (IF B[f] > 0 THEN t.assignment[B[f]] ELSE 0) = ReluOf(t, f)

AdjustedOK(s, t, E) ==
  /\ FormOK(t, E) /\ Consistent(t, E)
  /\ t.lower = s.lower /\ t.upper = s.upper /\ t.dissolved = s.dissolved

\* The adjustment of one variable of the basis: bounds are kept if the repair
\* is right.
LEMMA EnforcedOK ==
  ASSUME NEW s, NEW E \in SUBSET Aux, FormOK(s, E), Consistent(s, E), NEW y \in Basic(s),
         NEW x \in Var \ {y}, UnitAt(s, y, x)
  PROVE  /\ AdjustedOK(s, Enforced(Pivot(s, x, y), y), E)
         /\ InBounds(s) /\ RepairsRight(s, x, y) => InBounds(Enforced(Pivot(s, x, y), y))
<1> DEFINE p == Pivot(s, x, y)
           t == Within(p, y)
           f == PairOf(y)
           v == IF B[f] > 0 THEN t.assignment[B[f]] ELSE 0
           u == Update(t, f, v)
<1>1. E \in SUBSET Var
  BY SimplexAssumption
<1>2. FormOK(p, E) /\ Same(s, p) /\ Basic(p) = (Basic(s) \ {y}) \cup {x}
        /\ y \in Var /\ NonBasic(s, x) /\ NonBasic(p, y)
  BY <1>1, PivotForm
<1>3. Consistent(p, E)
  BY <1>2, SameConsistent
<1>4. y \notin E /\ p.lower[y] <= p.upper[y]
  BY <1>2, <1>3 DEF FormOK, GoneEmpty, Gone, NonBasic, Consistent
<1>5. RepairsRight(s, x, y) <=> (Repairs(t, y) => v = ReluOf(t, f))
  BY DEF RepairsRight
<1>6. Enforced(p, y) = IF Repairs(t, y) THEN u ELSE t
  BY DEF Enforced, Repairs
<1> HIDE DEF p
<1>7. /\ Reassigned(p, t, E) /\ ~OutOfBounds(t, y)
      /\ \A z \in Var \ {y} : NonBasic(p, z) => t.assignment[z] = p.assignment[z]
  BY <1>1, <1>2, <1>4, WithinForm
<1> HIDE DEF t
<1>8. Consistent(t, E) /\ t \in States /\ FormOK(t, E)
  BY <1>3, <1>7, ReassignedConsistent DEF Reassigned, FormOK
<1>9. ASSUME InBounds(s) PROVE InBounds(t)
  <2> SUFFICES ASSUME NEW z \in Var, NonBasic(t, z) PROVE ~OutOfBounds(t, z)
    BY DEF InBounds
  <2>1. CASE z = y
    BY <1>7, <2>1
  <2>2. CASE z # y
    <3>1. NonBasic(p, z) /\ NonBasic(s, z)
      BY <1>2, <1>7, <2>2 DEF Reassigned, NonBasic, Basic
    <3> QED BY <1>2, <1>7, <1>9, <2>2, <3>1
        DEF Reassigned, Same, InBounds, OutOfBounds, TooLow, TooHigh
  <2> QED BY <2>1, <2>2
<1>10. t.lower = s.lower /\ t.upper = s.upper /\ t.dissolved = s.dissolved
  BY <1>2, <1>7 DEF Same, Reassigned
<1>11. CASE ~Repairs(t, y)
  BY <1>6, <1>8, <1>9, <1>10, <1>11 DEF AdjustedOK, p
<1>12. CASE Repairs(t, y)
  <2>1. f \in F /\ t.dissolved[f] = Active /\ NonBasic(t, f) /\ NonBasic(t, B[f])
    BY <1>12, ReluVariable DEF Repairs, ActiveRelu
  <2> HIDE DEF f
  <2>2. f \in Var /\ B[f] \in Var /\ f \notin E
    BY <2>1, PairFacts
  <2>3. v \in Int
    BY <1>8, <2>2, StateFields
  <2> HIDE DEF v
  <2>4. Moved(t, u, f, v, E)
    BY <1>1, <1>8, <2>1, <2>2, <2>3, UpdateMoves
  <2> HIDE DEF u
  <2>5. Consistent(u, E)
    BY <1>8, <2>4, MovedConsistent
  <2>6. Enforced(p, y) = u
    BY <1>6, <1>12
  <2>7. ASSUME InBounds(s), RepairsRight(s, x, y) PROVE InBounds(u)
    <3>1. v = ReluOf(t, f) /\ InBounds(t)
      BY <1>5, <1>9, <1>12, <2>7
    <3>2. ~OutOfBounds(t, B[f])
      BY <2>1, <2>2, <3>1 DEF InBounds
    <3>3. t.lower[f] <= v /\ v <= t.upper[f]
      BY <1>8, <2>1, <3>1, <3>2, ReluOfInBounds
    <3> QED BY <1>8, <2>2, <2>3, <2>4, <3>1, <3>3, MovedInBounds
  <2>8. AdjustedOK(s, u, E)
    BY <1>10, <2>4, <2>5 DEF AdjustedOK, Moved
  <2> QED BY <2>6, <2>7, <2>8 DEF p
<1> QED BY <1>11, <1>12

-----------------------------------------------------------------------------
\* The values that calculateBasicAssignment() gives.
CalculatedValues(T, a) ==
  [x \in DOMAIN a |-> IF x \in DOMAIN T THEN Dot(T[x], a, DOMAIN a \ {x}) ELSE a[x]]

\* The calculation of the basic variables changes the assignment only.
LEMMA CalculatedIs ==
  ASSUME NEW s
  PROVE  Calculated(s) = [s EXCEPT !.assignment = CalculatedValues(s.tableau, s.assignment)]
BY DEF Calculated, CalculatedValues, Basic

CalculatedFrom(c, T, a, S) ==
  /\ c \in [S -> Int]
  /\ \A x \in S \ DOMAIN T : c[x] = a[x]
  /\ RowsZero(T, c, S)
  /\ RowsZero(T, a, S) => c = a

\* The calculated values satisfy the rows.
LEMMA CalculatedZero ==
  ASSUME NEW D, NEW T \in Tableaus(D), BasisForm(T), NEW S \in SUBSET D, IsFiniteSet(S),
         DOMAIN T \subseteq S, NEW a \in [S -> Int]
  PROVE  CalculatedFrom(CalculatedValues(T, a), T, a, S)
<1> DEFINE c == CalculatedValues(T, a)
<1>1. \A y \in DOMAIN T : y \in S /\ T[y] \in [D -> Int] /\ T[y][y] = -1
  BY TableauIn DEF BasisForm
<1>2. \A y \in DOMAIN T : IntOn(T[y], S) /\ IntOn(T[y], S \ {y})
  BY <1>1 DEF IntOn
<1>3. IntOn(a, S) /\ \A y : IntOn(a, S \ {y})
  BY DEF IntOn
<1>4. \A y : IsFiniteSet(S \ {y})
  BY FS_Subset
<1>5. \A y \in DOMAIN T : Dot(T[y], a, S \ {y}) \in Int
  BY <1>2, <1>3, <1>4, DotInt
<1>6. /\ c = [x \in S |-> IF x \in DOMAIN T THEN Dot(T[x], a, S \ {x}) ELSE a[x]]
  BY DEF CalculatedValues
<1>7. c \in [S -> Int] /\ \A x \in S \ DOMAIN T : c[x] = a[x]
  BY <1>5, <1>6
<1>8. \A y \in DOMAIN T : c[y] = Dot(T[y], a, S \ {y})
  BY <1>1, <1>6
<1> HIDE DEF c
<1>9. IntOn(c, S) /\ \A y : IntOn(c, S \ {y})
  BY <1>7 DEF IntOn
<1>10. ASSUME NEW y \in DOMAIN T PROVE Dot(T[y], c, S) = 0
  <2>1. \A z \in S \ {y} : T[y][z] * c[z] = T[y][z] * a[z]
    <3> TAKE z \in S \ {y}
    <3>1. T[y][z] \in Int /\ c[z] \in Int /\ a[z] \in Int
      BY <1>2, <1>3, <1>9 DEF IntOn
    <3>2. T[y][z] = 0 \/ c[z] = a[z]
      BY <1>7 DEF BasisForm
    <3> QED BY <3>1, <3>2
  <2>2. Dot(T[y], c, S \ {y}) = Dot(T[y], a, S \ {y})
    BY <1>2, <1>3, <1>4, <1>9, <2>1, DotEqual
  <2>3. Dot(T[y], c, S) = 0 <=> c[y] = Dot(T[y], c, S \ {y})
    BY <1>1, <1>2, <1>9, RowValue
  <2> QED BY <1>8, <2>2, <2>3
<1>11. ASSUME RowsZero(T, a, S) PROVE c = a
  <2>1. ASSUME NEW x \in S PROVE c[x] = a[x]
    <3>1. CASE x \in DOMAIN T
      <4>1. Dot(T[x], a, S) = 0
        BY <1>11, <3>1 DEF RowsZero
      <4>2. Dot(T[x], a, S) = 0 <=> a[x] = Dot(T[x], a, S \ {x})
        BY <1>1, <1>2, <1>3, <3>1, RowValue
      <4> QED BY <1>8, <3>1, <4>1, <4>2
    <3>2. CASE x \notin DOMAIN T
      BY <1>7, <3>2
    <3> QED BY <3>1, <3>2
  <2> QED BY <1>7, <2>1
<1> QED BY <1>7, <1>10, <1>11 DEF CalculatedFrom, RowsZero, c

-----------------------------------------------------------------------------
(*************************************************************************)
(* The pivots towards the basis of the LP solver.                        *)
(*************************************************************************)
\* The steps of AdjustedTo.
Entered(states, x, basics) ==
  UNION {IF Leaving(t, x, basics) = {} THEN {t}
         ELSE {Pivot(t, x, y) : y \in Leaving(t, x, basics)} : t \in states}

AdjustedVar == [i \in 1..NumVariables |-> i - 1]

IsAdjusting(g, s, basics) ==
  g = [T \in SUBSET DOMAIN AdjustedVar |->
         IF T = {} THEN {s} ELSE Entered(g[T \ {Max(T)}], AdjustedVar[Max(T)], basics)]

\* The fold over all variables as a recursion.
LEMMA AdjustedChosen ==
  ASSUME NEW s, NEW basics
  PROVE  AdjustedTo(s, basics) = (CHOOSE g : IsAdjusting(g, s, basics))[DOMAIN AdjustedVar]
BY DEF AdjustedTo, FoldLeft, MapThenFoldSet, IsAdjusting, Entered, AdjustedVar

Integral(S) == \A x \in S : x \in Int

\* A finite set of integers has its maximum.
LEMMA MaxIn ==
  ASSUME NEW S, IsFiniteSet(S), Integral(S), S # {}
  PROVE  Max(S) \in S
<1> DEFINE bad == {T \in SUBSET S : T # {} /\ ~\E m \in T : \A n \in T : m >= n}
<1>1. SUFFICES ASSUME bad # {} PROVE FALSE
  BY DEF Max
<1>2. PICK X \in bad : \A Y \in bad : Y \subseteq X => Y = X
  <2>1. bad \subseteq SUBSET S /\ bad # {}
    BY <1>1
  <2> HIDE DEF bad
  <2> QED BY <2>1, MinimalSubset
<1>3. PICK x \in X : TRUE
  OBVIOUS
<1>4. CASE X = {x}
  BY <1>3, <1>4 DEF Integral
<1>5. CASE X # {x}
  <2>1. X \ {x} \notin bad /\ X \ {x} # {}
    BY <1>2, <1>3, <1>5
  <2>2. PICK m \in X \ {x} : \A n \in X \ {x} : m >= n
    BY <2>1
  <2>3. m \in Int /\ x \in Int /\ \A n \in X : n \in Int
    BY <1>3 DEF Integral
  <2> QED BY <2>2, <2>3
<1> QED BY <1>4, <1>5

\* Pivots towards a basis change nothing but the tableau, and keep its solutions.
LEMMA AdjustedSame ==
  ASSUME NEW s \in States, BasisForm(s.tableau), NEW basics,
         NEW t \in AdjustedTo(s, basics)
  PROVE  Same(s, t)
<1> DEFINE D == DOMAIN AdjustedVar
           R == SUBSET {u \in States : Same(s, u)}
           step == [p \in D \X R |-> Entered(p[2], AdjustedVar[p[1]], basics)]
           c == [T \in SUBSET D |-> Max(T)]
<1>1. NumVariables \in Nat \ {0} /\ D = 1..NumVariables
  BY SimplexAssumption DEF AdjustedVar
<1>2. IsFiniteSet(D) /\ \A i \in D : AdjustedVar[i] \in Var
  <2>1. IsFiniteSet(1..NumVariables)
    BY <1>1, FS_Interval
  <2> QED BY <1>1, <2>1 DEF AdjustedVar, Var
<1>3. \A T \in SUBSET D : T # {} => c[T] \in T
  <2>1. \A T \in SUBSET D : Integral(T)
    BY <1>1 DEF Integral
  <2> HIDE DEF D
  <2>2. \A T \in SUBSET D : IsFiniteSet(T)
    BY <1>2, FS_Subset
  <2>3. \A T \in SUBSET D : T # {} => Max(T) \in T
    BY <2>1, <2>2, MaxIn
  <2> QED BY <2>3
<1> HIDE DEF D
<1>4. ASSUME NEW x \in Var, NEW U \in R PROVE Entered(U, x, basics) \in R
  <2> SUFFICES ASSUME NEW u \in U,
                      NEW w \in IF Leaving(u, x, basics) = {} THEN {u}
                                ELSE {Pivot(u, x, y) : y \in Leaving(u, x, basics)}
               PROVE  w \in States /\ Same(s, w)
    BY DEF Entered
  <2>1. u \in States /\ Same(s, u) /\ BasisForm(u.tableau)
    BY DEF Same
  <2>2. CASE Leaving(u, x, basics) = {}
    BY <2>1, <2>2
  <2>3. CASE Leaving(u, x, basics) # {}
    <3>1. PICK y \in Leaving(u, x, basics) : w = Pivot(u, x, y)
      BY <2>3
    <3>2. y \in Basic(u) /\ x \notin Basic(u) /\ UnitAt(u, y, x)
      BY <3>1 DEF Leaving
    <3>3. Same(u, w)
      BY <2>1, <3>1, <3>2, PivotSame
    <3>4. Same(s, w)
      BY <2>1, <3>3, SameTrans
    <3> QED BY <3>4 DEF Same
  <2> QED BY <2>2, <2>3
<1>5. {s} \in R
  BY SameRefl
<1>6. \A i \in D, U \in R : step[<<i, U>>] = Entered(U, AdjustedVar[i], basics)
                              /\ step[<<i, U>>] \in R
  BY <1>2, <1>4
<1>7. \A T \in SUBSET D : c[T] = Max(T)
  OBVIOUS
<1> HIDE DEF c, step, R
<1>8. PICK g : IsFold(g, D, c, {s}, step)
  BY <1>2, <1>3, FoldExists
<1>9. \A T \in SUBSET D : g[T] = IF T = {} THEN {s} ELSE step[<<c[T], g[T \ {c[T]}]>>]
  BY <1>8, FoldAt
<1>10. \A T \in SUBSET D : g[T] \in R
  <2> DEFINE bad == {T \in SUBSET D : g[T] \notin R}
  <2> SUFFICES ASSUME bad # {} PROVE FALSE
    OBVIOUS
  <2>1. PICK X \in bad : \A Y \in bad : Y \subseteq X => Y = X
    <3>1. bad \subseteq SUBSET D OBVIOUS
    <3> HIDE DEF bad
    <3> QED BY <1>2, <3>1, MinimalSubset
  <2>2. X # {} => c[X] \in X /\ g[X \ {c[X]}] \in R
    BY <2>1, <1>3
  <2>3. X # {} => step[<<c[X], g[X \ {c[X]}]>>] \in R
    BY <1>6, <2>2
  <2> QED BY <1>5, <1>9, <2>3
<1>11. \A T \in SUBSET D : g[T] = IF T = {} THEN {s}
                           ELSE Entered(g[T \ {Max(T)}], AdjustedVar[Max(T)], basics)
  <2> SUFFICES ASSUME NEW T \in SUBSET D, T # {}
               PROVE g[T] = Entered(g[T \ {Max(T)}], AdjustedVar[Max(T)], basics)
    BY <1>9
  <2>1. c[T] = Max(T) /\ c[T] \in D /\ g[T \ {c[T]}] \in R
    BY <1>3, <1>7, <1>10
  <2> QED BY <1>6, <1>9, <2>1
<1>12. IsAdjusting(g, s, basics)
  <2>1. g = [T \in SUBSET D |-> g[T]]
    BY <1>8 DEF IsFold
  <2> QED BY <1>11, <2>1 DEF IsAdjusting, D
<1> DEFINE h == CHOOSE k : IsAdjusting(k, s, basics)
<1>13. IsAdjusting(h, s, basics)
  BY <1>12
<1> HIDE DEF h
<1>14. \A T \in SUBSET D : h[T] = IF T = {} THEN {s}
                           ELSE Entered(h[T \ {Max(T)}], AdjustedVar[Max(T)], basics)
  BY <1>13 DEF IsAdjusting, D
<1>15. \A T \in SUBSET D : h[T] = g[T]
  <2> DEFINE bad == {T \in SUBSET D : h[T] # g[T]}
  <2> SUFFICES ASSUME bad # {} PROVE FALSE
    OBVIOUS
  <2>1. PICK X \in bad : \A Y \in bad : Y \subseteq X => Y = X
    <3>1. bad \subseteq SUBSET D OBVIOUS
    <3> HIDE DEF bad
    <3> QED BY <1>2, <3>1, MinimalSubset
  <2>2. X # {} => Max(X) \in X /\ h[X \ {Max(X)}] = g[X \ {Max(X)}]
    BY <1>3, <1>7, <2>1
  <2> QED BY <1>11, <1>14, <2>2
<1>16. AdjustedTo(s, basics) = h[D]
  BY AdjustedChosen DEF h, D
<1>17. h[D] \in R
  BY <1>10, <1>15
<1> QED BY <1>16, <1>17 DEF R

-----------------------------------------------------------------------------
(*************************************************************************)
(* The table of the LP.                                                  *)
(*************************************************************************)
\* The variables of the LP.
LpVars(s, slacks) == LpColumns(s) \cup Basic(s) \cup {Slack(f) : f \in slacks}
Columns(s) == LpColumns(s) \cup Basic(s)

\* Slack variables are no variables of the tableau, and one per pair.
LEMMA SlackFacts ==
  ASSUME NEW f \in F
  PROVE  /\ Slack(f) \notin Var /\ Slack(f) \in LpVar /\ Slack(f) - NumVariables = f
         /\ \A g \in F : Slack(g) = Slack(f) => g = f
<1>1. NumVariables \in Nat \ {0} /\ \A g \in F : g \in 0..NumVariables - 1
  BY SimplexAssumption DEF Var
<1> QED BY <1>1 DEF Slack, LpVar, Var

\* The variables of the LP.
LEMMA LpVarsFacts ==
  ASSUME NEW s \in States, NEW slacks \in SUBSET F
  PROVE  /\ Columns(s) \in SUBSET Var /\ IsFiniteSet(Columns(s))
         /\ LpVars(s, slacks) \in SUBSET LpVar /\ IsFiniteSet(LpVars(s, slacks))
         /\ \A x \in LpVars(s, slacks) : x \in Var <=> x \in Columns(s)
         /\ LpVars(s, slacks) = Columns(s) \cup {Slack(f) : f \in slacks}
<1>1. Columns(s) \in SUBSET Var
  BY StateFields DEF Columns, LpColumns
<1>2. IsFiniteSet(Columns(s))
  BY <1>1, VarFinite, FS_Subset
<1>3. IsFiniteSet({Slack(f) : f \in slacks})
  <2>1. IsFiniteSet(slacks)
    <3>1. F \subseteq Var
      BY SimplexAssumption
    <3>2. slacks \subseteq Var
      BY <3>1
    <3> QED BY <3>2, VarFinite, FS_Subset
  <2> DEFINE h == [f \in slacks |-> Slack(f)]
  <2>2. h \in Surjection(slacks, {Slack(f) : f \in slacks})
    BY DEF Surjection
  <2> QED BY <2>1, <2>2, FS_Surjection
<1>4. LpVars(s, slacks) = Columns(s) \cup {Slack(f) : f \in slacks}
  BY DEF LpVars, Columns
<1>5. IsFiniteSet(LpVars(s, slacks))
  BY <1>2, <1>3, <1>4, FS_Union
<1>6. LpVars(s, slacks) \in SUBSET LpVar
  BY <1>1, <1>4, SlackFacts DEF LpVar
<1> QED BY <1>1, <1>2, <1>4, <1>5, <1>6, SlackFacts

\* Any solution of the rows of T satisfies those of s.
Entails(T, s, slacks) ==
  \A a \in [LpVars(s, slacks) -> Int] :
    RowsZero(T, a, LpVars(s, slacks)) =>
      \A y \in Basic(s) : Dot(s.tableau[y], a, Columns(s)) = 0

LpTableOK(T, s, slacks) ==
  /\ T \in Tableaus(LpVar) /\ BasisForm(T)
  /\ DOMAIN T \subseteq LpVars(s, slacks)
  /\ Entails(T, s, slacks)

\* The LP that is stated has a table in basis form, whose rows give those of
\* the tableau.
LEMMA LpTableIsOK ==
  ASSUME NEW s \in States, BasisForm(s.tableau), NEW slacks \in SUBSET F
  PROVE  LpTableOK(LpTable(s, slacks), s, slacks)
<1> DEFINE T == LpTable(s, slacks)
           V == LpVars(s, slacks)
           W == Columns(s)
<1>1. \A y \in Basic(s) : y \in Var /\ s.tableau[y] \in [Var -> Int]
  BY StateFields
<1>2. ASSUME NEW x
      PROVE  /\ InColumns(s, x) \in [LpVar -> Int]
             /\ \A z \in Basic(s) : InColumns(s, x)[z] = 0
             /\ \A z \in LpVar \ Var : x \in Var => InColumns(s, x)[z] = 0
             /\ x \in Basic(s) => \A z \in Var \ {x} : InColumns(s, x)[z] = s.tableau[x][z]
  <2>1. CASE NonBasic(s, x)
    <3>1. InColumns(s, x) = [z \in LpVar |-> IF z = x THEN 1 ELSE 0]
      BY <2>1 DEF InColumns
    <3> QED BY <1>1, <2>1, <3>1 DEF NonBasic, LpVar
  <2>2. CASE ~NonBasic(s, x)
    <3>1. InColumns(s, x) = [z \in LpVar |-> IF z \in Var \ {x} THEN s.tableau[x][z] ELSE 0]
      BY <2>2 DEF InColumns
    <3>2. x \in Basic(s)
      BY <2>2 DEF NonBasic
    <3>3. \A z \in Basic(s) \ {x} : s.tableau[x][z] = 0
      BY <3>2 DEF BasisForm, Basic
    <3> QED BY <1>1, <3>1, <3>2, <3>3 DEF LpVar
  <2> QED BY <2>1, <2>2
<1>3. ASSUME NEW r \in [LpVar -> Int], NEW x \in LpVar
      PROVE  /\ Solved(r, x) \in [LpVar -> Int]
             /\ Solved(r, x)[x] = r[x] - 1
             /\ \A z \in LpVar \ {x} : Solved(r, x)[z] = r[z]
  <2>1. Unit(x) \in [LpVar -> Int] /\ Unit(x)[x] = 1 /\ \A z \in LpVar \ {x} : Unit(x)[z] = 0
    BY DEF Unit
  <2> QED BY <2>1 DEF Solved, Sum
<1>4. /\ DOMAIN T = Basic(s) \cup {Slack(f) : f \in slacks}
      /\ \A y \in Basic(s) : T[y] = Solved(InColumns(s, y), y)
      /\ \A f \in slacks : T[Slack(f)] = SlackRow(s, f)
  <2>1. T = [y \in Basic(s) \cup {Slack(f) : f \in slacks} |->
               IF y \in Var THEN Solved(InColumns(s, y), y) ELSE SlackRow(s, y - NumVariables)]
    BY DEF LpTable
  <2>2. \A f \in slacks : Slack(f) \notin Var /\ Slack(f) - NumVariables = f
    BY SlackFacts
  <2> HIDE DEF T
  <2> QED BY <1>1, <2>1, <2>2
<1> HIDE DEF T
<1>5. ASSUME NEW y \in Basic(s)
      PROVE  /\ T[y] \in [LpVar -> Int]
             /\ \A z \in Var : T[y][z] = s.tableau[y][z]
             /\ \A z \in LpVar \ Var : T[y][z] = 0
  <2>1. y \in Var /\ y \in LpVar /\ s.tableau[y][y] = -1
    BY <1>1 DEF LpVar, BasisForm, Basic
  <2>2. /\ InColumns(s, y) \in [LpVar -> Int] /\ InColumns(s, y)[y] = 0
        /\ \A z \in LpVar \ Var : InColumns(s, y)[z] = 0
        /\ \A z \in Var \ {y} : InColumns(s, y)[z] = s.tableau[y][z]
    BY <1>2, <2>1
  <2>3. /\ T[y] \in [LpVar -> Int] /\ T[y][y] = InColumns(s, y)[y] - 1
        /\ \A z \in LpVar \ {y} : T[y][z] = InColumns(s, y)[z]
    BY <1>3, <1>4, <2>1, <2>2
  <2>4. T[y][y] = -1
    BY <2>2, <2>3
  <2>5. Var \subseteq LpVar
    BY DEF LpVar
  <2> QED BY <2>1, <2>2, <2>3, <2>4, <2>5
<1>6. ASSUME NEW f \in slacks
      PROVE  /\ T[Slack(f)] \in [LpVar -> Int]
             /\ T[Slack(f)][Slack(f)] = -1
             /\ \A z \in Basic(s) : T[Slack(f)][z] = 0
             /\ \A g \in slacks \ {f} : T[Slack(f)][Slack(g)] = 0
  <2> DEFINE r == Sum(InColumns(s, f), InColumns(s, B[f]), -1)
  <2>1. f \in Var /\ B[f] \in Var
    BY PairFacts
  <2>2. Slack(f) \notin Var /\ Slack(f) \in LpVar
    BY SlackFacts
  <2>3. /\ InColumns(s, f) \in [LpVar -> Int]
        /\ \A z \in Basic(s) : InColumns(s, f)[z] = 0
        /\ \A z \in LpVar \ Var : InColumns(s, f)[z] = 0
    BY <1>2, <2>1
  <2>4. /\ InColumns(s, B[f]) \in [LpVar -> Int]
        /\ \A z \in Basic(s) : InColumns(s, B[f])[z] = 0
        /\ \A z \in LpVar \ Var : InColumns(s, B[f])[z] = 0
    BY <1>2, <2>1
  <2>5. Basic(s) \subseteq LpVar
    BY <1>1 DEF LpVar
  <2>6. /\ r \in [LpVar -> Int]
        /\ \A z \in LpVar : r[z] = InColumns(s, f)[z] + (-1) * InColumns(s, B[f])[z]
    BY <2>3, <2>4 DEF Sum
  <2> HIDE DEF r
  <2>7. /\ \A z \in Basic(s) : r[z] = 0
        /\ \A z \in LpVar \ Var : r[z] = 0
    BY <2>3, <2>4, <2>5, <2>6
  <2>8. T[Slack(f)] = Solved(r, Slack(f))
    BY <1>4 DEF SlackRow, r
  <2>9. /\ T[Slack(f)] \in [LpVar -> Int] /\ T[Slack(f)][Slack(f)] = r[Slack(f)] - 1
        /\ \A z \in LpVar \ {Slack(f)} : T[Slack(f)][z] = r[z]
    BY <1>3, <2>2, <2>6, <2>8
  <2>10. T[Slack(f)][Slack(f)] = -1
    BY <2>2, <2>7, <2>9
  <2>11. \A g \in slacks \ {f} : Slack(g) \in LpVar \ Var /\ Slack(g) # Slack(f)
    BY SlackFacts
  <2>12. \A z \in Basic(s) : z \in LpVar \ {Slack(f)}
    BY <1>1, <2>2, <2>5
  <2> QED BY <2>7, <2>9, <2>10, <2>11, <2>12
<1>7. \A f \in slacks : Slack(f) \in LpVar \ Var
  BY SlackFacts
<1>8. Var \subseteq LpVar /\ Basic(s) \subseteq LpVar
  BY <1>1 DEF LpVar
<1>9. T \in Tableaus(LpVar)
  <2>1. \A y \in DOMAIN T : y \in LpVar /\ T[y] \in [LpVar -> Int]
    BY <1>4, <1>5, <1>6, <1>7, <1>8
  <2>2. T \in [DOMAIN T -> [LpVar -> Int]]
    <3>1. T = [y \in DOMAIN T |-> T[y]]
      BY DEF T, LpTable
    <3> QED BY <2>1, <3>1
  <2> QED BY <2>1, <2>2, TableauIn
<1>10. BasisForm(T)
  <2> SUFFICES ASSUME NEW y \in DOMAIN T, NEW z \in DOMAIN T
               PROVE T[z][y] = IF z = y THEN -1 ELSE 0
    BY DEF BasisForm
  <2>1. CASE z \in Basic(s) /\ y \in Basic(s)
    BY <1>1, <1>5, <2>1 DEF BasisForm, Basic
  <2>2. CASE z \in Basic(s) /\ y \notin Basic(s)
    <3>1. y \in LpVar \ Var
      BY <1>4, <1>7, <2>2
    <3> QED BY <1>5, <2>2, <3>1
  <2>3. CASE z \notin Basic(s) /\ y \in Basic(s)
    <3>1. PICK f \in slacks : z = Slack(f)
      BY <1>4, <2>3
    <3> QED BY <1>6, <2>3, <3>1
  <2>4. CASE z \notin Basic(s) /\ y \notin Basic(s)
    <3>1. PICK f \in slacks : z = Slack(f)
      BY <1>4, <2>4
    <3>2. PICK g \in slacks : y = Slack(g)
      BY <1>4, <2>4
    <3>3. CASE f = g
      BY <1>6, <3>1, <3>2, <3>3
    <3>4. CASE f # g
      BY <1>6, <3>1, <3>2, <3>4, SlackFacts
    <3> QED BY <3>3, <3>4
  <2> QED BY <2>1, <2>2, <2>3, <2>4
<1>11. DOMAIN T \subseteq V
  BY <1>4 DEF LpVars
<1>12. ASSUME NEW a \in [V -> Int], RowsZero(T, a, V), NEW y \in Basic(s)
       PROVE  Dot(s.tableau[y], a, W) = 0
  <2>1. /\ W \in SUBSET Var /\ IsFiniteSet(W) /\ V \in SUBSET LpVar /\ IsFiniteSet(V)
        /\ \A x \in V : x \in Var <=> x \in W
        /\ W \in SUBSET V
    BY LpVarsFacts
  <2> HIDE DEF V, W
  <2>2. IntOn(a, V) /\ IntOn(a, W) /\ IntOn(T[y], V) /\ IntOn(T[y], W) /\ IntOn(s.tableau[y], W)
    BY <1>1, <1>5, <2>1 DEF IntOn
  <2>3. \A x \in V \ W : T[y][x] * a[x] = 0
    <3> TAKE x \in V \ W
    <3>1. T[y][x] = 0 /\ a[x] \in Int
      BY <1>5, <2>1
    <3> QED BY <3>1
  <2>4. Dot(T[y], a, V) = Dot(T[y], a, W)
    BY <2>1, <2>2, <2>3, DotSupport
  <2>5. \A x \in W : s.tableau[y][x] * a[x] = T[y][x] * a[x]
    BY <1>5, <2>1
  <2>6. Dot(s.tableau[y], a, W) = Dot(T[y], a, W)
    BY <2>1, <2>2, <2>5, DotEqual
  <2>7. Dot(T[y], a, V) = 0
    BY <1>4, <1>12 DEF RowsZero
  <2> QED BY <2>4, <2>6, <2>7
<1> QED BY <1>9, <1>10, <1>11, <1>12 DEF LpTableOK, Entails, T

\* A pivot of the solver.
LEMMA LpPivotOK ==
  ASSUME NEW s \in States, NEW slacks \in SUBSET F, NEW T, LpTableOK(T, s, slacks),
         NEW y \in DOMAIN T, NEW x \in LpVars(s, slacks) \ {y}, T[y][x] \in {-1, 1}
  PROVE  LpTableOK(Pivoted(T, x, y), s, slacks)
<1> DEFINE V == LpVars(s, slacks)
           P == Pivoted(T, x, y)
<1>1. T \in Tableaus(LpVar) /\ BasisForm(T) /\ DOMAIN T \subseteq V
  BY DEF LpTableOK
<1>2. V \in SUBSET LpVar /\ IsFiniteSet(V) /\ x \in LpVar \ {y}
  BY LpVarsFacts
<1>3. PICK k \in {-1, 1} : T[y][x] = k
  OBVIOUS
<1>4. x \notin DOMAIN T /\ BasisForm(P)
  BY <1>1, <1>2, <1>3, PivotedForm
<1>5. EntriesPivoted(P, LpVar, T, x, y, k)
  BY <1>1, <1>2, <1>3, <1>4, PivotedEntries
<1>6. P \in Tableaus(LpVar) /\ DOMAIN P = (DOMAIN T \ {y}) \cup {x}
  BY <1>5 DEF EntriesPivoted
<1> HIDE DEF V
<1>7. \A a \in [V -> Int] : RowsZero(P, a, V) <=> RowsZero(T, a, V)
  <2> TAKE a \in [V -> Int]
  <2>1. IntOn(a, V)
    BY DEF IntOn
  <2> QED BY <1>1, <1>2, <1>3, <2>1, PivotedZero
<1> HIDE DEF P
<1>8. Entails(P, s, slacks)
  BY <1>7 DEF Entails, LpTableOK, V
<1>9. DOMAIN P \subseteq V
  BY <1>1, <1>6 DEF V
<1> QED BY <1>4, <1>6, <1>8, <1>9 DEF LpTableOK, P, V

-----------------------------------------------------------------------------
(*************************************************************************)
(* The solutions of the LP.                                              *)
(*************************************************************************)
\* A variable without a column occurs in no row.
LEMMA OutsideColumns ==
  ASSUME NEW s, FormOK(s, eliminated), NEW x \in Var, x \notin Columns(s)
  PROVE  NonBasic(s, x) /\ (\A y \in Basic(s) : s.tableau[y][x] = 0)
BY DEF Columns, LpColumns, FormOK, GoneEmpty, Gone, NonBasic, ColumnEmpty

\* What is known of a solution that the solver ends with.
SolvesLp(a) ==
  /\ a \in [LpVars(st, lp.slacks) -> Int]
  /\ RowsZero(lp.tableau, a, LpVars(st, lp.slacks))
  /\ \A x \in Columns(st) : st.lower[x] <= a[x] /\ a[x] <= st.upper[x]

\* A solution of the LP satisfies its rows and the bounds.
LEMMA LpSolutionSolves ==
  ASSUME st \in States, lp.slacks \in SUBSET F, LpTableOK(lp.tableau, st, lp.slacks),
         NEW a \in LpSolutions
  PROVE  SolvesLp(a)
<1> DEFINE V == LpVars(st, lp.slacks)
           value(high) == [z \in V |-> IF z \in high THEN LpUpper(z) ELSE LpLower(z)]
<1>1. /\ V \in SUBSET LpVar /\ IsFiniteSet(V)
      /\ Columns(st) \in SUBSET Var /\ V = Columns(st) \cup {Slack(f) : f \in lp.slacks}
      /\ \A x \in V : x \in Var <=> x \in Columns(st)
  BY LpVarsFacts
<1>2. LpVariables = V
  BY DEF LpVariables, LpVars
<1>3. PICK high : /\ a = Calculated([tableau |-> lp.tableau, assignment |-> value(high)]).assignment
                  /\ \A z \in V : a[z] \in LpLower(z)..LpUpper(z)
  <2> HIDE DEF V
  <2> QED BY <1>2 DEF LpSolutions
<1>4. \A z \in V : LpLower(z) \in Int /\ LpUpper(z) \in Int
  <2> TAKE z \in V
  <2>0. st.lower \in [Var -> Int] /\ st.upper \in [Var -> Int]
    BY StateFields
  <2>1. CASE z \in Var
    BY <2>0, <2>1 DEF LpLower, LpUpper
  <2>2. CASE z \notin Var
    <3>1. PICK f \in lp.slacks : z = Slack(f)
      BY <1>1, <2>2
    <3>2. z - NumVariables = f /\ f \in Var /\ B[f] \in Var
      BY <3>1, SlackFacts, PairFacts
    <3>3. LpUpper(z) = st.upper[f] - st.lower[B[f]] /\ LpLower(z) = 0
      BY <2>2, <3>2 DEF LpLower, LpUpper
    <3>4. st.upper[f] \in Int /\ st.lower[B[f]] \in Int
      BY <2>0, <3>2
    <3> QED BY <3>3, <3>4
  <2> QED BY <2>1, <2>2
<1> HIDE DEF V
<1>5. value(high) \in [V -> Int]
  BY <1>4
<1>6. a = CalculatedValues(lp.tableau, value(high))
  <2> HIDE DEF value
  <2> QED BY <1>3, CalculatedIs
<1> HIDE DEF value
<1>7. CalculatedFrom(a, lp.tableau, value(high), V)
  <2>1. lp.tableau \in Tableaus(LpVar) /\ BasisForm(lp.tableau) /\ DOMAIN lp.tableau \subseteq V
    BY DEF LpTableOK, V
  <2> QED BY <1>1, <1>5, <1>6, <2>1, CalculatedZero
<1>8. \A x \in Columns(st) : x \in V /\ x \in Var /\ LpLower(x) = st.lower[x] /\ LpUpper(x) = st.upper[x]
  BY <1>1 DEF LpLower, LpUpper
<1>9. \A x \in Columns(st) : st.lower[x] <= a[x] /\ a[x] <= st.upper[x]
  BY <1>3, <1>4, <1>8
<1> QED BY <1>7, <1>9 DEF CalculatedFrom, SolvesLp, V

\* The solution, taken over by whatever basis was reached.
ExtractedOK(t) ==
  /\ FormOK(t, eliminated)
  /\ t.lower = st.lower /\ t.upper = st.upper /\ t.dissolved = st.dissolved
  /\ AllVarsWithinBounds(t)
  /\ InBounds(st) => InBounds(t)

\* A solution that is taken over satisfies the rows and the bounds of all
\* variables, wherever the pivots towards its basis have ended.
LEMMA ExtractedIsOK ==
  ASSUME eliminated \in SUBSET Var, FormOK(st, eliminated),
         lp.slacks \in SUBSET F, LpTableOK(lp.tableau, st, lp.slacks),
         NEW a, SolvesLp(a), NEW u \in Extracted(a)
  PROVE  ExtractedOK(u)
<1> DEFINE V == LpVars(st, lp.slacks)
           W == Columns(st)
           c == [x \in Var |-> IF x \in W THEN a[x] ELSE st.assignment[x]]
<1>1. st \in States /\ BasisForm(st.tableau)
  BY DEF FormOK
<1>2. /\ W \in SUBSET Var /\ IsFiniteSet(W) /\ V = W \cup {Slack(f) : f \in lp.slacks}
      /\ \A x \in V : x \in Var <=> x \in W
  BY <1>1, LpVarsFacts
<1>3. LpVariables = V
  BY DEF LpVariables, LpVars
<1>4. PICK t \in AdjustedTo(st, Basic(lp) \cap Var) :
        u = Calculated([t EXCEPT !.assignment =
              [x \in Var |-> IF x \in LpVariables THEN a[x] ELSE t.assignment[x]]])
  BY DEF Extracted
<1>5. Same(st, t)
  BY <1>1, AdjustedSame
<1>6. \A y \in Basic(st) : y \in W /\ st.tableau[y] \in [Var -> Int]
  BY <1>1, StateFields DEF Columns
<1>7. st.assignment \in [Var -> Int]
  BY <1>1, StateFields
<1>8. a \in [V -> Int] /\ RowsZero(lp.tableau, a, V)
        /\ \A x \in W : st.lower[x] <= a[x] /\ a[x] <= st.upper[x]
  BY DEF SolvesLp
<1>9. \A y \in Basic(st) : Dot(st.tableau[y], a, W) = 0
  BY <1>8 DEF LpTableOK, Entails
<1>10. \A x \in Var : x \in LpVariables <=> x \in W
  BY <1>2, <1>3
<1>11. \A x \in Var \ W : NonBasic(st, x) /\ \A y \in Basic(st) : st.tableau[y][x] = 0
  BY OutsideColumns
<1>12. \A y \in eliminated : y \notin W
  BY DEF Columns, LpColumns, FormOK, GoneEmpty, Gone, NonBasic
<1> HIDE DEF V, W
<1>13. c \in [Var -> Int] /\ (\A x \in W : c[x] = a[x]) /\ \A x \in Var \ W : c[x] = st.assignment[x]
  BY <1>2, <1>7, <1>8
<1>14. u = Calculated([t EXCEPT !.assignment = c])
  BY <1>4, <1>5, <1>10 DEF Same
<1> HIDE DEF c
<1>15. RowsZero(st.tableau, c, Var)
  <2> SUFFICES ASSUME NEW y \in Basic(st) PROVE Dot(st.tableau[y], c, Var) = 0
    BY DEF RowsZero, Basic
  <2>1. IntOn(st.tableau[y], Var) /\ IntOn(c, Var) /\ IntOn(st.tableau[y], W) /\ IntOn(c, W) /\ IntOn(a, W)
    BY <1>2, <1>6, <1>8, <1>13 DEF IntOn
  <2>2. \A x \in Var \ W : st.tableau[y][x] * c[x] = 0
    <3> TAKE x \in Var \ W
    <3>1. st.tableau[y][x] = 0 /\ c[x] \in Int
      BY <1>11, <1>13
    <3> QED BY <3>1
  <2>3. IsFiniteSet(Var)
    BY VarFinite
  <2>4. Dot(st.tableau[y], c, Var) = Dot(st.tableau[y], c, W)
    BY <1>2, <2>1, <2>2, <2>3, DotSupport
  <2>5. \A x \in W : st.tableau[y][x] * c[x] = st.tableau[y][x] * a[x]
    BY <1>13
  <2>6. Dot(st.tableau[y], c, W) = Dot(st.tableau[y], a, W)
    BY <1>2, <2>1, <2>5, DotEqual
  <2> QED BY <1>9, <2>4, <2>6
<1>16. RowsZero(t.tableau, c, Var)
  BY <1>5, <1>13, <1>15 DEF Same
<1>17. t \in States /\ t.tableau \in Tableaus(Var) /\ BasisForm(t.tableau) /\ DOMAIN t.tableau \subseteq Var
  BY <1>5, StateFields DEF Same, Basic
<1> DEFINE w == [t EXCEPT !.assignment = c]
<1>18. /\ w \in States /\ w.tableau = t.tableau /\ w.assignment = c
       /\ w.lower = t.lower /\ w.upper = t.upper /\ w.dissolved = t.dissolved
  BY <1>13, <1>17 DEF States
<1> HIDE DEF w
<1>19. CalculatedValues(t.tableau, c) = c
  <2>1. IsFiniteSet(Var) /\ Var \in SUBSET Var
    BY VarFinite
  <2>2. CalculatedFrom(CalculatedValues(t.tableau, c), t.tableau, c, Var)
    BY <1>13, <1>17, <2>1, CalculatedZero
  <2> QED BY <1>16, <2>2 DEF CalculatedFrom
<1>20. u = w
  <2>1. u = [w EXCEPT !.assignment = c]
    BY <1>14, <1>18, <1>19, CalculatedIs DEF w
  <2> QED BY <1>18, <2>1 DEF States
<1>21. FormOK(t, eliminated)
  BY <1>5, SameForm
<1>22. (\A z : MergedB(w, z) <=> MergedB(t, z)) /\ (\A b : Reading(w, b) = Reading(t, b))
  BY <1>18, MergedOf
<1>23. FormOK(w, eliminated)
  <2>1. RowsEntail(w, eliminated)
    BY <1>18, <1>21, <1>22 DEF RowsEntail, FormOK
  <2>2. GoneEmpty(w, eliminated)
    BY <1>18, <1>21, <1>22 DEF GoneEmpty, Gone, FormOK, NonBasic, ColumnEmpty, Basic
  <2>3. \A y \in eliminated : w.assignment[y] = 0
    BY <1>12, <1>13, <1>18 DEF FormOK
  <2> QED BY <1>16, <1>17, <1>18, <2>1, <2>2, <2>3 DEF FormOK
<1>24. w.lower = st.lower /\ w.upper = st.upper /\ w.dissolved = st.dissolved
  BY <1>5, <1>18 DEF Same
<1>25. \A x \in W : ~OutOfBounds(w, x)
  <2> TAKE x \in W
  <2>1. st.lower[x] \in Int /\ st.upper[x] \in Int /\ a[x] \in Int /\ x \in Var
    BY <1>1, <1>2, <1>8, StateFields
  <2> QED BY <1>8, <1>13, <1>18, <1>24, <2>1 DEF OutOfBounds, TooLow, TooHigh
<1>26. \A x \in Var \ W : NonBasic(w, x) /\ (OutOfBounds(w, x) <=> OutOfBounds(st, x))
  <2> TAKE x \in Var \ W
  <2>1. NonBasic(t, x)
    BY <1>5, <1>11 DEF Same, ColumnEmpty
  <2> QED BY <1>13, <1>18, <1>24, <2>1 DEF NonBasic, Basic, OutOfBounds, TooLow, TooHigh
<1>27. AllVarsWithinBounds(w)
  <2>1. Basic(w) \subseteq Var
    BY <1>18, StateFields
  <2> QED BY <1>25, <1>26, <2>1 DEF AllVarsWithinBounds, NonBasic
<1>28. InBounds(st) => InBounds(w)
  BY <1>11, <1>25, <1>26 DEF InBounds
<1> QED BY <1>20, <1>23, <1>24, <1>27, <1>28 DEF ExtractedOK

-----------------------------------------------------------------------------
(*************************************************************************)
(* Refutations.                                                          *)
(*************************************************************************)
\* An assignment within the bounds that satisfies the rows.
FeasibleOK(s, t) ==
  /\ t.assignment \in [Var -> Int]
  /\ RowsZero(s.tableau, t.assignment, Var)
  /\ \A x \in Columns(s) : s.lower[x] <= t.assignment[x] /\ t.assignment[x] <= s.upper[x]

\* What RefutationsRight calls feasible.
LEMMA FeasibleIsOK ==
  ASSUME NEW s, FormOK(s, eliminated), Consistent(s, eliminated), NEW t \in Feasible(s)
  PROVE  FeasibleOK(s, t)
<1> DEFINE free  == {x \in LpColumns(s) : s.lower[x] < s.upper[x]}
           range == UNION {s.lower[x]..s.upper[x] : x \in free}
           boxes == {a \in [free -> range] : \A x \in free : a[x] \in s.lower[x]..s.upper[x]}
           value(a) == [x \in Var |-> IF x \in free THEN a[x]
                          ELSE IF x \in LpColumns(s) THEN s.lower[x] ELSE s.assignment[x]]
<1>1. s \in States /\ BasisForm(s.tableau)
  BY DEF FormOK
<1>2. PICK a \in boxes : t = Calculated([s EXCEPT !.assignment = value(a)])
  BY DEF Feasible
<1>3. AllVarsWithinBounds(t)
  BY DEF Feasible
<1>4. /\ s.lower \in [Var -> Int] /\ s.upper \in [Var -> Int] /\ s.assignment \in [Var -> Int]
      /\ s.tableau \in Tableaus(Var) /\ Basic(s) \subseteq Var
  BY <1>1, StateFields
<1>5. LpColumns(s) \subseteq Var /\ \A x \in LpColumns(s) : NonBasic(s, x)
  BY DEF LpColumns
<1>6. \A x \in free : a[x] \in Int /\ s.lower[x] <= a[x] /\ a[x] <= s.upper[x]
  <2> TAKE x \in free
  <2>1. a[x] \in s.lower[x]..s.upper[x] /\ s.lower[x] \in Int /\ s.upper[x] \in Int
    BY <1>4, <1>5
  <2> QED BY <2>1
<1>7. value(a) \in [Var -> Int]
  BY <1>4, <1>6
<1>8. \A x \in LpColumns(s) : s.lower[x] <= value(a)[x] /\ value(a)[x] <= s.upper[x]
  <2> TAKE x \in LpColumns(s)
  <2>1. s.lower[x] <= s.upper[x] /\ s.lower[x] \in Int /\ s.upper[x] \in Int /\ x \in Var
    BY <1>4, <1>5 DEF Consistent
  <2>2. CASE x \in free
    BY <1>6, <2>1, <2>2
  <2>3. CASE x \notin free
    BY <2>1, <2>3
  <2> QED BY <2>2, <2>3
<1> DEFINE c == CalculatedValues(s.tableau, value(a))
<1> HIDE DEF boxes, value
<1>9. CalculatedFrom(c, s.tableau, value(a), Var)
  <2>1. IsFiniteSet(Var) /\ Var \in SUBSET Var /\ DOMAIN s.tableau \subseteq Var
    BY <1>4, VarFinite DEF Basic
  <2> QED BY <1>1, <1>4, <1>7, <2>1, CalculatedZero
<1> DEFINE w == [s EXCEPT !.assignment = value(a)]
<1>10. /\ w \in States /\ w.tableau = s.tableau /\ w.assignment = value(a)
       /\ w.lower = s.lower /\ w.upper = s.upper
  BY <1>1, <1>7 DEF States
<1>11. t = [w EXCEPT !.assignment = c]
  <2> HIDE DEF w
  <2>1. t = Calculated(w)
    BY <1>2 DEF w
  <2> QED BY <1>10, <2>1, CalculatedIs
<1> HIDE DEF w, c
<1>12. /\ t.tableau = s.tableau /\ t.assignment = c /\ t.lower = s.lower /\ t.upper = s.upper
  BY <1>10, <1>11 DEF States
<1>13. ASSUME NEW x \in Columns(s)
       PROVE  s.lower[x] <= t.assignment[x] /\ t.assignment[x] <= s.upper[x]
  <2>1. CASE x \in LpColumns(s)
    BY <1>5, <1>8, <1>9, <1>12, <2>1 DEF CalculatedFrom, NonBasic, Basic
  <2>2. CASE x \in Basic(s)
    <3>1. ~OutOfBounds(t, x) /\ x \in Var
      BY <1>3, <1>4, <1>12, <2>2 DEF AllVarsWithinBounds, Basic
    <3>2. c[x] \in Int /\ s.lower[x] \in Int /\ s.upper[x] \in Int
      BY <1>4, <1>9, <3>1 DEF CalculatedFrom
    <3> QED BY <1>12, <3>1, <3>2 DEF OutOfBounds, TooLow, TooHigh
  <2> QED BY <2>1, <2>2 DEF Columns
<1> QED BY <1>9, <1>12, <1>13 DEF FeasibleOK, CalculatedFrom

\* A basic variable that no pivot can move in one direction is at the most in
\* that direction that any assignment within the bounds gives it.
Extreme(s, t, y, increase) ==
  IF increase THEN t.assignment[y] <= s.assignment[y] ELSE t.assignment[y] >= s.assignment[y]

\* No assignment within the bounds moves it any further.
LEMMA BlockedIsExtreme ==
  ASSUME NEW s, FormOK(s, eliminated), NEW y \in Basic(s), NEW increase \in BOOLEAN,
         PivotCandidates(s, y, increase) = {}, NEW t, FeasibleOK(s, t)
  PROVE  Extreme(s, t, y, increase)
<1> DEFINE r == s.tableau[y]
           a == s.assignment
           b == t.assignment
           S == Var \ {y}
<1>1. s \in States /\ BasisForm(s.tableau) /\ RowsZero(s.tableau, a, Var)
  BY DEF FormOK
<1>2. y \in Var /\ r \in [Var -> Int] /\ a \in [Var -> Int] /\ b \in [Var -> Int]
        /\ s.lower \in [Var -> Int] /\ s.upper \in [Var -> Int]
  BY <1>1, StateFields DEF FeasibleOK
<1>3. Dot(r, a, Var) = 0 /\ Dot(r, b, Var) = 0 /\ r[y] = -1
  BY <1>1 DEF RowsZero, FeasibleOK, BasisForm, Basic
<1>4. \A x \in S : r[x] # 0 =>
        /\ s.lower[x] <= b[x] /\ b[x] <= s.upper[x]
        /\ ~IF increase = (r[x] > 0) THEN CanIncrease(s, x) ELSE CanDecrease(s, x)
  BY OutsideColumns DEF PivotCandidates, FeasibleOK
<1> HIDE DEF r, a, b
<1>5. IntOn(r, Var) /\ IntOn(a, Var) /\ IntOn(b, Var) /\ IntOn(r, S) /\ IntOn(a, S) /\ IntOn(b, S)
        /\ IsFiniteSet(Var) /\ IsFiniteSet(S)
  BY <1>2, VarFinite, FS_Subset DEF IntOn
<1>6. (Dot(r, a, Var) = 0 <=> a[y] = Dot(r, a, S)) /\ (Dot(r, b, Var) = 0 <=> b[y] = Dot(r, b, S))
  BY <1>2, <1>3, <1>5, RowValue
<1>7. \A k, i, j \in Int : k > 0 /\ i <= j => k * i <= k * j
  OBVIOUS
<1>8. \A k, i, j \in Int : k < 0 /\ i <= j => k * j <= k * i
  OBVIOUS
<1>9. CASE increase
  <2>0. ASSUME NEW x \in S, r[x] # 0
        PROVE  /\ r[x] > 0 => b[x] <= a[x]
               /\ r[x] < 0 => a[x] <= b[x]
    <3>1. r[x] \in Int /\ a[x] \in Int /\ b[x] \in Int /\ s.lower[x] \in Int /\ s.upper[x] \in Int
      BY <1>2
    <3>2. s.lower[x] <= b[x] /\ b[x] <= s.upper[x]
      BY <1>4, <2>0
    <3>3. CASE r[x] > 0
      <4> DEFINE up == r[x] > 0
      <4>0. up \in BOOLEAN /\ up
        BY <3>3
      <4>1. (increase = up) => ~CanIncrease(s, x)
        BY <1>4, <2>0
      <4>2. increase = up
        <5> HIDE DEF up
        <5> QED BY <1>9, <4>0
      <4>3. ~CanIncrease(s, x)
        <5> HIDE DEF up
        <5> QED BY <4>1, <4>2
      <4> QED BY <3>1, <3>2, <3>3, <4>3 DEF CanIncrease, a
    <3>4. CASE ~(r[x] > 0)
      <4>1. ~CanDecrease(s, x)
        BY <1>4, <1>9, <2>0, <3>4, Zenon
      <4> QED BY <3>1, <3>2, <3>4, <4>1 DEF CanDecrease, a
    <3> QED BY <3>3, <3>4
  <2>1. \A x \in S : r[x] * b[x] <= r[x] * a[x]
    <3> TAKE x \in S
    <3>1. r[x] \in Int /\ a[x] \in Int /\ b[x] \in Int /\ s.lower[x] \in Int /\ s.upper[x] \in Int
      BY <1>2
    <3>2. CASE r[x] = 0
      <4>1. r[x] * b[x] = 0 /\ r[x] * a[x] = 0
        BY <3>1, <3>2
      <4> QED BY <4>1
    <3>3. CASE r[x] > 0
      <4>1. b[x] <= a[x]
        BY <2>0, <3>3
      <4> QED BY <1>7, <3>1, <3>3, <4>1
    <3>4. CASE r[x] < 0
      <4>1. a[x] <= b[x]
        BY <2>0, <3>4
      <4> QED BY <1>8, <3>1, <3>4, <4>1
    <3> QED BY <3>1, <3>2, <3>3, <3>4
  <2>2. Dot(r, b, S) <= Dot(r, a, S)
    BY <1>5, <2>1, DotOrdered
  <2> QED BY <1>3, <1>6, <1>9, <2>2 DEF Extreme, a, b
<1>10. CASE ~increase
  <2>0. ASSUME NEW x \in S, r[x] # 0
        PROVE  /\ r[x] > 0 => a[x] <= b[x]
               /\ r[x] < 0 => b[x] <= a[x]
    <3>1. r[x] \in Int /\ a[x] \in Int /\ b[x] \in Int /\ s.lower[x] \in Int /\ s.upper[x] \in Int
      BY <1>2
    <3>2. s.lower[x] <= b[x] /\ b[x] <= s.upper[x]
      BY <1>4, <2>0
    <3>3. CASE r[x] > 0
      <4>1. ~CanDecrease(s, x)
        BY <1>4, <1>10, <2>0, <3>3, Zenon
      <4> QED BY <3>1, <3>2, <3>3, <4>1 DEF CanDecrease, a
    <3>4. CASE ~(r[x] > 0)
      <4> DEFINE up == r[x] > 0
      <4>0. up \in BOOLEAN /\ ~up
        BY <3>4
      <4>1. (increase = up) => ~CanIncrease(s, x)
        BY <1>4, <2>0
      <4>2. increase = up
        <5> HIDE DEF up
        <5> QED BY <1>10, <4>0
      <4>3. ~CanIncrease(s, x)
        <5> HIDE DEF up
        <5> QED BY <4>1, <4>2
      <4> QED BY <3>1, <3>2, <3>4, <4>3 DEF CanIncrease, a
    <3> QED BY <3>3, <3>4
  <2>1. \A x \in S : r[x] * a[x] <= r[x] * b[x]
    <3> TAKE x \in S
    <3>1. r[x] \in Int /\ a[x] \in Int /\ b[x] \in Int /\ s.lower[x] \in Int /\ s.upper[x] \in Int
      BY <1>2
    <3>2. CASE r[x] = 0
      <4>1. r[x] * b[x] = 0 /\ r[x] * a[x] = 0
        BY <3>1, <3>2
      <4> QED BY <4>1
    <3>3. CASE r[x] > 0
      <4>1. a[x] <= b[x]
        BY <2>0, <3>3
      <4> QED BY <1>7, <3>1, <3>3, <4>1
    <3>4. CASE r[x] < 0
      <4>1. b[x] <= a[x]
        BY <2>0, <3>4
      <4> QED BY <1>8, <3>1, <3>4, <4>1
    <3> QED BY <3>1, <3>2, <3>3, <3>4
  <2>2. Dot(r, a, S) <= Dot(r, b, S)
    BY <1>5, <2>1, DotOrdered
  <2>3. Dot(r, a, S) \in Int /\ Dot(r, b, S) \in Int
    BY <1>5, DotInt
  <2> QED BY <1>3, <1>6, <1>10, <2>2, <2>3 DEF Extreme, a, b
<1> QED BY <1>9, <1>10

\* Neither variable of a broken pair can be moved.
LEMMA UnmovableInfeasible ==
  ASSUME NEW s, FormOK(s, eliminated), Consistent(s, eliminated), NEW f \in F, Broken(s, f),
         ~Movable(s, B[f], s.assignment[f]), ~Movable(s, f, ReluOf(s, f)),
         NEW t \in Feasible(s)
  PROVE  t.assignment[f] # ReluOf(t, f)
<1> DEFINE b == B[f]
<1>1. FeasibleOK(s, t)
  BY FeasibleIsOK
<1>2. f \in Basic(s) /\ b \in Basic(s)
  BY DEF Movable, NonBasic
<1>3. /\ Extreme(s, t, b, s.assignment[f] > s.assignment[b])
      /\ Extreme(s, t, f, ReluOf(s, f) > s.assignment[f])
  <2> DEFINE up(v, x) == v > s.assignment[x]
  <2>1. \A v, x : up(v, x) \in BOOLEAN
    OBVIOUS
  <2>2. /\ PivotCandidates(s, b, up(s.assignment[f], b)) = {}
        /\ PivotCandidates(s, f, up(ReluOf(s, f), f)) = {}
    BY DEF Movable
  <2> HIDE DEF up
  <2>3. Extreme(s, t, b, up(s.assignment[f], b)) /\ Extreme(s, t, f, up(ReluOf(s, f), f))
    BY <1>1, <1>2, <2>1, <2>2, BlockedIsExtreme
  <2> QED BY <2>3 DEF up
<1>4. f \in Var /\ b \in Var
  BY PairFacts
<1>5. /\ s.assignment[f] \in Int /\ s.assignment[b] \in Int
      /\ t.assignment[f] \in Int /\ t.assignment[b] \in Int
  BY <1>1, <1>4, StateFields DEF FeasibleOK, FormOK
<1>6. \/ s.assignment[f] = 0 /\ s.assignment[b] > 0
      \/ s.assignment[f] > 0 /\ s.assignment[f] # s.assignment[b]
  BY DEF Broken, ReluPairIsBroken
<1>7. CASE s.assignment[f] > s.assignment[b]
  BY <1>3, <1>5, <1>6, <1>7 DEF Extreme, ReluOf
<1>8. CASE s.assignment[f] < s.assignment[b]
  BY <1>3, <1>5, <1>6, <1>8 DEF Extreme, ReluOf
<1> QED BY <1>5, <1>6, <1>7, <1>8

\* The LP with the slack variables of some active pairs has no solution.
LEMMA NoSlacksInfeasible ==
  ASSUME FormOK(st, eliminated), Consistent(st, eliminated), eliminated \in SUBSET Aux,
         NEW slacks \in SUBSET ActivePairs(st),
         NEW t \in Feasible(st), ~SlacksHold(t, slacks)
  PROVE  \E f \in ActivePairs(st) : t.assignment[f] # ReluOf(t, f)
<1>1. FeasibleOK(st, t)
  BY FeasibleIsOK
<1>2. PICK f \in slacks :
        t.assignment[f] - t.assignment[B[f]] \notin LpLower(Slack(f))..LpUpper(Slack(f))
  BY DEF SlacksHold
<1>3. f \in F /\ st.dissolved[f] = Active /\ f \in ActivePairs(st)
  BY DEF ActivePairs
<1> DEFINE b == B[f]
<1>4. f \in Var /\ b \in Var /\ f \notin eliminated /\ b \notin eliminated /\ ~IsB(f)
        /\ PairOf(b) = f
  BY <1>3, PairFacts
<1>5. f \in Columns(st) /\ b \in Columns(st)
  <2>1. ~MergedB(st, f) /\ ~MergedB(st, b)
    BY <1>3, <1>4 DEF MergedB, Active
  <2> QED BY <1>4, <2>1 DEF Columns, LpColumns, NonBasic
<1>6. LpLower(Slack(f)) = 0 /\ LpUpper(Slack(f)) = st.upper[f] - st.lower[b]
  BY <1>3, SlackFacts DEF LpLower, LpUpper
<1>7. /\ t.assignment[f] \in Int /\ t.assignment[b] \in Int
      /\ st.upper[f] \in Int /\ st.lower[b] \in Int /\ st.upper[b] \in Int
  BY <1>1, <1>4, StateFields DEF FeasibleOK, FormOK
<1>8. t.assignment[f] <= st.upper[f] /\ st.lower[b] <= t.assignment[b]
  BY <1>1, <1>5 DEF FeasibleOK
<1>9. PairOK(st, f) /\ st.upper[f] = st.upper[b] /\ st.lower[b] <= st.upper[b]
  BY <1>3, <1>4 DEF Consistent, PairOK
<1>10. t.assignment[f] # ReluOf(t, f)
  <2> SUFFICES ASSUME t.assignment[f] = ReluOf(t, f) PROVE FALSE
    OBVIOUS
  <2>1. 0 <= t.assignment[f] - t.assignment[b]
          /\ t.assignment[f] - t.assignment[b] <= st.upper[f] - st.lower[b]
    BY <1>7, <1>8, <1>9 DEF ReluOf
  <2> QED BY <1>2, <1>6, <1>7, <2>1
<1> QED BY <1>3, <1>10

-----------------------------------------------------------------------------
(*************************************************************************)
(* The initialization.                                                   *)
(*************************************************************************)
\* What the initialization needs: no pair is dissolved, and each has the bounds
\* it began with.
FreshPairs(s) ==
  /\ AllActive(s)
  /\ \A f \in F : s.lower[f] = 0 /\ s.lower[B[f]] <= 0 /\ s.upper[f] = s.upper[B[f]]

\* What an update of a non-basic variable during the initialization leaves.
InitialUpdated(s, t, x) ==
  /\ FormOK(t, {})
  /\ t.tableau = s.tableau /\ t.lower = s.lower /\ t.upper = s.upper
  /\ t.dissolved = s.dissolved
  /\ ~OutOfBounds(t, x)
  /\ \A z \in Var \ {x} : NonBasic(s, z) /\ ~OutOfBounds(s, z) => ~OutOfBounds(t, z)

\* update() during the initialization: the partner, when it follows, stays
\* within its bounds if it was.
LEMMA UpdateBothOK ==
  ASSUME NEW s, FormOK(s, {}), FreshPairs(s), NEW x \in Var, NonBasic(s, x), NEW v \in Int,
         s.lower[x] <= v, v <= s.upper[x]
  PROVE  InitialUpdated(s, UpdateBoth(s, x, v), x)
<1> DEFINE t == Update(s, x, v)
           y == Partner(x)
           w == IF x \notin F /\ v < 0 THEN 0 ELSE v
           f == PairOf(x)
<1>1. s \in States /\ {} \in SUBSET Var
  BY DEF FormOK
<1>2. Changed(s, t, x, v)
  BY <1>1, UpdateChanges
<1>3. FormOK(t, {})
  BY <1>1, UpdateForm
<1> HIDE DEF t, w
<1>4. InitialUpdated(s, t, x)
  <2>1. s.lower[x] \in Int /\ s.upper[x] \in Int
    BY <1>1, StateFields
  <2>2. t.lower = s.lower /\ t.upper = s.upper /\ t.assignment[x] = v
    BY <1>2 DEF Changed
  <2>3. ~OutOfBounds(t, x)
    BY <2>1, <2>2 DEF OutOfBounds, TooLow, TooHigh
  <2>4. \A z \in Var \ {x} : NonBasic(s, z) /\ ~OutOfBounds(s, z) => ~OutOfBounds(t, z)
    BY <1>2 DEF Changed, OutOfBounds, TooLow, TooHigh
  <2> QED BY <1>2, <1>3, <2>3, <2>4 DEF InitialUpdated, Changed
<1>5. CASE IsRelu(x) /\ NonBasic(s, y) /\ Broken(t, f)
  <2>1. /\ f \in F /\ y \in Var /\ B[f] \in Var /\ f \in Var
        /\ \/ x = f /\ y = B[f] /\ x # y
           \/ x \notin F /\ x = B[f] /\ y = f /\ x # y
    BY <1>5, ReluVariable, PairFacts
  <2>2. w \in Int /\ t \in States /\ NonBasic(t, y)
    BY <1>2, <1>5 DEF w, Changed, NonBasic, Basic
  <2>3. FormOK(Update(t, y, w), {}) /\ Changed(t, Update(t, y, w), y, w)
    BY <1>1, <1>3, <2>1, <2>2, UpdateForm, UpdateChanges
  <2>4. /\ s.lower[f] = 0 /\ s.lower[B[f]] <= 0 /\ s.upper[f] = s.upper[B[f]]
        /\ s.lower \in [Var -> Int] /\ s.upper \in [Var -> Int] /\ s.assignment \in [Var -> Int]
    BY <1>1, <2>1, StateFields DEF FreshPairs
  <2>5. ~OutOfBounds(s, y) => s.lower[y] <= w /\ w <= s.upper[y]
    <3> SUFFICES ASSUME ~OutOfBounds(s, y) PROVE s.lower[y] <= w /\ w <= s.upper[y]
      OBVIOUS
    <3>1. CASE x = f
      BY <2>1, <2>4, <3>1 DEF w
    <3>2. CASE x # f
      <4>1. x \notin F /\ x = B[f] /\ y = f
        BY <2>1, <3>2
      <4>2. s.assignment[f] <= s.upper[f]
        BY <2>1, <2>4, <4>1 DEF OutOfBounds, TooHigh
      <4>3. t.assignment[f] = s.assignment[f] /\ t.assignment[x] = v
        BY <1>2, <1>5, <2>1, <4>1 DEF Changed
      <4>4. v < 0 => s.assignment[f] > 0
        BY <1>5, <4>1, <4>3 DEF Broken, ReluPairIsBroken
      <4>5. s.assignment[f] \in Int /\ s.upper[f] \in Int
        BY <2>1, <2>4
      <4> QED BY <2>4, <4>1, <4>2, <4>4, <4>5 DEF w
    <3> QED BY <3>1, <3>2
  <2>6. InitialUpdated(s, Update(t, y, w), x)
    <3> DEFINE u == Update(t, y, w)
    <3>1. /\ FormOK(u, {}) /\ u.tableau = s.tableau /\ u.lower = s.lower /\ u.upper = s.upper
          /\ u.dissolved = s.dissolved
      BY <1>2, <2>3 DEF Changed
    <3>2. u.assignment[x] = v
      BY <1>2, <2>1, <2>2, <2>3 DEF Changed, NonBasic, Basic
    <3>3. u.assignment[y] = w
      BY <2>3 DEF Changed
    <3>4. \A z \in Var \ {x, y} : NonBasic(s, z) => u.assignment[z] = s.assignment[z]
      BY <1>2, <2>3 DEF Changed, NonBasic, Basic
    <3> HIDE DEF u
    <3>5. ~OutOfBounds(u, x)
      BY <2>4, <3>1, <3>2 DEF OutOfBounds, TooLow, TooHigh
    <3>6. ASSUME NEW z \in Var \ {x}, NonBasic(s, z), ~OutOfBounds(s, z)
          PROVE  ~OutOfBounds(u, z)
      <4>1. CASE z = y
        BY <2>2, <2>4, <2>5, <3>1, <3>3, <3>6, <4>1 DEF OutOfBounds, TooLow, TooHigh
      <4>2. CASE z # y
        BY <3>1, <3>4, <3>6, <4>2 DEF OutOfBounds, TooLow, TooHigh
      <4> QED BY <4>1, <4>2
    <3>7. InitialUpdated(s, u, x)
      BY <3>1, <3>5, <3>6 DEF InitialUpdated
    <3> QED BY <3>7 DEF u
  <2>7. UpdateBoth(s, x, v) = t \/ UpdateBoth(s, x, v) = Update(t, y, w)
    BY DEF UpdateBoth, t, w
  <2> QED BY <1>4, <2>6, <2>7
<1>6. CASE ~(IsRelu(x) /\ NonBasic(s, y) /\ Broken(t, f))
  <2>1. UpdateBoth(s, x, v) = t
    BY <1>6 DEF UpdateBoth, t
  <2> QED BY <1>4, <2>1
<1> QED BY <1>5, <1>6

-----------------------------------------------------------------------------
(***************************************************************************)
(* The inductive invariant.                                                *)
(***************************************************************************)
\* Once the bounds have been found consistent, and in the main loop.
Started == {"eliminating", "loop", "solving", "rejected", "restoring", "adjusting",
            "sat", "infeasible", "refuted", "error"}
Looping == {"loop", "solving", "rejected", "restoring", "adjusting"}

TypeForm ==
  /\ pc \in Started \cup {"initializing", "conflict"}
  /\ index \in Var
  /\ eliminated \in SUBSET Aux
  /\ FormOK(st, eliminated)
  /\ pc \in Started => Consistent(st, eliminated)

\* Until the main loop stores it, the basic auxiliary variables are those that
\* have not been looked at.
StartForm ==
  /\ pc = "initializing" =>
       /\ st.tableau = Equations /\ eliminated = {} /\ FreshPairs(st)
       /\ \A x \in Var : x < index => st.lower[x] <= st.upper[x]
  /\ pc = "eliminating" =>
       /\ \A y \in Aux : y >= index => y \in Basic(st)
       /\ AllActive(st)

\* What a restoration starts from.
StoredForm ==
  /\ pc \in Looping =>
       /\ FormOK(preprocessed, eliminated) /\ Consistent(preprocessed, eliminated)
       /\ AllActive(preprocessed)
  /\ pc = "restoring" => BackupOK /\ Pending(st) /\ backup.keep \in KeepBasics
  /\ pc = "adjusting" => TRUE \in KeepBasics

\* No assignment within the bounds that satisfies the rows satisfies the pairs.
Infeasible(s) == \A t \in Feasible(s) : \E f \in ActivePairs(s) : t.assignment[f] # ReluOf(t, f)

LpForm ==
  pc = "solving" =>
    /\ lp.slacks \in SUBSET ActivePairs(st)
    /\ lp = [slacks |-> lp.slacks, tableau |-> lp.tableau, feasible |-> lp.feasible]
    /\ LpTableOK(lp.tableau, st, lp.slacks)
    /\ ~lp.feasible => Infeasible(st)

AnswerForm == RefutationsRight /\ LpSolutionKept

IInv == TypeForm /\ StartForm /\ StoredForm /\ LpForm /\ AnswerForm

\* A repair during a restoration gives f what it should be: not so where the
\* code looks at the index of b in place of its value.
RepairRight ==
  pc = "adjusting" => \A y \in Leaving(st, index, backup.basics) : RepairsRight(st, index, y)

ValuesForm ==
  /\ pc \in Started \ {"error"} => InBounds(st)
  /\ pc \in Looping => InBounds(preprocessed)
  /\ pc = "initializing" =>
       \A x \in Var : x < index /\ NonBasic(st, x) => ~OutOfBounds(st, x)
  /\ pc = "sat" => AllVarsWithinBounds(st) /\ AllRelusHold(st)

-----------------------------------------------------------------------------
\* The initial loops go through all variables.
LEMMA NextIndexOK ==
  ASSUME index \in Var, NextIndex
  PROVE  /\ index' \in Var /\ index \in Int
         /\ ~LastVariable => index' = index + 1
         /\ LastVariable => index' = 0 /\ \A x \in Var : x <= index
<1>1. NumVariables \in Nat \ {0} /\ index \in 0..NumVariables - 1
  BY SimplexAssumption DEF Var
<1> QED BY <1>1 DEF NextIndex, LastVariable, Var

\* Where no LP is being solved and no answer given, the last two parts hold.
LEMMA NoAnswer ==
  ASSUME pc \notin {"solving", "infeasible", "refuted", "rejected"}
  PROVE  LpForm /\ AnswerForm
BY DEF LpForm, AnswerForm, RefutationsRight, LpSolutionKept

\* The initial state.
LEMMA InitForm == Init => IInv /\ ValuesForm
<1> SUFFICES ASSUME Init PROVE IInv /\ ValuesForm
  OBVIOUS
<1> DEFINE zero == [x \in Var |-> 0]
           none == [f \in F |-> Active]
<1>1. PICK q \in Queries :
        st = [tableau |-> Equations, assignment |-> zero,
              lower |-> q.lower, upper |-> q.upper, dissolved |-> none]
  BY DEF Init
<1>2. /\ q \in [lower : [Var -> Int], upper : [Var -> Int]]
      /\ \A f \in F : q.lower[f] = 0 /\ q.lower[B[f]] <= 0 /\ q.upper[f] = q.upper[B[f]]
  BY SimplexAssumption
<1>3. /\ Aux \subseteq Var /\ Equations \in [Aux -> [Var -> {-1, 0, 1}]]
      /\ \A y \in Aux : Equations[y][y] = -1 /\ \A z \in Aux \ {y} : Equations[y][z] = 0
  BY SimplexAssumption
<1>4. zero \in [Var -> Int] /\ none \in [F -> Phases]
  BY DEF Phases
<1>5. Equations \in Tableaus(Var) /\ DOMAIN Equations = Aux
  <2>1. \A y \in Aux : Equations[y] \in [Var -> Int]
    BY <1>3
  <2> QED BY <1>3, <2>1, TableauIn
<1>6. st \in States /\ BasisForm(st.tableau)
  <2>1. st \in States
    BY <1>1, <1>2, <1>4, <1>5 DEF States
  <2>2. BasisForm(Equations)
    BY <1>3, <1>5 DEF BasisForm
  <2> QED BY <1>1, <2>1, <2>2
<1>7. RowsZero(st.tableau, st.assignment, Var)
  <2> SUFFICES ASSUME NEW y \in DOMAIN st.tableau
               PROVE  Dot(st.tableau[y], st.assignment, Var) = 0
    BY DEF RowsZero
  <2>1. y \in Aux /\ st.tableau[y] \in [Var -> Int]
    BY <1>1, <1>3, <1>5
  <2>2. IntOn(st.tableau[y], Var) /\ IntOn(zero, Var)
    <3> HIDE DEF zero
    <3> QED BY <1>4, <2>1 DEF IntOn
  <2>3. \A x \in Var \ {} : st.tableau[y][x] * zero[x] = 0
    BY <2>1
  <2>5. IsFiniteSet(Var) /\ {} \in SUBSET Var
    BY VarFinite
  <2> HIDE DEF zero
  <2>4. Dot(st.tableau[y], zero, Var) = Dot(st.tableau[y], zero, {})
    BY <2>2, <2>3, <2>5, DotSupport
  <2> QED BY <1>1, <2>4, DotEmpty
<1> HIDE DEF zero, none
<1>8. \A x : ~MergedB(st, x)
  <2>1. ASSUME NEW x, MergedB(st, x)
        PROVE  FALSE
    <3>1. IsB(x) /\ st.dissolved[PairOf(x)] = "MERGE"
      BY <2>1 DEF MergedB
    <3>2. PairOf(x) \in F
      BY <3>1, ReluVariable DEF IsRelu
    <3> QED BY <1>1, <3>1, <3>2 DEF none, Active
  <2> QED BY <2>1
<1>9. RowsEntail(st, {})
  <2> SUFFICES ASSUME NEW a \in [Var -> Int], RowsZero(st.tableau, a, Var), NEW y \in Aux
               PROVE  Dot(Equations[y], Reading(st, a), Var) = 0
    BY DEF RowsEntail
  <2>1. Reading(st, a) = a
    BY <1>8 DEF Reading
  <2> QED BY <1>1, <1>5, <2>1 DEF RowsZero
<1>10. FormOK(st, {})
  BY <1>6, <1>7, <1>8, <1>9 DEF FormOK, GoneEmpty, Gone
<1>11. pc = "initializing" /\ eliminated = {} /\ index = 0 /\ index \in Var
  BY VarFinite DEF Init
<1>12. FreshPairs(st)
  BY <1>1, <1>2 DEF FreshPairs, AllActive, none
<1>13. \A x \in Var : ~(x < index)
  BY <1>11, VarFinite
<1>14. LpForm /\ AnswerForm
  BY <1>11, NoAnswer
<1>15. TypeForm
  BY <1>10, <1>11 DEF TypeForm, Started
<1>16. StartForm
  BY <1>1, <1>11, <1>12, <1>13 DEF StartForm
<1>17. StoredForm /\ ValuesForm
  BY <1>11, <1>13 DEF StoredForm, ValuesForm, Started, Looping
<1> QED BY <1>14, <1>15, <1>16, <1>17 DEF IInv

-----------------------------------------------------------------------------
(*************************************************************************)
(* The steps.                                                            *)
(*************************************************************************)
Preserved == IInv' /\ (ValuesForm /\ RepairRight => ValuesForm')

\* The initial update of one variable.
LEMMA InitialUpdateOK ==
  ASSUME IInv, InitialUpdate
  PROVE  Preserved
<1>1. /\ pc = "initializing" /\ index \in Var /\ eliminated = {} /\ FormOK(st, {})
      /\ st.tableau = Equations /\ FreshPairs(st)
      /\ \A x \in Var : x < index => st.lower[x] <= st.upper[x]
      /\ eliminated' = {}
  BY DEF InitialUpdate, IInv, TypeForm, StartForm
<1>2. LpForm' /\ AnswerForm'
  BY <1>1 DEF InitialUpdate, LpForm, AnswerForm, RefutationsRight, LpSolutionKept
<1>3. CASE Contradictory(st, {index})
  <2>1. pc' = "conflict" /\ st' = st /\ index' = index
    BY <1>3 DEF InitialUpdate
  <2>2. TypeForm' /\ StartForm' /\ StoredForm' /\ ValuesForm'
    BY <1>1, <2>1 DEF TypeForm, StartForm, StoredForm, ValuesForm, Started, Looping
  <2> QED BY <1>2, <2>2 DEF Preserved, IInv
<1>4. CASE ~Contradictory(st, {index})
  <2> DEFINE v == Within(st, index).assignment[index]
  <2>1. /\ st' = IF NonBasic(st, index) /\ OutOfBounds(st, index)
                 THEN UpdateBoth(st, index, v) ELSE st
        /\ NextIndex
        /\ pc' = IF LastVariable THEN "eliminating" ELSE "initializing"
    BY <1>1, <1>4 DEF InitialUpdate
  <2>2. /\ index' \in Var /\ index \in Int
        /\ ~LastVariable => index' = index + 1
        /\ LastVariable => index' = 0 /\ \A x \in Var : x <= index
    BY <1>1, <2>1, NextIndexOK
  <2>3. st \in States /\ {} \in SUBSET Var /\ Var \subseteq Int
    BY <1>1, VarFinite DEF FormOK
  <2>4. st.lower \in [Var -> Int] /\ st.upper \in [Var -> Int] /\ st.assignment \in [Var -> Int]
    BY <2>3, StateFields
  <2>5. st.lower[index] <= st.upper[index]
    BY <1>1, <1>4, <2>4 DEF Contradictory
  <2>6. v \in Int /\ (OutOfBounds(st, index) => st.lower[index] <= v /\ v <= st.upper[index])
    <3>1. /\ Update(st, index, st.lower[index]).assignment[index] = st.lower[index]
          /\ Update(st, index, st.upper[index]).assignment[index] = st.upper[index]
      BY <1>1, <2>3, <2>4, UpdateChanges DEF Changed
    <3>2. CASE TooLow(st, index)
      BY <1>1, <2>4, <2>5, <3>1, <3>2 DEF Within
    <3>3. CASE ~TooLow(st, index) /\ TooHigh(st, index)
      BY <1>1, <2>4, <2>5, <3>1, <3>3 DEF Within
    <3>4. CASE ~TooLow(st, index) /\ ~TooHigh(st, index)
      BY <1>1, <2>4, <3>4 DEF Within, OutOfBounds
    <3> QED BY <3>2, <3>3, <3>4
  <2> HIDE DEF v
  <2>7. /\ FormOK(st', {}) /\ st'.tableau = st.tableau
        /\ st'.lower = st.lower /\ st'.upper = st.upper /\ st'.dissolved = st.dissolved
        /\ NonBasic(st, index) => ~OutOfBounds(st', index)
        /\ \A z \in Var \ {index} : NonBasic(st, z) /\ ~OutOfBounds(st, z) => ~OutOfBounds(st', z)
    <3>1. CASE NonBasic(st, index) /\ OutOfBounds(st, index)
      <4>1. InitialUpdated(st, UpdateBoth(st, index, v), index)
        BY <1>1, <2>6, <3>1, UpdateBothOK
      <4> QED BY <2>1, <3>1, <4>1 DEF InitialUpdated
    <3>2. CASE ~(NonBasic(st, index) /\ OutOfBounds(st, index))
      BY <1>1, <2>1, <3>2
    <3> QED BY <3>1, <3>2
  <2>8. FreshPairs(st') /\ \A x : NonBasic(st', x) <=> NonBasic(st, x)
    BY <1>1, <2>7 DEF FreshPairs, AllActive, NonBasic, Basic
  <2>9. ASSUME NEW x \in Var, x <= index
        PROVE  st'.lower[x] <= st'.upper[x]
    BY <1>1, <2>2, <2>3, <2>5, <2>7, <2>9
  <2>10. ASSUME ValuesForm, NEW x \in Var, x <= index, NonBasic(st, x)
         PROVE  ~OutOfBounds(st', x)
    <3>1. CASE x = index
      BY <2>7, <2>10, <3>1
    <3>2. CASE x # index
      <4>1. x < index
        BY <2>2, <2>3, <2>10, <3>2
      <4> QED BY <1>1, <2>7, <2>10, <3>2, <4>1 DEF ValuesForm
    <3> QED BY <3>1, <3>2
  <2>11. CASE LastVariable
    <3>1. pc' = "eliminating" /\ \A x \in Var : x <= index
      BY <2>1, <2>2, <2>11
    <3>2. Consistent(st', {})
      <4>1. \A f \in F : f \in Var /\ B[f] \in Var
        BY PairFacts
      <4>2. \A f \in F : PairOK(st', f)
        BY <2>8, <4>1 DEF FreshPairs, AllActive, PairOK, Active
      <4>3. \A x \in Var : st'.lower[x] <= st'.upper[x]
        BY <2>9, <3>1
      <4> QED BY <4>2, <4>3 DEF Consistent
    <3>3. Basic(st') = Aux
      BY <1>1, <2>7, SimplexAssumption DEF Basic
    <3>4. TypeForm'
      BY <1>1, <2>2, <2>7, <3>1, <3>2 DEF TypeForm, Started
    <3>5. StartForm' /\ StoredForm'
      BY <2>8, <3>1, <3>3 DEF StartForm, StoredForm, FreshPairs, Looping
    <3>6. ValuesForm => ValuesForm'
      <4> SUFFICES ASSUME ValuesForm PROVE ValuesForm'
        OBVIOUS
      <4>1. InBounds(st')
        BY <2>8, <2>10, <3>1 DEF InBounds
      <4> QED BY <3>1, <4>1 DEF ValuesForm, Looping
    <3> QED BY <1>2, <3>4, <3>5, <3>6 DEF Preserved, IInv
  <2>12. CASE ~LastVariable
    <3>1. pc' = "initializing" /\ \A x \in Var : x < index' => x <= index
      BY <2>1, <2>2, <2>3, <2>12
    <3>2. TypeForm'
      BY <1>1, <2>2, <2>7, <3>1 DEF TypeForm, Started
    <3>3. \A x \in Var : x < index' => st'.lower[x] <= st'.upper[x]
      BY <2>9, <3>1
    <3>4. StartForm' /\ StoredForm'
      BY <1>1, <2>7, <2>8, <3>1, <3>3 DEF StartForm, StoredForm, Looping
    <3>5. ValuesForm => ValuesForm'
      <4> SUFFICES ASSUME ValuesForm PROVE ValuesForm'
        OBVIOUS
      <4>1. \A x \in Var : x < index' /\ NonBasic(st', x) => ~OutOfBounds(st', x)
        BY <2>8, <2>10, <3>1
      <4> QED BY <3>1, <4>1 DEF ValuesForm, Started, Looping
    <3> QED BY <1>2, <3>2, <3>4, <3>5 DEF Preserved, IInv
  <2> QED BY <2>11, <2>12
<1> QED BY <1>3, <1>4

\* One step of the elimination of auxiliary variables; the last one stores the
\* state for the restorations.
LEMMA EliminateAuxOK ==
  ASSUME IInv, EliminateAux
  PROVE  Preserved
<1>1. /\ pc = "eliminating" /\ index \in Var /\ eliminated \in SUBSET Aux
      /\ FormOK(st, eliminated) /\ Consistent(st, eliminated)
      /\ \A y \in Aux : y >= index => y \in Basic(st)
      /\ AllActive(st)
  BY DEF EliminateAux, IInv, TypeForm, StartForm, Started
<1>2. Aux \subseteq Var /\ Var \subseteq Int
  BY SimplexAssumption, VarFinite
<1>3. NextIndex
  BY DEF EliminateAux
<1>4. /\ index' \in Var /\ index \in Int
      /\ ~LastVariable => index' = index + 1
      /\ LastVariable => index' = 0 /\ \A x \in Var : x <= index
  BY <1>1, <1>3, NextIndexOK
<1>5. /\ eliminated' \in SUBSET Aux
      /\ FormOK(st', eliminated') /\ Consistent(st', eliminated')
      /\ AllActive(st') /\ Basic(st) \ {index} \subseteq Basic(st')
      /\ InBounds(st) => InBounds(st')
  <2>1. CASE index \in Aux
    <3>1. index \in Basic(st)
      BY <1>1, <1>4, <2>1
    <3>2. EliminatedOK(st, eliminated, index, st')
      <4>1. st' \in Eliminated(st, index)
        BY <2>1 DEF EliminateAux
      <4>2. eliminated \in SUBSET Var
        BY <1>1, <1>2
      <4> QED BY <1>1, <3>1, <4>1, <4>2, EliminatedIsOK
    <3>3. eliminated' = IF NonBasic(st', index) /\ FixedAtZero(st', index)
                        THEN eliminated \cup {index} ELSE eliminated
      BY <2>1 DEF EliminateAux
    <3> QED BY <1>1, <2>1, <3>2, <3>3 DEF EliminatedOK, AllActive
  <2>2. CASE index \notin Aux
    <3>1. st' = st /\ eliminated' = eliminated
      BY <2>2 DEF EliminateAux
    <3> QED BY <1>1, <3>1
  <2> QED BY <2>1, <2>2
<1>6. CASE LastVariable
  <2>1. pc' = "loop" /\ preprocessed' = st'
    BY <1>6 DEF EliminateAux
  <2>2. TypeForm' /\ StartForm' /\ StoredForm'
    BY <1>4, <1>5, <2>1 DEF TypeForm, StartForm, StoredForm, Started
  <2>3. LpForm' /\ AnswerForm'
    BY <2>1 DEF LpForm, AnswerForm, RefutationsRight, LpSolutionKept
  <2>4. ValuesForm => ValuesForm'
    BY <1>1, <1>5, <2>1 DEF ValuesForm, Started
  <2> QED BY <2>2, <2>3, <2>4 DEF Preserved, IInv
<1>7. CASE ~LastVariable
  <2>1. pc' = "eliminating" /\ index' = index + 1
    BY <1>1, <1>4, <1>7 DEF EliminateAux
  <2>2. \A y \in Aux : y >= index' => y \in Basic(st')
    BY <1>1, <1>2, <1>4, <1>5, <2>1
  <2>3. TypeForm' /\ StartForm' /\ StoredForm'
    BY <1>4, <1>5, <2>1, <2>2 DEF TypeForm, StartForm, StoredForm, Started, Looping
  <2>4. LpForm' /\ AnswerForm'
    BY <2>1 DEF LpForm, AnswerForm, RefutationsRight, LpSolutionKept
  <2>5. ValuesForm => ValuesForm'
    BY <1>1, <1>5, <2>1 DEF ValuesForm, Started, Looping
  <2> QED BY <2>3, <2>4, <2>5 DEF Preserved, IInv
<1> QED BY <1>6, <1>7

\* What the main loop may rely on.
LEMMA InLoop ==
  ASSUME IInv, pc = "loop"
  PROVE  /\ index \in Var /\ eliminated \in SUBSET Aux /\ eliminated \in SUBSET Var
         /\ FormOK(st, eliminated) /\ Consistent(st, eliminated)
         /\ FormOK(preprocessed, eliminated) /\ Consistent(preprocessed, eliminated)
         /\ AllActive(preprocessed)
         /\ ValuesForm => InBounds(st) /\ InBounds(preprocessed)
BY SimplexAssumption
   DEF IInv, TypeForm, StoredForm, ValuesForm, Started, Looping

\* An update of a bound.
LEMMA UpdateBoundOK ==
  ASSUME IInv, UpdateBound
  PROVE  Preserved
<1>1. /\ pc = "loop" /\ index' = index /\ eliminated' = eliminated /\ preprocessed' = preprocessed
  BY DEF UpdateBound
<1>2. PICK u \in Updates :
        /\ Tighter(st, u.var, u.side, u.val) /\ ~MergedB(st, u.var)
        /\ \E o \in SetBound(st, u.var, u.side, u.val) : st' = o.state /\ pc' = After(o, "loop")
  BY DEF UpdateBound
<1>3. PICK o \in SetBound(st, u.var, u.side, u.val) : st' = o.state /\ pc' = After(o, "loop")
  BY <1>2
<1>4. u.var \in Var /\ u.side \in {"lower", "upper"} /\ u.val \in Int
  BY SimplexAssumption
<1>5. OutcomeOK(st, eliminated, o)
  BY <1>1, <1>2, <1>4, InLoop, SetBoundOK
<1>6. /\ pc' \in {"loop", "conflict", "error"} /\ FormOK(st', eliminated')
      /\ pc' # "conflict" => Consistent(st', eliminated')
      /\ InBounds(st) /\ pc' = "loop" => InBounds(st')
  BY <1>1, <1>3, <1>5 DEF OutcomeOK, After
<1>7. TypeForm' /\ StartForm'
  BY <1>1, <1>6, InLoop DEF TypeForm, StartForm, Started
<1>8. StoredForm'
  BY <1>1, <1>6, InLoop DEF StoredForm
<1>9. LpForm' /\ AnswerForm'
  BY <1>6 DEF LpForm, AnswerForm, RefutationsRight, LpSolutionKept
<1>10. ValuesForm => ValuesForm'
  BY <1>1, <1>6, InLoop DEF ValuesForm, Started, Looping
<1> QED BY <1>7, <1>8, <1>9, <1>10 DEF Preserved, IInv

\* A solution is accepted.
LEMMA SatFoundOK ==
  ASSUME IInv, SatFound
  PROVE  Preserved
<1>1. /\ pc = "loop" /\ pc' = "sat" /\ st' = st /\ index' = index /\ eliminated' = eliminated
      /\ AllVarsWithinBounds(st) /\ AllRelusHold(st)
  BY DEF SatFound
<1>2. TypeForm' /\ StartForm' /\ StoredForm'
  BY <1>1, InLoop DEF TypeForm, StartForm, StoredForm, Started, Looping
<1>3. LpForm' /\ AnswerForm'
  BY <1>1 DEF LpForm, AnswerForm, RefutationsRight, LpSolutionKept
<1>4. ValuesForm => ValuesForm'
  BY <1>1, InLoop DEF ValuesForm, Started, Looping
<1> QED BY <1>2, <1>3, <1>4 DEF Preserved, IInv

\* One variable of a pair was given a value, and the search goes on.
LEMMA FixedOK ==
  ASSUME IInv, pc = "loop", NEW x \in Var, x \notin Aux, NEW v \in Int,
         InBounds(st) => st.lower[x] <= v /\ v <= st.upper[x],
         st' \in FixBrokenReluVariable(st, x, v),
         pc' = pc, preprocessed' = preprocessed, eliminated' = eliminated, index' = index
  PROVE  Preserved
<1>1. x \notin eliminated /\ st \in States
  BY InLoop DEF FormOK
<1>2. Moved(st, st', x, v, eliminated)
  BY <1>1, InLoop, FixMoves
<1>3. FormOK(st', eliminated) /\ Consistent(st', eliminated)
  BY <1>2, InLoop, MovedConsistent DEF Moved
<1>4. InBounds(st) => InBounds(st')
  BY <1>1, <1>2, MovedInBounds
<1>5. TypeForm' /\ StartForm' /\ StoredForm'
  BY <1>3, InLoop DEF TypeForm, StartForm, StoredForm, Started
<1>6. LpForm' /\ AnswerForm'
  BY DEF LpForm, AnswerForm, RefutationsRight, LpSolutionKept
<1>7. ValuesForm => ValuesForm'
  BY <1>4, InLoop DEF ValuesForm, Started
<1> QED BY <1>5, <1>6, <1>7 DEF Preserved, IInv

\* A broken pair is repaired, or there is no solution.
LEMMA FixBrokenReluOK ==
  ASSUME IInv, NEW f \in F, FixBrokenRelu(f)
  PROVE  Preserved
<1> DEFINE b == B[f]
<1>1. /\ pc = "loop" /\ AllVarsWithinBounds(st) /\ Broken(st, f)
      /\ index' = index /\ eliminated' = eliminated /\ preprocessed' = preprocessed
  BY DEF FixBrokenRelu
<1>2. /\ f \in Var /\ f \notin Aux /\ b \in Var /\ b \notin Aux /\ st.dissolved[f] = Active
  BY <1>1, PairFacts DEF Broken
<1>3. st \in States /\ FormOK(st, eliminated) /\ Consistent(st, eliminated)
  BY <1>1, InLoop DEF FormOK
<1>4. /\ st.assignment \in [Var -> Int] /\ st.lower \in [Var -> Int] /\ st.upper \in [Var -> Int]
  BY <1>3, StateFields
<1>5. ReluOf(st, f) \in Int
  BY <1>2, <1>4 DEF ReluOf
<1>6. ASSUME InBounds(st)
      PROVE  /\ st.lower[b] <= st.assignment[f] /\ st.assignment[f] <= st.upper[b]
             /\ st.lower[f] <= ReluOf(st, f) /\ ReluOf(st, f) <= st.upper[f]
  <2>1. ~OutOfBounds(st, f) /\ ~OutOfBounds(st, b)
    BY <1>1, <1>2, <1>6 DEF InBounds, AllVarsWithinBounds, NonBasic
  <2>2. st.lower[b] <= st.lower[f] /\ st.upper[f] = st.upper[b]
    BY <1>2, <1>3 DEF Consistent, PairOK
  <2>3. st.lower[f] <= ReluOf(st, f) /\ ReluOf(st, f) <= st.upper[f]
    BY <1>2, <1>3, <2>1, ReluOfInBounds
  <2>4. st.lower[f] <= st.assignment[f] /\ st.assignment[f] <= st.upper[f]
    BY <1>2, <1>4, <2>1 DEF OutOfBounds, TooLow, TooHigh
  <2> QED BY <1>2, <1>4, <2>2, <2>3, <2>4
<1>7. CASE Movable(st, b, st.assignment[f])
  <2>1. st' \in FixBrokenReluVariable(st, b, st.assignment[f]) /\ pc' = pc
    BY <1>7 DEF FixBrokenRelu
  <2>2. st.assignment[f] \in Int
    BY <1>2, <1>4
  <2> QED BY <1>1, <1>2, <1>6, <2>1, <2>2, FixedOK
<1>8. CASE ~Movable(st, b, st.assignment[f]) /\ Movable(st, f, ReluOf(st, f))
  <2>1. st' \in FixBrokenReluVariable(st, f, ReluOf(st, f)) /\ pc' = pc
    BY <1>8 DEF FixBrokenRelu
  <2> QED BY <1>1, <1>2, <1>5, <1>6, <2>1, FixedOK
<1>9. CASE ~Movable(st, b, st.assignment[f]) /\ ~Movable(st, f, ReluOf(st, f))
  <2>1. pc' = "infeasible" /\ st' = st
    BY <1>9 DEF FixBrokenRelu
  <2>2. \A t \in Feasible(st) : t.assignment[f] # ReluOf(t, f)
    BY <1>1, <1>3, <1>9, UnmovableInfeasible
  <2>3. Feasible(st)' = Feasible(st)
    BY <1>1, <2>1 DEF Feasible, LpColumns
  <2>4. RefutationsRight'
    <3>1. Broken(st', f) /\ \A t \in Feasible(st)' : ~(t.assignment[f] = ReluOf(t, f))
      BY <1>1, <2>1, <2>2, <2>3
    <3> QED BY <2>1, <3>1 DEF RefutationsRight
  <2>5. LpForm' /\ AnswerForm'
    BY <2>1, <2>4 DEF LpForm, AnswerForm, LpSolutionKept
  <2>6. TypeForm' /\ StartForm' /\ StoredForm'
    BY <1>1, <2>1, InLoop DEF TypeForm, StartForm, StoredForm, Started, Looping
  <2>7. ValuesForm => ValuesForm'
    BY <1>1, <2>1, InLoop DEF ValuesForm, Started, Looping
  <2> QED BY <2>5, <2>6, <2>7 DEF Preserved, IInv
<1> QED BY <1>7, <1>8, <1>9

\* The LP is stated.
LEMMA FixOutOfBoundsOK ==
  ASSUME IInv, FixOutOfBounds
  PROVE  Preserved
<1>1. /\ pc = "loop" /\ pc' = "solving" /\ st' = st /\ index' = index
      /\ eliminated' = eliminated /\ preprocessed' = preprocessed
  BY DEF FixOutOfBounds
<1>2. PICK slacks \in {{}, ActivePairs(st)} :
        lp' = [slacks |-> slacks, tableau |-> LpTable(st, slacks),
               feasible |-> \E t \in Feasible(st) : SlacksHold(t, slacks)]
  BY DEF FixOutOfBounds
<1>3. slacks \in SUBSET ActivePairs(st) /\ ActivePairs(st) \subseteq F
  BY DEF ActivePairs
<1>4. LpTableOK(LpTable(st, slacks), st, slacks)
  <2>1. st \in States /\ BasisForm(st.tableau)
    BY <1>1, InLoop DEF FormOK
  <2> QED BY <1>3, <2>1, LpTableIsOK
<1>5. lp'.slacks = slacks /\ lp'.tableau = LpTable(st, slacks)
  BY <1>2
<1>6. ~lp'.feasible => Infeasible(st)
  <2> SUFFICES ASSUME ~lp'.feasible, NEW t \in Feasible(st)
               PROVE  \E f \in ActivePairs(st) : t.assignment[f] # ReluOf(t, f)
    BY DEF Infeasible
  <2>1. ~SlacksHold(t, slacks)
    BY <1>2
  <2> QED BY <1>1, <1>3, <2>1, InLoop, NoSlacksInfeasible
<1>7. Infeasible(st)' <=> Infeasible(st)
  <2>1. Feasible(st)' = Feasible(st)
    BY <1>1 DEF Feasible, LpColumns
  <2> QED BY <1>1, <2>1 DEF Infeasible
<1>8. LpForm'
  <2>1. lp'.slacks \in SUBSET ActivePairs(st')
    BY <1>1, <1>3, <1>5
  <2>2. LpTableOK(lp.tableau, st, lp.slacks)'
    <3>1. Columns(st)' = Columns(st)
      BY <1>1 DEF Columns, LpColumns
    <3>2. LpVars(st, lp.slacks)' = LpVars(st, slacks)
      BY <1>1, <1>5 DEF LpVars, LpColumns
    <3> QED BY <1>1, <1>4, <1>5, <3>1, <3>2 DEF LpTableOK, Entails
  <2>3. lp' = [slacks |-> lp'.slacks, tableau |-> lp'.tableau, feasible |-> lp'.feasible]
    BY <1>2
  <2> QED BY <1>1, <1>6, <1>7, <2>1, <2>2, <2>3 DEF LpForm
<1>9. AnswerForm'
  BY <1>1 DEF AnswerForm, RefutationsRight, LpSolutionKept
<1>10. TypeForm' /\ StartForm' /\ StoredForm'
  BY <1>1, InLoop DEF TypeForm, StartForm, StoredForm, Started, Looping
<1>11. ValuesForm => ValuesForm'
  BY <1>1, InLoop DEF ValuesForm, Started, Looping
<1> QED BY <1>8, <1>9, <1>10, <1>11 DEF Preserved, IInv

\* What the LP solver's steps may rely on.
LEMMA InSolving ==
  ASSUME IInv, pc = "solving"
  PROVE  /\ index \in Var /\ eliminated \in SUBSET Aux /\ eliminated \in SUBSET Var
         /\ FormOK(st, eliminated) /\ Consistent(st, eliminated) /\ st \in States
         /\ FormOK(preprocessed, eliminated) /\ Consistent(preprocessed, eliminated)
         /\ AllActive(preprocessed)
         /\ ValuesForm => InBounds(st) /\ InBounds(preprocessed)
         /\ lp.slacks \in SUBSET ActivePairs(st) /\ lp.slacks \in SUBSET F
         /\ lp = [slacks |-> lp.slacks, tableau |-> lp.tableau, feasible |-> lp.feasible]
         /\ LpTableOK(lp.tableau, st, lp.slacks)
         /\ ~lp.feasible => Infeasible(st)
BY SimplexAssumption
   DEF IInv, TypeForm, StoredForm, ValuesForm, LpForm, Started, Looping, FormOK, ActivePairs

\* A pivot of the LP solver.
LEMMA LpPivotKeeps ==
  ASSUME IInv, LpPivot
  PROVE  Preserved
<1>1. /\ pc = "solving" /\ pc' = pc /\ st' = st /\ index' = index
      /\ eliminated' = eliminated /\ preprocessed' = preprocessed
  BY DEF LpPivot
<1>2. PICK y \in Basic(lp), x \in LpVariables :
        x # y /\ UnitAt(lp, y, x) /\ lp' = Pivot(lp, x, y)
  BY DEF LpPivot
<1> DEFINE T == Pivoted(lp.tableau, x, y)
<1>3. lp' = [lp EXCEPT !.tableau = T]
  BY <1>2, PivotIsPivoted
<1>4. LpTableOK(T, st, lp.slacks)
  <2>1. y \in DOMAIN lp.tableau /\ x \in LpVars(st, lp.slacks) \ {y} /\ lp.tableau[y][x] \in {-1, 1}
    BY <1>2 DEF Basic, LpVariables, LpVars, UnitAt
  <2> QED BY <1>1, <2>1, InSolving, LpPivotOK
<1> HIDE DEF T
<1>5. lp' = [slacks |-> lp.slacks, tableau |-> T, feasible |-> lp.feasible]
  <2>1. lp = [slacks |-> lp.slacks, tableau |-> lp.tableau, feasible |-> lp.feasible]
    BY <1>1, InSolving
  <2> QED BY <1>3, <2>1
<1>6. lp'.slacks = lp.slacks /\ lp'.tableau = T /\ lp'.feasible = lp.feasible
  BY <1>5
<1>7. LpForm'
  <2>1. lp'.slacks \in SUBSET ActivePairs(st')
    BY <1>1, <1>6, InSolving
  <2>2. LpTableOK(lp.tableau, st, lp.slacks)'
    <3>1. Columns(st)' = Columns(st)
      BY <1>1 DEF Columns, LpColumns
    <3>2. LpVars(st, lp.slacks)' = LpVars(st, lp.slacks)
      BY <1>1, <1>6 DEF LpVars, LpColumns
    <3> QED BY <1>1, <1>4, <1>6, <3>1, <3>2 DEF LpTableOK, Entails
  <2>3. Infeasible(st)' <=> Infeasible(st)
    <3>1. Feasible(st)' = Feasible(st)
      BY <1>1 DEF Feasible, LpColumns
    <3> QED BY <1>1, <3>1 DEF Infeasible
  <2>4. ~lp'.feasible => Infeasible(st)
    BY <1>1, <1>6, InSolving
  <2> QED BY <1>1, <1>5, <1>6, <2>1, <2>2, <2>3, <2>4 DEF LpForm
<1>8. AnswerForm'
  BY <1>1 DEF AnswerForm, RefutationsRight, LpSolutionKept
<1>9. TypeForm' /\ StartForm' /\ StoredForm'
  BY <1>1, InSolving DEF TypeForm, StartForm, StoredForm, Started, Looping
<1>10. ValuesForm => ValuesForm'
  BY <1>1, InSolving DEF ValuesForm, Started, Looping
<1> QED BY <1>7, <1>8, <1>9, <1>10 DEF Preserved, IInv

\* A solution of the LP solver is taken over.
LEMMA LpSolutionFoundOK ==
  ASSUME IInv, LpSolutionFound
  PROVE  Preserved
<1>1. /\ pc = "solving" /\ index' = index /\ eliminated' = eliminated
      /\ preprocessed' = preprocessed
      /\ pc' = IF AllVarsWithinBounds(st') THEN "loop" ELSE "rejected"
  BY DEF LpSolutionFound
<1>2. PICK a \in LpSolutions : st' \in Extracted(a)
  BY DEF LpSolutionFound
<1>3. SolvesLp(a)
  BY <1>1, InSolving, LpSolutionSolves
<1>4. ExtractedOK(st')
  BY <1>1, <1>2, <1>3, InSolving, ExtractedIsOK
<1>5. pc' = "loop" /\ FormOK(st', eliminated) /\ (InBounds(st) => InBounds(st'))
  BY <1>1, <1>4 DEF ExtractedOK
<1>6. Consistent(st', eliminated)
  BY <1>1, <1>4, InSolving DEF ExtractedOK, Consistent, PairOK
<1>7. TypeForm' /\ StartForm' /\ StoredForm'
  BY <1>1, <1>5, <1>6, InSolving DEF TypeForm, StartForm, StoredForm, Started
<1>8. LpForm' /\ AnswerForm'
  BY <1>5 DEF LpForm, AnswerForm, RefutationsRight, LpSolutionKept
<1>9. ValuesForm => ValuesForm'
  BY <1>1, <1>5, InSolving DEF ValuesForm, Started
<1> QED BY <1>7, <1>8, <1>9 DEF Preserved, IInv

\* The LP solver finds no solution.
LEMMA LpNoSolutionOK ==
  ASSUME IInv, LpNoSolution
  PROVE  Preserved
<1>1. /\ pc = "solving" /\ pc' = "refuted" /\ ~lp.feasible /\ st' = st /\ index' = index
      /\ eliminated' = eliminated /\ preprocessed' = preprocessed
  BY DEF LpNoSolution
<1>2. Infeasible(st)
  BY <1>1, InSolving
<1>3. Feasible(st)' = Feasible(st)
  BY <1>1 DEF Feasible, LpColumns
<1>4. RefutationsRight'
  <2>1. \A t \in Feasible(st)' : \E f \in ActivePairs(st') : ~(t.assignment[f] = ReluOf(t, f))
    BY <1>1, <1>2, <1>3 DEF Infeasible
  <2> QED BY <1>1, <2>1 DEF RefutationsRight
<1>5. LpForm' /\ AnswerForm'
  BY <1>1, <1>4 DEF LpForm, AnswerForm, LpSolutionKept
<1>6. TypeForm' /\ StartForm' /\ StoredForm'
  BY <1>1, InSolving DEF TypeForm, StartForm, StoredForm, Started, Looping
<1>7. ValuesForm => ValuesForm'
  BY <1>1, InSolving DEF ValuesForm, Started, Looping
<1> QED BY <1>5, <1>6, <1>7 DEF Preserved, IInv

\* A restoration begins with the stored tableau, in which no pair is dissolved.
LEMMA RestoreOK ==
  ASSUME IInv, Restore
  PROVE  Preserved
<1>1. /\ pc \in {"loop", "solving", "rejected"} /\ pc' = "restoring" /\ st' = preprocessed
      /\ index' = 0 /\ eliminated' = eliminated /\ preprocessed' = preprocessed
  BY DEF Restore
<1>2. PICK keep \in KeepBasics :
        backup' = [keep |-> keep, basics |-> Basic(st), lower |-> st.lower,
                   upper |-> st.upper, dissolved |-> st.dissolved]
  BY DEF Restore
<1>3. /\ FormOK(st, eliminated) /\ Consistent(st, eliminated) /\ eliminated \in SUBSET Aux
      /\ FormOK(preprocessed, eliminated) /\ Consistent(preprocessed, eliminated)
      /\ AllActive(preprocessed) /\ (ValuesForm => InBounds(preprocessed))
  BY <1>1 DEF IInv, TypeForm, StoredForm, ValuesForm, Started, Looping
<1>4. BackupOK'
  <2>1. /\ Basic(st) \in SUBSET Var /\ st.lower \in [Var -> Int] /\ st.upper \in [Var -> Int]
        /\ st.dissolved \in [F -> Phases]
    BY <1>3, StateFields DEF FormOK
  <2>2. backup' \in [keep : BOOLEAN, basics : SUBSET Var, lower : [Var -> Int],
                     upper : [Var -> Int], dissolved : [F -> Phases]]
    BY <1>2, <2>1, SimplexAssumption
  <2>3. \A f \in F : PairOK(backup', f)
    BY <1>2, <1>3 DEF Consistent, PairOK
  <2> QED BY <2>2, <2>3 DEF BackupOK
<1>5. Pending(st)'
  BY <1>1, <1>3 DEF Pending, AllActive, Active
<1>6. backup'.keep \in KeepBasics
  BY <1>2
<1>7. TypeForm' /\ StartForm' /\ StoredForm'
  BY <1>1, <1>3, <1>4, <1>5, <1>6, VarFinite DEF TypeForm, StartForm, StoredForm, Started
<1>8. LpForm' /\ AnswerForm'
  BY <1>1 DEF LpForm, AnswerForm, RefutationsRight, LpSolutionKept
<1>9. ValuesForm => ValuesForm'
  BY <1>1, <1>3 DEF ValuesForm, Started
<1> QED BY <1>7, <1>8, <1>9 DEF Preserved, IInv

\* The bounds of one variable are asserted again.
LEMMA ReassertOK ==
  ASSUME IInv, Reassert
  PROVE  Preserved
<1>1. pc = "restoring" /\ NextIndex /\ eliminated' = eliminated /\ preprocessed' = preprocessed
  BY DEF Reassert
<1>2. PICK o \in Reasserted(st, index) :
        /\ st' = o.state
        /\ pc' = After(o, IF ~LastVariable THEN "restoring"
                          ELSE IF backup.keep THEN "adjusting" ELSE "loop")
  BY DEF Reassert
<1>3. /\ index \in Var /\ eliminated \in SUBSET Aux
      /\ FormOK(st, eliminated) /\ Consistent(st, eliminated)
      /\ FormOK(preprocessed, eliminated) /\ Consistent(preprocessed, eliminated)
      /\ AllActive(preprocessed)
      /\ BackupOK /\ Pending(st) /\ backup.keep \in KeepBasics
      /\ ValuesForm => InBounds(st) /\ InBounds(preprocessed)
  BY <1>1 DEF IInv, TypeForm, StoredForm, ValuesForm, Started, Looping
<1>4. OutcomeOK(st, eliminated, o) /\ (o.thrown = "NONE" => Pending(o.state))
  BY <1>3, ReassertedOK
<1>5. index' \in Var
  BY <1>1, <1>3, NextIndexOK
<1>6. /\ pc' \in {"restoring", "adjusting", "loop", "conflict", "error"}
      /\ pc' \in {"restoring", "adjusting", "loop"} => o.thrown = "NONE"
      /\ pc' = "conflict" => o.thrown = "VIOLATION"
      /\ pc' = "adjusting" => backup.keep
  <2>1. CASE o.thrown = "NONE"
    BY <1>2, <2>1 DEF After
  <2>2. CASE o.thrown # "NONE"
    BY <1>2, <1>4, <2>2 DEF After, OutcomeOK
  <2> QED BY <2>1, <2>2
<1>7. /\ FormOK(st', eliminated')
      /\ pc' # "conflict" => Consistent(st', eliminated')
      /\ InBounds(st) /\ pc' \notin {"conflict", "error"} => InBounds(st')
  <2>1. pc' # "conflict" => o.thrown # "VIOLATION"
    <3>1. CASE o.thrown = "VIOLATION"
      BY <1>2, <3>1 DEF After
    <3> QED BY <3>1
  <2> QED BY <1>1, <1>2, <1>4, <1>6, <2>1 DEF OutcomeOK
<1>8. TypeForm' /\ StartForm'
  BY <1>1, <1>3, <1>5, <1>6, <1>7 DEF TypeForm, StartForm, Started
<1>9. StoredForm'
  <2>1. pc' = "adjusting" => TRUE \in KeepBasics
    <3>1. backup.keep \in BOOLEAN
      BY <1>3 DEF BackupOK
    <3>2. CASE backup.keep
      <4>1. backup.keep = TRUE
        BY <3>1, <3>2
      <4> QED BY <1>3, <4>1
    <3> QED BY <1>6, <3>2
  <2>2. pc' = "restoring" => BackupOK' /\ Pending(st)' /\ backup'.keep \in KeepBasics
    <3> SUFFICES ASSUME pc' = "restoring"
                 PROVE  BackupOK' /\ Pending(st)' /\ backup'.keep \in KeepBasics
      OBVIOUS
    <3>1. backup' = backup
      BY DEF Reassert
    <3>2. Pending(o.state)
      BY <1>4, <1>6
    <3> QED BY <1>2, <1>3, <3>1, <3>2 DEF BackupOK, Pending
  <2> QED BY <1>1, <1>3, <2>1, <2>2 DEF StoredForm
<1>10. LpForm' /\ AnswerForm'
  BY <1>6 DEF LpForm, AnswerForm, RefutationsRight, LpSolutionKept
<1>11. ValuesForm => ValuesForm'
  BY <1>1, <1>3, <1>6, <1>7 DEF ValuesForm, Started, Looping
<1> QED BY <1>8, <1>9, <1>10, <1>11 DEF Preserved, IInv

\* One variable of the basis before the restoration is made basic again.
LEMMA AdjustBasicOK ==
  ASSUME IInv, AdjustBasic
  PROVE  Preserved
<1>1. /\ pc = "adjusting" /\ NextIndex /\ eliminated' = eliminated
      /\ preprocessed' = preprocessed /\ pc' \in {"adjusting", "loop"}
  BY DEF AdjustBasic
<1>2. /\ index \in Var /\ eliminated \in SUBSET Aux
      /\ FormOK(st, eliminated) /\ Consistent(st, eliminated)
      /\ FormOK(preprocessed, eliminated) /\ Consistent(preprocessed, eliminated)
      /\ AllActive(preprocessed) /\ TRUE \in KeepBasics
      /\ ValuesForm => InBounds(st) /\ InBounds(preprocessed)
  BY <1>1 DEF IInv, TypeForm, StoredForm, ValuesForm, Started, Looping
<1>3. index' \in Var
  BY <1>1, <1>2, NextIndexOK
<1>4. /\ FormOK(st', eliminated) /\ Consistent(st', eliminated)
      /\ InBounds(st) /\ RepairRight => InBounds(st')
  <2> DEFINE L == Leaving(st, index, backup.basics)
  <2>1. CASE L = {}
    <3>1. st' = st
      BY <2>1 DEF AdjustBasic
    <3> QED BY <1>2, <3>1
  <2>2. CASE L # {}
    <3>1. PICK y \in L : st' = Enforced(Pivot(st, index, y), y)
      BY <2>2 DEF AdjustBasic
    <3>2. y \in Basic(st) /\ index \in Var \ {y} /\ UnitAt(st, y, index)
      BY <1>2 DEF Leaving
    <3>3. /\ AdjustedOK(st, st', eliminated)
          /\ InBounds(st) /\ RepairsRight(st, index, y) => InBounds(st')
      BY <1>2, <3>1, <3>2, EnforcedOK
    <3>4. RepairRight => RepairsRight(st, index, y)
      BY <1>1 DEF RepairRight
    <3> QED BY <3>3, <3>4 DEF AdjustedOK
  <2> QED BY <2>1, <2>2
<1>5. TypeForm' /\ StartForm' /\ StoredForm'
  BY <1>1, <1>2, <1>3, <1>4 DEF TypeForm, StartForm, StoredForm, Started
<1>6. LpForm' /\ AnswerForm'
  BY <1>1 DEF LpForm, AnswerForm, RefutationsRight, LpSolutionKept
<1>7. ValuesForm /\ RepairRight => ValuesForm'
  BY <1>1, <1>2, <1>4 DEF ValuesForm, Started
<1> QED BY <1>5, <1>6, <1>7 DEF Preserved, IInv

\* A step that changes nothing.
LEMMA StutterOK ==
  ASSUME IInv, UNCHANGED vars
  PROVE  Preserved
<1>1. /\ pc' = pc /\ st' = st /\ preprocessed' = preprocessed /\ eliminated' = eliminated
      /\ lp' = lp /\ backup' = backup /\ index' = index
  BY DEF vars
<1>2. Feasible(st)' = Feasible(st)
  BY <1>1 DEF Feasible, LpColumns
<1>3. TypeForm' /\ StartForm' /\ StoredForm'
  BY <1>1 DEF IInv, TypeForm, StartForm, StoredForm, BackupOK, Pending
<1>4. LpForm'
  <2>1. LpTableOK(lp.tableau, st, lp.slacks)' <=> LpTableOK(lp.tableau, st, lp.slacks)
    <3>1. Columns(st)' = Columns(st)
      BY <1>1 DEF Columns, LpColumns
    <3>2. LpVars(st, lp.slacks)' = LpVars(st, lp.slacks)
      BY <1>1 DEF LpVars, LpColumns
    <3> QED BY <1>1, <3>1, <3>2 DEF LpTableOK, Entails
  <2>2. Infeasible(st)' <=> Infeasible(st)
    BY <1>1, <1>2 DEF Infeasible
  <2> QED BY <1>1, <2>1, <2>2 DEF IInv, LpForm
<1>5. AnswerForm'
  BY <1>1, <1>2 DEF IInv, AnswerForm, RefutationsRight, LpSolutionKept
<1>6. ValuesForm => ValuesForm'
  BY <1>1 DEF ValuesForm
<1> QED BY <1>3, <1>4, <1>5, <1>6 DEF Preserved, IInv

\* Every step keeps the invariant, and the bounds if its repairs are right.
LEMMA NextOK ==
  ASSUME IInv, [Next]_vars
  PROVE  Preserved
<1>1. CASE InitialUpdate
  BY <1>1, InitialUpdateOK
<1>2. CASE EliminateAux
  BY <1>2, EliminateAuxOK
<1>3. CASE UpdateBound
  BY <1>3, UpdateBoundOK
<1>4. CASE SatFound
  BY <1>4, SatFoundOK
<1>5. CASE \E f \in F : FixBrokenRelu(f)
  BY <1>5, FixBrokenReluOK
<1>6. CASE FixOutOfBounds
  BY <1>6, FixOutOfBoundsOK
<1>7. CASE LpPivot
  BY <1>7, LpPivotKeeps
<1>8. CASE LpSolutionFound
  BY <1>8, LpSolutionFoundOK
<1>9. CASE LpNoSolution
  BY <1>9, LpNoSolutionOK
<1>10. CASE Restore
  BY <1>10, RestoreOK
<1>11. CASE Reassert
  BY <1>11, ReassertOK
<1>12. CASE AdjustBasic
  BY <1>12, AdjustBasicOK
<1>13. CASE UNCHANGED vars
  BY <1>13, StutterOK
<1> QED BY <1>1, <1>2, <1>3, <1>4, <1>5, <1>6, <1>7, <1>8, <1>9, <1>10, <1>11, <1>12, <1>13
        DEF Next

-----------------------------------------------------------------------------
(***************************************************************************)
(* What follows from the invariant.                                        *)
(***************************************************************************)
\* The assignment satisfies the rows, so also the equations.
LEMMA FormEquations ==
  ASSUME TypeForm
  PROVE  EquationsHold
<1>1. FormOK(st, eliminated) /\ st.assignment \in [Var -> Int]
  BY StateFields DEF TypeForm, FormOK
<1>2. Reading(st, st.assignment) = [x \in Var |-> Value(st, x)]
  BY DEF Reading, Value
<1>3. \A y \in Aux : Dot(Equations[y], Reading(st, st.assignment), Var) = 0
  BY <1>1 DEF FormOK, RowsEntail
<1>4. \A y \in Basic(st) : Dot(st.tableau[y], st.assignment, Var) = 0
  BY <1>1 DEF FormOK, RowsZero, Basic
<1> QED BY <1>2, <1>3, <1>4 DEF EquationsHold

\* The size of a union of disjoint sets.
LEMMA DisjointCount ==
  ASSUME NEW S, NEW T, IsFiniteSet(S), IsFiniteSet(T), S \cap T = {}
  PROVE  IsFiniteSet(S \cup T) /\ Cardinality(S \cup T) = Cardinality(S) + Cardinality(T)
<1>1. Cardinality(S \cap T) = 0
  BY FS_EmptySet
<1>2. /\ IsFiniteSet(S \cup T)
      /\ Cardinality(S \cup T) = Cardinality(S) + Cardinality(T) - Cardinality(S \cap T)
  BY FS_Union
<1>3. Cardinality(S) \in Nat /\ Cardinality(T) \in Nat
  BY FS_CardinalityType
<1> QED BY <1>1, <1>2, <1>3

\* The variables b of the merged pairs.
MergedBs(s) == {x \in Var : MergedB(s, x)}

\* There is one for each merged pair.
LEMMA MergedCount ==
  ASSUME NEW s
  PROVE  /\ IsFiniteSet(MergedBs(s))
         /\ Cardinality(MergedBs(s)) = Cardinality(MergedPairs(s))
<1> DEFINE g == [f \in MergedPairs(s) |-> B[f]]
<1>1. F \subseteq Var /\ \A e, f \in F : B[e] = B[f] => e = f
  BY SimplexAssumption
<1>2. IsFiniteSet(MergedPairs(s)) /\ IsFiniteSet(MergedBs(s))
  <2>1. MergedPairs(s) \subseteq Var /\ MergedBs(s) \subseteq Var
    BY <1>1 DEF MergedPairs, MergedBs
  <2> QED BY <2>1, VarFinite, FS_Subset
<1>3. g \in Bijection(MergedPairs(s), MergedBs(s))
  <2>1. \A f \in MergedPairs(s) : f \in F /\ g[f] = B[f] /\ B[f] \in MergedBs(s)
    BY PairFacts DEF MergedPairs, MergedBs, MergedB
  <2>2. ASSUME NEW x \in MergedBs(s)
        PROVE  \E f \in MergedPairs(s) : g[f] = x
    <3>1. IsB(x) /\ s.dissolved[PairOf(x)] = "MERGE"
      BY DEF MergedBs, MergedB
    <3>2. PICK f \in F : B[f] = x
      BY <3>1 DEF IsB
    <3>3. f \in MergedPairs(s)
      BY <3>1, <3>2, PairFacts DEF MergedPairs
    <3> QED BY <2>1, <3>2, <3>3
  <2>3. g \in [MergedPairs(s) -> MergedBs(s)]
    BY <2>1
  <2>4. \A e, f \in MergedPairs(s) : g[e] = g[f] => e = f
    BY <1>1, <2>1
  <2> HIDE DEF g
  <2> QED BY <2>2, <2>3, <2>4 DEF Bijection, Injection, Surjection, IsInjective
<1> HIDE DEF g
<1>4. ExistsBijection(MergedPairs(s), MergedBs(s))
  BY <1>3 DEF ExistsBijection
<1> QED BY <1>2, <1>4, FS_Bijection

\* Every variable is basic, eliminated, merged or has a column.
LEMMA FormColumns ==
  ASSUME TypeForm
  PROVE  LpWellFormed
<1> DEFINE L == LpColumns(st)
           A == Basic(st)
           E == eliminated
           M == MergedBs(st)
<1>1. /\ FormOK(st, eliminated) /\ st \in States /\ BasisForm(st.tableau)
      /\ eliminated \in SUBSET Aux /\ Aux \subseteq Var
  BY SimplexAssumption DEF TypeForm, FormOK
<1>2. A \subseteq Var /\ \A y \in A : st.tableau[y] \in [Var -> Int]
  BY <1>1, StateFields
<1>3. \A x \in Var : Gone(st, eliminated, x) => NonBasic(st, x) /\ ColumnEmpty(st, x)
  BY <1>1 DEF FormOK, GoneEmpty
<1>4. \A x \in E : ~MergedB(st, x)
  <2>1. ASSUME NEW x \in Aux, IsB(x)
        PROVE  FALSE
    BY <2>1, PairFacts DEF IsB
  <2> QED BY <1>1, <2>1 DEF MergedB
<1>5. /\ Var = L \cup A \cup E \cup M
      /\ L \cap A = {} /\ L \cap E = {} /\ L \cap M = {}
      /\ A \cap E = {} /\ A \cap M = {} /\ E \cap M = {}
  BY <1>1, <1>2, <1>3, <1>4 DEF LpColumns, NonBasic, Gone, MergedBs
<1>6. Cardinality(L) = NumVariables - Cardinality(A) - Cardinality(E) - Cardinality(MergedPairs(st))
  <2>1. IsFiniteSet(L) /\ IsFiniteSet(A) /\ IsFiniteSet(E) /\ IsFiniteSet(M)
    <3>1. L \subseteq Var /\ E \subseteq Var /\ M \subseteq Var /\ IsFiniteSet(Var)
      BY <1>1, VarFinite DEF LpColumns, MergedBs
    <3> HIDE DEF L, A, E, M
    <3> QED BY <1>2, <3>1, FS_Subset
  <2>2. NumVariables \in Nat /\ Cardinality(Var) = NumVariables
    <3>1. NumVariables \in Nat \ {0}
      BY SimplexAssumption
    <3>2. 0 \in Int /\ NumVariables - 1 \in Int
      BY <3>1
    <3>3. Cardinality(0..NumVariables - 1) = IF 0 > NumVariables - 1 THEN 0 ELSE (NumVariables - 1) - 0 + 1
      BY <3>2, FS_Interval
    <3> QED BY <3>1, <3>3 DEF Var
  <2> HIDE DEF L, A, E, M
  <2>3. /\ IsFiniteSet(L \cup A)
        /\ Cardinality(L \cup A) = Cardinality(L) + Cardinality(A)
    BY <1>5, <2>1, DisjointCount
  <2>4. /\ IsFiniteSet(E \cup M)
        /\ Cardinality(E \cup M) = Cardinality(E) + Cardinality(M)
    BY <1>5, <2>1, DisjointCount
  <2>5. (L \cup A) \cap (E \cup M) = {} /\ Var = (L \cup A) \cup (E \cup M)
    BY <1>5
  <2>9. Cardinality((L \cup A) \cup (E \cup M)) = Cardinality(L \cup A) + Cardinality(E \cup M)
    BY <2>3, <2>4, <2>5, DisjointCount
  <2>6. Cardinality(Var) = Cardinality(L) + Cardinality(A) + Cardinality(E) + Cardinality(M)
    <3>1. /\ Cardinality(L) \in Nat /\ Cardinality(A) \in Nat /\ Cardinality(E) \in Nat
          /\ Cardinality(M) \in Nat
      BY <2>1, FS_CardinalityType
    <3> QED BY <2>3, <2>4, <2>5, <2>9, <3>1
  <2>7. Cardinality(M) = Cardinality(MergedPairs(st))
    BY MergedCount DEF M
  <2>8. /\ Cardinality(L) \in Nat /\ Cardinality(A) \in Nat /\ Cardinality(E) \in Nat
        /\ Cardinality(M) \in Nat
    BY <2>1, FS_CardinalityType
  <2> QED BY <2>2, <2>6, <2>7, <2>8
<1>7. \A y \in A : \A x \in Var \ {y} : st.tableau[y][x] # 0 => x \in L
  <2> SUFFICES ASSUME NEW y \in A, NEW x \in Var \ {y}, st.tableau[y][x] # 0
               PROVE  x \in L
    OBVIOUS
  <2>1. NonBasic(st, x)
    BY <1>1 DEF BasisForm, NonBasic, Basic
  <2>2. ~Gone(st, eliminated, x)
    BY <1>3 DEF ColumnEmpty
  <2> QED BY <2>1, <2>2 DEF LpColumns, Gone
<1> QED BY <1>6, <1>7 DEF LpWellFormed

\* What is accepted is a solution if all values are within their bounds.
LEMMA FormAccepted ==
  ASSUME TypeForm, ValuesForm
  PROVE  AcceptedIsSolution
<1> SUFFICES ASSUME pc = "sat" PROVE AcceptedIsSolution
  BY DEF AcceptedIsSolution
<1>1. /\ FormOK(st, eliminated) /\ Consistent(st, eliminated) /\ st \in States
      /\ InBounds(st) /\ AllVarsWithinBounds(st) /\ AllRelusHold(st)
  BY DEF TypeForm, ValuesForm, Started, FormOK
<1>2. /\ st.assignment \in [Var -> Int] /\ st.lower \in [Var -> Int] /\ st.upper \in [Var -> Int]
      /\ st.dissolved \in [F -> Phases]
  BY <1>1, StateFields
<1>3. ASSUME NEW x \in Var
      PROVE  st.lower[x] <= st.assignment[x] /\ st.assignment[x] <= st.upper[x]
  <2>1. ~OutOfBounds(st, x)
    BY <1>1 DEF InBounds, AllVarsWithinBounds, NonBasic
  <2> QED BY <1>2, <2>1 DEF OutOfBounds, TooLow, TooHigh
<1>4. ASSUME NEW f \in F
      PROVE  /\ f \in Var /\ B[f] \in Var /\ PairOK(st, f) /\ Value(st, f) = st.assignment[f]
             /\ Value(st, B[f]) = IF st.dissolved[f] = "MERGE" THEN st.assignment[f]
                                  ELSE st.assignment[B[f]]
  BY <1>1, PairFacts DEF Consistent, Value, MergedB
<1>5. ASSUME NEW x \in Var
      PROVE  Value(st, x) \in st.lower[x]..st.upper[x]
  <2>1. CASE MergedB(st, x)
    <3>1. PICK f \in F : B[f] = x
      BY <2>1 DEF MergedB, IsB
    <3>2. st.dissolved[f] = "MERGE" /\ Value(st, x) = st.assignment[f]
      BY <2>1, <3>1, <1>4, PairFacts DEF MergedB
    <3>3. st.lower[x] <= st.lower[f] /\ st.upper[f] <= st.upper[x] /\ f \in Var
      BY <1>4, <3>1, <3>2 DEF PairOK
    <3>4. st.lower[f] <= st.assignment[f] /\ st.assignment[f] <= st.upper[f]
      BY <1>3, <3>3
    <3> QED BY <1>2, <3>2, <3>3, <3>4
  <2>2. CASE ~MergedB(st, x)
    BY <1>2, <1>3, <2>2 DEF Value
  <2> QED BY <2>1, <2>2
<1>6. ASSUME NEW f \in F
      PROVE  Value(st, f) = IF Value(st, B[f]) > 0 THEN Value(st, B[f]) ELSE 0
  <2> DEFINE b == B[f]
  <2>1. /\ f \in Var /\ b \in Var /\ PairOK(st, f)
        /\ st.assignment[f] \in Int /\ st.assignment[b] \in Int
        /\ st.lower[f] \in Int /\ st.upper[f] \in Int /\ st.upper[b] \in Int
    BY <1>2, <1>4
  <2>2. /\ st.lower[f] <= st.assignment[f] /\ st.assignment[f] <= st.upper[f]
        /\ st.assignment[b] <= st.upper[b] /\ st.lower[f] >= 0
    BY <1>3, <2>1 DEF PairOK
  <2>3. CASE st.dissolved[f] = Active
    <3>1. ~ReluPairIsBroken(st, f)
      BY <1>1, <2>3 DEF AllRelusHold, Broken
    <3>2. Value(st, f) = st.assignment[f] /\ Value(st, b) = st.assignment[b]
      BY <1>4, <2>3 DEF Active
    <3> QED BY <2>1, <2>2, <3>1, <3>2 DEF ReluPairIsBroken
  <2>4. CASE st.dissolved[f] = "SPLIT"
    <3>1. st.upper[f] <= 0 /\ st.upper[b] <= 0
      BY <2>1, <2>4 DEF PairOK
    <3>2. Value(st, f) = st.assignment[f] /\ Value(st, b) = st.assignment[b]
      BY <1>4, <2>4
    <3> QED BY <2>1, <2>2, <3>1, <3>2
  <2>5. CASE st.dissolved[f] = "MERGE"
    <3>1. Value(st, f) = st.assignment[f] /\ Value(st, b) = st.assignment[f]
      BY <1>4, <2>5
    <3> QED BY <2>1, <2>2, <3>1
  <2>6. st.dissolved[f] \in {Active, "SPLIT", "MERGE"}
    BY <1>2 DEF Phases
  <2> QED BY <2>3, <2>4, <2>5, <2>6
<1>7. EquationsHold
  BY FormEquations
<1> QED BY <1>5, <1>6, <1>7 DEF AcceptedIsSolution

-----------------------------------------------------------------------------
(***************************************************************************)
(* The theorems.                                                           *)
(***************************************************************************)
\* The inductive invariant: the tableau is in basis form, whatever satisfies its
\* rows satisfies the equations, the assignment does, the bounds of the pairs
\* agree, and so does what a restoration or the LP solver works on.
THEOREM Invariance == Spec => []IInv
<1>1. Init => IInv
  BY InitForm
<1>2. IInv /\ [Next]_vars => IInv'
  BY NextOK DEF Preserved
<1> QED BY <1>1, <1>2, PTL DEF Spec

\* No pivot, update, merge, elimination, LP solution or restoration leaves an
\* assignment that does not satisfy the equations of the query.
THEOREM EquationsAlwaysHold == Spec => []EquationsHold
<1>1. IInv => EquationsHold
  BY FormEquations DEF IInv
<1> QED BY <1>1, Invariance, PTL

\* addColumns() fills as many columns as it has asked for, and every entry of a
\* row has a column.
THEOREM LpAlwaysWellFormed == Spec => []LpWellFormed
<1>1. IInv => LpWellFormed
  BY FormColumns DEF IInv
<1> QED BY <1>1, Invariance, PTL

\* A solution of the LP solver is never out of bounds when it has been taken
\* over, and so never rejected.
THEOREM SolutionsKept == Spec => []LpSolutionKept
<1>1. IInv => LpSolutionKept
  BY DEF IInv, AnswerForm
<1> QED BY <1>1, Invariance, PTL

\* What fixBrokenRelu() or the LP solver gives up has no solution.
THEOREM RefutationsAlwaysRight == Spec => []RefutationsRight
<1>1. IInv => RefutationsRight
  BY DEF IInv, AnswerForm
<1> QED BY <1>1, Invariance, PTL

\* Unless a restoration repairs a pair with the index of b for its value, all
\* non-basic variables stay within their bounds.
THEOREM ValuesInvariance == Spec /\ []RepairRight => []ValuesForm
<1>1. Init => ValuesForm
  BY InitForm
<1>2. IInv /\ ValuesForm /\ RepairRight /\ [Next]_vars => ValuesForm'
  BY NextOK DEF Preserved
<1> QED BY <1>1, <1>2, Invariance, PTL DEF Spec

\* Only basic variables can be out of bounds, as allVarsWithinBounds() takes for
\* granted.
THEOREM BoundsKept == Spec /\ []RepairRight => []NonBasicInBounds
<1>1. IInv /\ ValuesForm => NonBasicInBounds
  BY DEF IInv, TypeForm, ValuesForm, NonBasicInBounds, InBounds, Started
<1> QED BY <1>1, Invariance, ValuesInvariance, PTL

\* What solve() accepts as SAT is within all bounds, satisfies all pairs and the
\* equations.
THEOREM AcceptedRight == Spec /\ []RepairRight => []AcceptedIsSolution
<1>1. IInv /\ ValuesForm => AcceptedIsSolution
  BY FormAccepted DEF IInv
<1> QED BY <1>1, Invariance, ValuesInvariance, PTL
=============================================================================
