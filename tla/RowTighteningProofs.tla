------------------------ MODULE RowTighteningProofs -------------------------
(***************************************************************************)
(* Proofs about RowTightening: whatever rows are used, in whatever order,  *)
(* and whatever is decided and popped in between, the bounds that are      *)
(* computed from the rows hold in every solution that follows all          *)
(* decisions, and while no pair has been merged their levels are right.    *)
(*                                                                         *)
(* The argument reads the bounds of a state in two ways.  In the first,    *)
(* every level stands for all the decisions made; it is always valid.  In  *)
(* the second, a level stands for that many decisions; it is valid as long *)
(* as no pair has been merged, because a row that a merge has changed uses *)
(* an equality that has no level.  A row gives sound bounds in a reading in*)
(* which those it uses are sound.                                          *)
(*                                                                         *)
(* Without conflict analysis the first reading is all that the search      *)
(* needs: it implements SmtCore, and its answers are right.                *)
(***************************************************************************)
EXTENDS RowTightening, BoundsRefinement, DotProductTheorems

-----------------------------------------------------------------------------
(***************************************************************************)
(* Variables and slack variables.                                          *)
(***************************************************************************)
LEMMA ColumnFacts ==
  /\ IsFiniteSet(Var) /\ IsFiniteSet(F) /\ IsFiniteSet(Column)
  /\ Var \subseteq Column /\ Var \subseteq Int /\ NumVariables \in Nat
  /\ \A f \in F : /\ Slack(f) \in Column /\ Slack(f) \notin Var
                  /\ PairOfSlack(Slack(f)) = f
<1>1. NumVariables \in Nat /\ F \subseteq Var
  BY BoundsAssumption
<1>2. IsFiniteSet(Var) /\ Var \subseteq Int
  BY <1>1, FS_Interval DEF Var
<1>3. IsFiniteSet(F)
  BY <1>1, <1>2, FS_Subset
<1>4. IsFiniteSet(Slacks(F))
  <2>1. \A f \in F : f \in 0..NumVariables - 1
    BY <1>1 DEF Var
  <2>2. Slacks(F) \subseteq 0..2 * NumVariables
    BY <1>1, <2>1 DEF Slacks, Slack
  <2>3. IsFiniteSet(0..2 * NumVariables)
    <3>1. 0 \in Int /\ 2 * NumVariables \in Int
      BY <1>1
    <3> QED BY <3>1, FS_Interval
  <2> QED BY <2>2, <2>3, FS_Subset
<1>5. IsFiniteSet(Column)
  BY <1>2, <1>4, FS_Union DEF Column
<1>6. ASSUME NEW f \in F
      PROVE  Slack(f) \in Column /\ Slack(f) \notin Var /\ PairOfSlack(Slack(f)) = f
  <2>1. f \in 0..NumVariables - 1 /\ NumVariables \in Nat
    BY <1>1 DEF Var
  <2>2. Slack(f) \notin Var /\ PairOfSlack(Slack(f)) = f
    BY <2>1 DEF Slack, Var, PairOfSlack
  <2> QED BY <2>2 DEF Column, Slacks
<1> QED BY <1>1, <1>2, <1>3, <1>5, <1>6 DEF Column

\* A column is a variable or a slack variable.
LEMMA ColumnCases ==
  ASSUME NEW z \in Column, z \notin Var
  PROVE  \E f \in F : z = Slack(f) /\ PairOfSlack(z) = f
BY ColumnFacts DEF Column, Slacks

\* The value that an assignment gives a column: for a slack variable, f - b.
Extended(s) ==
  [z \in Column |-> IF z \in Var THEN s[z]
                    ELSE s[PairOfSlack(z)] - s[B[PairOfSlack(z)]]]

\* It is an integer in every column.
LEMMA ExtendedFacts ==
  ASSUME NEW s \in [Var -> Int]
  PROVE  /\ IntOn(Extended(s), Column)
         /\ \A x \in Var : Extended(s)[x] = s[x]
         /\ \A f \in F : Extended(s)[Slack(f)] = s[f] - s[B[f]]
<1>1. \A x \in Var : Extended(s)[x] = s[x]
  BY ColumnFacts DEF Extended
<1>2. \A f \in F : Extended(s)[Slack(f)] = s[f] - s[B[f]]
  BY ColumnFacts DEF Extended
<1>3. ASSUME NEW z \in Column
      PROVE  Extended(s)[z] \in Int
  <2>1. CASE z \in Var
    BY <2>1, <1>1
  <2>2. CASE z \notin Var
    <3>1. PICK f \in F : z = Slack(f)
      BY <2>2, ColumnCases
    <3>2. s[f] \in Int /\ s[B[f]] \in Int
      BY PairFacts
    <3> QED BY <1>2, <3>1, <3>2
  <2> QED BY <2>1, <2>2
<1> QED BY <1>1, <1>2, <1>3 DEF IntOn

-----------------------------------------------------------------------------
(***************************************************************************)
(* The rows of the LP hold in an assignment that satisfies the equations,  *)
(* if the b's and f's of the merged pairs are equal in it.                 *)
(***************************************************************************)

\* A merge moves the coefficient of b to f.
LEMMA MergedOne ==
  ASSUME NEW e \in [Var -> Int], NEW M \in SUBSET F, NEW f \in M
  PROVE  /\ IntOn(Merged(e, M), Column) /\ IntOn(Merged(e, M \ {f}), Column)
         /\ Merged(e, M)[f] = Merged(e, M \ {f})[f] + Merged(e, M \ {f})[B[f]]
         /\ Merged(e, M)[B[f]] = 0
         /\ \A z \in Column \ {f, B[f]} : Merged(e, M)[z] = Merged(e, M \ {f})[z]
<1>1. ASSUME NEW N \in SUBSET F, NEW z \in Column
      PROVE  Merged(e, N)[z] \in Int
  <2>1. z \in N => e[z] \in Int /\ e[B[z]] \in Int
    BY PairFacts
  <2>2. z \in Var => e[z] \in Int
    OBVIOUS
  <2> QED BY <2>1, <2>2 DEF Merged
<1>2. f \in F /\ f \in Var /\ B[f] \in Var /\ B[f] \notin F /\ f \in Column /\ B[f] \in Column
  BY PairFacts, ColumnFacts
<1>3. \A g \in F : B[g] \notin F /\ (B[g] = B[f] => g = f)
  BY BoundsAssumption
<1>4. e[f] \in Int /\ e[B[f]] \in Int
  BY <1>2
<1>5. Merged(e, M)[f] = e[f] + e[B[f]]
  BY <1>2 DEF Merged
<1>6. Merged(e, M \ {f})[f] = e[f]
  BY <1>2, <1>3 DEF Merged
<1>7. Merged(e, M \ {f})[B[f]] = e[B[f]]
  BY <1>2, <1>3 DEF Merged
<1>8. Merged(e, M)[B[f]] = 0
  BY <1>2, <1>3 DEF Merged
<1>9. ASSUME NEW z \in Column \ {f, B[f]}
      PROVE  Merged(e, M)[z] = Merged(e, M \ {f})[z]
  <2>1. z \in M <=> z \in M \ {f}
    OBVIOUS
  <2>2. (\E g \in M : z = B[g]) <=> (\E g \in M \ {f} : z = B[g])
    OBVIOUS
  <2> QED BY <2>1, <2>2 DEF Merged
<1> QED BY <1>1, <1>4, <1>5, <1>6, <1>7, <1>8, <1>9 DEF IntOn

\* Moving a coefficient between columns of one value does not change the sum.
LEMMA MovedSum ==
  ASSUME NEW C, IsFiniteSet(C), NEW a, IntOn(a, C), NEW r, IntOn(r, C), NEW q, IntOn(q, C),
         NEW x \in C, NEW y \in C, x # y, a[x] = a[y],
         q[x] = r[x] + r[y], q[y] = 0, \A z \in C \ {x, y} : q[z] = r[z]
  PROVE  Dot(q, a, C) = Dot(r, a, C)
<1> DEFINE D == C \ {x}
           E == D \ {y}
<1>1. /\ D = C \ {x} /\ E = D \ {y}
      /\ IsFiniteSet(D) /\ IntOn(a, D) /\ IntOn(r, D) /\ IntOn(q, D) /\ y \in D
      /\ IsFiniteSet(E) /\ IntOn(a, E) /\ IntOn(r, E) /\ IntOn(q, E)
  BY FS_Subset DEF IntOn
<1> HIDE DEF D, E
<1>2. ASSUME NEW p \in {q, r}
      PROVE  Dot(p, a, C) = p[x] * a[x] + Dot(p, a, D)
  <2>1. IntOn(p, C)
    OBVIOUS
  <2> QED BY <1>1, <2>1, DotRemove
<1>3. ASSUME NEW p \in {q, r}
      PROVE  Dot(p, a, D) = p[y] * a[y] + Dot(p, a, E) /\ Dot(p, a, E) \in Int
  <2>1. IsFiniteSet(D) /\ IntOn(p, D) /\ IntOn(a, D) /\ y \in D
    BY <1>1
  <2>2. Dot(p, a, D) = p[y] * a[y] + Dot(p, a, D \ {y}) /\ Dot(p, a, D \ {y}) \in Int
    BY <2>1, DotRemove
  <2> QED BY <1>1, <2>2
<1>4. Dot(q, a, E) = Dot(r, a, E)
  <2>1. \A z \in E : q[z] * a[z] = r[z] * a[z]
    BY <1>1
  <2> QED BY <1>1, <2>1, DotEqual
<1>5. a[x] \in Int /\ r[x] \in Int /\ r[y] \in Int
  BY DEF IntOn
<1>6. \A i, j, k \in Int : (i + j) * k = i * k + j * k
  OBVIOUS
<1>7. q[x] * a[x] = r[x] * a[x] + r[y] * a[y]
  BY <1>5, <1>6
<1>8. q[y] * a[y] = 0
  BY <1>5
<1>9. r[x] * a[x] \in Int /\ r[y] * a[y] \in Int
  BY <1>5
<1> QED BY <1>2, <1>3, <1>4, <1>7, <1>8, <1>9

\* An equation that holds in s still holds when the pairs M have been merged.
LEMMA MergedZero ==
  ASSUME NEW s \in [Var -> Int], NEW e \in [Var -> Int], Dot(e, s, Var) = 0,
         NEW M \in SUBSET F, \A f \in M : s[B[f]] = s[f]
  PROVE  /\ IntOn(Merged(e, M), Column)
         /\ Dot(Merged(e, M), Extended(s), Column) = 0
<1>1. \A N \in SUBSET F : IntOn(Merged(e, N), Column)
  <2>1. ASSUME NEW N \in SUBSET F, NEW z \in Column
        PROVE  Merged(e, N)[z] \in Int
    <3>1. z \in N => e[z] \in Int /\ e[B[z]] \in Int
      BY PairFacts
    <3>2. z \in Var => e[z] \in Int
      OBVIOUS
    <3> QED BY <3>1, <3>2 DEF Merged
  <2> QED BY <2>1 DEF IntOn
<1>2. /\ IsFiniteSet(Column) /\ IsFiniteSet(Var) /\ Var \in SUBSET Column
      /\ IntOn(Extended(s), Column) /\ IsFiniteSet(M)
  BY ColumnFacts, ExtendedFacts, FS_Subset
<1> DEFINE bad == {T \in SUBSET M : Dot(Merged(e, T), Extended(s), Column) # 0}
<1>3. SUFFICES ASSUME bad # {} PROVE FALSE
  BY <1>1
<1>4. PICK X \in bad : \A Y \in bad : Y \subseteq X => Y = X
  <2>1. bad \subseteq SUBSET M OBVIOUS
  <2> HIDE DEF bad
  <2> QED BY <1>2, <1>3, <2>1, MinimalSubset
<1>5. X \in SUBSET M /\ X \in SUBSET F /\ Dot(Merged(e, X), Extended(s), Column) # 0
  OBVIOUS
<1>6. CASE X = {}
  <2>1. ASSUME NEW z \in Column
        PROVE  Merged(e, X)[z] = IF z \in Var THEN e[z] ELSE 0
    BY <1>6 DEF Merged
  <2>2. \A z \in Column \ Var : Merged(e, X)[z] * Extended(s)[z] = 0
    BY <1>2, <2>1 DEF IntOn
  <2>3. Dot(Merged(e, X), Extended(s), Column) = Dot(Merged(e, X), Extended(s), Var)
    BY <1>1, <1>2, <1>5, <2>2, DotSupport
  <2>4. /\ IntOn(Merged(e, X), Var) /\ IntOn(Extended(s), Var)
        /\ IntOn(e, Var) /\ IntOn(s, Var)
    BY <1>1, <1>2, <1>5 DEF IntOn
  <2>5. \A z \in Var : Merged(e, X)[z] * Extended(s)[z] = e[z] * s[z]
    BY <1>2, <2>1, ExtendedFacts
  <2>6. Dot(Merged(e, X), Extended(s), Var) = Dot(e, s, Var)
    BY <1>2, <2>4, <2>5, DotEqual
  <2> QED BY <1>5, <2>3, <2>6
<1>7. CASE X # {}
  <2>1. PICK f \in X : TRUE
    BY <1>7
  <2>2. X \ {f} \in SUBSET F /\ Dot(Merged(e, X \ {f}), Extended(s), Column) = 0
    BY <1>4, <2>1
  <2>3. /\ f \in F /\ f \in Column /\ B[f] \in Column /\ f # B[f]
        /\ f \in Var /\ B[f] \in Var
    BY <1>5, PairFacts, ColumnFacts
  <2>4. Extended(s)[f] = Extended(s)[B[f]]
    BY <2>3, <1>5, ExtendedFacts
  <2>5. /\ Merged(e, X)[f] = Merged(e, X \ {f})[f] + Merged(e, X \ {f})[B[f]]
        /\ Merged(e, X)[B[f]] = 0
        /\ \A z \in Column \ {f, B[f]} : Merged(e, X)[z] = Merged(e, X \ {f})[z]
    BY <1>5, MergedOne
  <2>6. Dot(Merged(e, X), Extended(s), Column)
          = Dot(Merged(e, X \ {f}), Extended(s), Column)
    <3> DEFINE q == Merged(e, X)
               r == Merged(e, X \ {f})
               a == Extended(s)
               b == B[f]
    <3>1. IsFiniteSet(Column) /\ IntOn(a, Column) /\ IntOn(q, Column) /\ IntOn(r, Column)
      BY <1>1, <1>2, <1>5, <2>2
    <3>2. /\ f \in Column /\ b \in Column /\ f # b /\ a[f] = a[b]
          /\ q[f] = r[f] + r[b] /\ q[b] = 0 /\ \A z \in Column \ {f, b} : q[z] = r[z]
      BY <2>3, <2>4, <2>5
    <3> HIDE DEF q, r, a, b
    <3>3. Dot(q, a, Column) = Dot(r, a, Column)
      BY <3>1, <3>2, MovedSum
    <3> QED BY <3>3 DEF q, r, a
  <2> QED BY <1>5, <2>2, <2>6
<1> QED BY <1>6, <1>7

\* The row of a slack variable holds in every assignment.
LEMMA SlackRowZero ==
  ASSUME NEW s \in [Var -> Int], NEW f \in F
  PROVE  /\ IntOn(SlackRow(f), Column)
         /\ Dot(SlackRow(f), Extended(s), Column) = 0
<1> DEFINE r == SlackRow(f)
           a == Extended(s)
           b == B[f]
           k == Slack(f)
           C1 == Column \ {f}
           C2 == C1 \ {b}
           C3 == C2 \ {k}
<1>1. /\ f \in Column /\ b \in Column /\ k \in Column /\ f # b /\ f # k /\ b # k
      /\ f \in Var /\ b \in Var /\ IsFiniteSet(Column) /\ IntOn(a, Column)
  BY PairFacts, ColumnFacts, ExtendedFacts
<1>2. /\ r[f] = 1 /\ r[b] = -1 /\ r[k] = -1
      /\ \A z \in C3 : r[z] = 0
      /\ IntOn(r, Column)
  BY <1>1 DEF SlackRow, IntOn
<1>3. a[k] = a[f] - a[b] /\ a[f] \in Int /\ a[b] \in Int
  BY <1>1, ExtendedFacts DEF IntOn
<1> HIDE DEF r, a, b, k
<1>4. /\ C1 = Column \ {f} /\ C2 = C1 \ {b} /\ C3 = C2 \ {k}
      /\ IsFiniteSet(C1) /\ IntOn(r, C1) /\ IntOn(a, C1) /\ b \in C1
      /\ IsFiniteSet(C2) /\ IntOn(r, C2) /\ IntOn(a, C2) /\ k \in C2
      /\ IsFiniteSet(C3) /\ IntOn(r, C3) /\ IntOn(a, C3)
  BY <1>1, <1>2, FS_Subset DEF IntOn
<1> HIDE DEF C1, C2, C3
<1>5. Dot(r, a, Column) = r[f] * a[f] + Dot(r, a, C1)
  BY <1>1, <1>2, <1>4, DotRemove
<1>6. Dot(r, a, C1) = r[b] * a[b] + Dot(r, a, C2)
  BY <1>4, DotRemove
<1>7. Dot(r, a, C2) = r[k] * a[k] + Dot(r, a, C3)
  BY <1>4, DotRemove
<1>8. Dot(r, a, C3) = 0
  <2>1. \A z \in C3 : r[z] * a[z] = 0
    BY <1>2, <1>4 DEF IntOn
  <2> QED BY <1>4, <2>1, DotZero
<1>9. Dot(r, a, Column) = 0
  BY <1>2, <1>3, <1>5, <1>6, <1>7, <1>8
<1> QED BY <1>2, <1>9 DEF r, a

\* s satisfies the equations of the query.
Linear(s) == s \in [Var -> Int] /\ \A e \in Equations : Dot(e, s, Var) = 0

\* The rows of the LP are finitely many.
LEMMA RowsFinite ==
  ASSUME NEW M \in SUBSET F, NEW S \in SUBSET F
  PROVE  IsFiniteSet({Merged(e, M) : e \in Equations} \cup {SlackRow(f) : f \in S})
<1>1. IsFiniteSet(Equations) /\ IsFiniteSet(S)
  BY RowTighteningAssumption, ColumnFacts, FS_Subset
<1>2. IsFiniteSet({Merged(e, M) : e \in Equations}) /\ IsFiniteSet({SlackRow(f) : f \in S})
  <2>1. /\ [e \in Equations |-> Merged(e, M)] \in Surjection(Equations, {Merged(e, M) : e \in Equations})
        /\ [f \in S |-> SlackRow(f)] \in Surjection(S, {SlackRow(f) : f \in S})
    BY DEF Surjection
  <2> QED BY <1>1, <2>1, FS_Surjection
<1> QED BY <1>2, FS_Union

\* So do all rows of the LP.
LEMMA RowsHold ==
  ASSUME NEW s, Linear(s), NEW M \in SUBSET F, \A f \in M : s[B[f]] = s[f],
         NEW S \in SUBSET F, NEW r \in RowSpace(M, S)
  PROVE  /\ IntOn(r, Column)
         /\ Dot(r, Extended(s), Column) = 0
<1> DEFINE rows == {Merged(e, M) : e \in Equations} \cup {SlackRow(f) : f \in S}
<1>1. PICK w \in [rows -> Multipliers] :
        r = [z \in Column |-> Dot(w, [q \in rows |-> q[z]], rows)]
  BY DEF RowSpace
<1>2. IsFiniteSet(rows)
  BY RowsFinite
<1>3. ASSUME NEW q \in rows
      PROVE  IntOn(q, Column) /\ Dot(q, Extended(s), Column) = 0
  <2>1. CASE \E e \in Equations : q = Merged(e, M)
    <3>1. PICK e \in Equations : q = Merged(e, M)
      BY <2>1
    <3>2. e \in [Var -> Int] /\ s \in [Var -> Int] /\ Dot(e, s, Var) = 0
      BY RowTighteningAssumption DEF Linear
    <3> QED BY <3>1, <3>2, MergedZero
  <2>2. CASE \E f \in S : q = SlackRow(f)
    BY <2>2, SlackRowZero DEF Linear
  <2> QED BY <2>1, <2>2
<1>4. IntOn(w, rows)
  BY RowTighteningAssumption DEF IntOn
<1>5. IsFiniteSet(Column) /\ IntOn(Extended(s), Column)
  BY ColumnFacts, ExtendedFacts DEF Linear
<1>6. r = Combination(w, rows, rows, Column)
  BY <1>1 DEF Combination
<1> HIDE DEF rows
<1> QED BY <1>2, <1>3, <1>4, <1>5, <1>6, CombinationZero

-----------------------------------------------------------------------------
(***************************************************************************)
(* Which columns a row of the table may have.                              *)
(***************************************************************************)
LEMMA RowSpaceZero ==
  ASSUME NEW M \in SUBSET F, NEW S \in SUBSET F, NEW r \in RowSpace(M, S),
         NEW z \in Column, \A e \in Equations : Merged(e, M)[z] = 0,
         \A f \in S : SlackRow(f)[z] = 0
  PROVE  r[z] = 0
<1> DEFINE rows == {Merged(e, M) : e \in Equations} \cup {SlackRow(f) : f \in S}
<1>1. PICK w \in [rows -> Multipliers] :
        r = [y \in Column |-> Dot(w, [q \in rows |-> q[y]], rows)]
  BY DEF RowSpace
<1>2. IsFiniteSet(rows)
  BY RowsFinite
<1>3. \A q \in rows : q[z] = 0
  OBVIOUS
<1> HIDE DEF rows
<1>4. IntOn(w, rows) /\ IntOn([q \in rows |-> q[z]], rows)
  <2>1. \A q \in rows : w[q] \in Multipliers
    BY <1>1
  <2>2. Multipliers \subseteq Int
    BY RowTighteningAssumption
  <2>3. \A q \in rows : w[q] \in Int
    BY <2>1, <2>2
  <2>4. \A q \in rows : [p \in rows |-> p[z]][q] \in Int
    BY <1>3
  <2> QED BY <2>3, <2>4 DEF IntOn
<1>5. \A q \in rows : w[q] * [p \in rows |-> p[z]][q] = 0
  BY <1>3, <1>4 DEF IntOn
<1>6. Dot(w, [q \in rows |-> q[z]], rows) = 0
  BY <1>2, <1>4, <1>5, DotZero
<1> QED BY <1>1, <1>6

\* Rows mention variables and the slack variables of the LP, but no merged b.
LEMMA RowColumns ==
  ASSUME NEW M \in SUBSET F, NEW S \in SUBSET F, M \cap S = {}, NEW r \in RowsOf[<<M, S>>]
  PROVE  /\ r \in RowSpace(M, S)
         /\ \A z \in Column : r[z] \in {-1, 0, 1}
         /\ Support(r) \subseteq Var \cup Slacks(S)
         /\ \A f \in M : B[f] \notin Support(r)
<1>1. <<M, S>> \in {MS \in (SUBSET F) \X (SUBSET F) : MS[1] \cap MS[2] = {}}
  OBVIOUS
<1>2. <<M, S>> \in DOMAIN RowsOf /\ r \in RowSpace(M, S)
  BY <1>1 DEF RowsOf
<1>3. \A z \in Column : r[z] \in {-1, 0, 1}
  BY <1>2, RowTighteningAssumption
<1>4. ASSUME NEW f \in M
      PROVE  B[f] \notin Support(r)
  <2>1. /\ B[f] \in Var /\ B[f] \in Column /\ B[f] \notin F /\ f \in F
        /\ \A g \in F : B[f] = B[g] => g = f
    BY BoundsAssumption, ColumnFacts
  <2>2. \A e \in Equations : Merged(e, M)[B[f]] = 0
    BY <2>1 DEF Merged
  <2>3. \A g \in S : SlackRow(g)[B[f]] = 0
    <3> SUFFICES ASSUME NEW g \in S PROVE SlackRow(g)[B[f]] = 0
      OBVIOUS
    <3>1. B[f] # g /\ B[f] # B[g] /\ B[f] # Slack(g)
      BY <2>1, ColumnFacts
    <3> QED BY <2>1, <3>1 DEF SlackRow
  <2> QED BY <1>2, <2>1, <2>2, <2>3, RowSpaceZero DEF Support
<1>5. ASSUME NEW g \in F, g \notin S
      PROVE  r[Slack(g)] = 0
  <2>1. Slack(g) \in Column /\ Slack(g) \notin Var /\ PairOfSlack(Slack(g)) = g
    BY ColumnFacts
  <2>2. \A e \in Equations : Merged(e, M)[Slack(g)] = 0
    <3>1. Slack(g) \notin M
      BY <2>1, BoundsAssumption
    <3> QED BY <2>1, <3>1 DEF Merged
  <2>3. \A f \in S : SlackRow(f)[Slack(g)] = 0
    <3> SUFFICES ASSUME NEW f \in S PROVE SlackRow(f)[Slack(g)] = 0
      OBVIOUS
    <3>1. Slack(g) # f /\ Slack(g) # B[f] /\ Slack(g) # Slack(f)
      BY <1>5, <2>1, PairFacts, ColumnFacts
    <3> QED BY <2>1, <3>1 DEF SlackRow
  <2> QED BY <1>2, <2>1, <2>2, <2>3, RowSpaceZero
<1>6. Support(r) \subseteq Var \cup Slacks(S)
  BY <1>5 DEF Support, Column, Slacks
<1> QED BY <1>2, <1>3, <1>4, <1>6

-----------------------------------------------------------------------------
(***************************************************************************)
(* The largest of finitely many levels.                                    *)
(***************************************************************************)
LEMMA LargestLevel ==
  ASSUME NEW S, IsFiniteSet(S), S # {}, \A l \in S : l \in Nat
  PROVE  Max(S) \in S /\ \A l \in S : l <= Max(S)
<1>1. \E m \in S : \A l \in S : l <= m
  <2> DEFINE bad == {T \in SUBSET S : T # {} /\ ~\E m \in T : \A l \in T : l <= m}
  <2> SUFFICES ASSUME bad # {} PROVE FALSE
    OBVIOUS
  <2>1. PICK X \in bad : \A Y \in bad : Y \subseteq X => Y = X
    <3>1. bad \subseteq SUBSET S /\ bad # {} /\ IsFiniteSet(S)
      OBVIOUS
    <3> HIDE DEF bad
    <3> QED BY <3>1, MinimalSubset
  <2>2. PICK x \in X : TRUE
    OBVIOUS
  <2>3. X \ {x} # {}
    <3> SUFFICES ASSUME X \ {x} = {} PROVE FALSE
      OBVIOUS
    <3>1. \A l \in X : l = x /\ l <= x
      <4>1. \A l \in X : l = x
        OBVIOUS
      <4> QED BY <4>1
    <3> QED BY <2>2, <3>1
  <2>4. PICK m \in X \ {x} : \A l \in X \ {x} : l <= m
    <3>1. X \ {x} \notin bad
      BY <2>1, <2>2
    <3> QED BY <2>3, <3>1
  <2>5. m \in Nat /\ x \in Nat /\ m \in X /\ \A l \in X : l \in Nat
    OBVIOUS
  <2>6. CASE x <= m
    <3>1. \A l \in X : l <= m
      BY <2>4, <2>6
    <3> QED BY <2>5, <3>1
  <2>7. CASE m <= x
    <3>1. ASSUME NEW l \in X PROVE l <= x
      BY <2>4, <2>5, <2>7
    <3> QED BY <2>2, <3>1
  <2> QED BY <2>5, <2>6, <2>7
<1>2. Max(S) = CHOOSE x \in S : \A y \in S : x >= y
  BY DEF Max
<1>3. \E m \in S : \A l \in S : m >= l
  <2>1. PICK m \in S : \A l \in S : l <= m
    BY <1>1
  <2>2. \A l \in S : l \in Nat
    OBVIOUS
  <2> QED BY <2>1, <2>2
<1>4. Max(S) \in S /\ \A l \in S : Max(S) >= l
  BY <1>2, <1>3
<1>5. \A l \in S : l \in Nat
  OBVIOUS
<1> QED BY <1>4, <1>5

-----------------------------------------------------------------------------
(***************************************************************************)
(* A row solved for x, the other variables at the bounds in u.  The level  *)
(* is the last one among those used.                                       *)
(***************************************************************************)
UnitRow(r) == \A z \in Column : r[z] \in {-1, 0, 1}

\* The value and the level of the sum.
LEMMA SumFacts ==
  ASSUME NEW r, UnitRow(r), NEW x \in Support(r), NEW u \in [Support(r) -> Bound]
  PROVE  /\ SumOf(u, r, x).val = RowSum(u, r, x, Support(r) \ {x})
         /\ SumOf(u, r, x).val \in Int
         /\ SumOf(u, r, x).level \in Nat
         /\ \A y \in Support(r) \ {x} : u[y].level <= SumOf(u, r, x).level
         /\ \A k \in Nat : (\A y \in Support(r) \ {x} : u[y].level <= k)
                             => SumOf(u, r, x).level <= k
<1> DEFINE others == Support(r) \ {x}
           levels == {0} \cup {u[y].level : y \in others}
<1>1. others \subseteq Column /\ IsFiniteSet(others) /\ x \in Column
  BY ColumnFacts, FS_Subset DEF Support
<1>2. \A y \in others : u[y].val \in Int /\ u[y].level \in Nat
  BY DEF Bound
<1>3. \A y \in others : Weight(r, x, y) \in Int
  <2>1. \A z \in Column : r[z] \in Int
    BY DEF UnitRow
  <2> QED BY <1>1, <2>1 DEF Weight
<1>4. RowSum(u, r, x, others) \in Int
  <2>1. IntOn([y \in others |-> Weight(r, x, y)], others)
    BY <1>3 DEF IntOn
  <2>2. IntOn([y \in others |-> u[y].val], others)
    BY <1>2 DEF IntOn
  <2> HIDE DEF others
  <2> QED BY <1>1, <2>1, <2>2, DotInt DEF RowSum
<1>5. IsFiniteSet(levels)
  <2>1. [y \in others |-> u[y].level] \in Surjection(others, {u[y].level : y \in others})
    BY DEF Surjection
  <2>2. IsFiniteSet({u[y].level : y \in others})
    BY <1>1, <2>1, FS_Surjection
  <2>3. IsFiniteSet({0})
    BY FS_Singleton
  <2> QED BY <2>2, <2>3, FS_Union
<1>6. (\A l \in levels : l \in Nat) /\ levels # {}
  BY <1>2
<1>7. SumOf(u, r, x).level = Max(levels) /\ SumOf(u, r, x).val = RowSum(u, r, x, others)
  BY DEF SumOf
<1>8. \A y \in others : u[y].level \in levels
  OBVIOUS
<1>9. \A k \in Nat : (\A y \in others : u[y].level <= k) => \A l \in levels : l <= k
  OBVIOUS
<1> HIDE DEF levels, others
<1>10. Max(levels) \in levels /\ \A l \in levels : l <= Max(levels)
  BY <1>5, <1>6, LargestLevel
<1> QED BY <1>4, <1>6, <1>7, <1>8, <1>9, <1>10 DEF others

(***************************************************************************)
(* Where the row holds, the sum of the others at their values is the value *)
(* of x.                                                                   *)
(***************************************************************************)
LEMMA RowSolved ==
  ASSUME NEW r, UnitRow(r), NEW x \in Support(r), NEW a, IntOn(a, Column),
         Dot(r, a, Column) = 0
  PROVE  Dot([y \in Support(r) \ {x} |-> Weight(r, x, y)], a, Support(r) \ {x}) = a[x]
<1> DEFINE T == Support(r)
           S == T \ {x}
           q == [y \in S |-> Weight(r, x, y)]
<1>1. /\ IsFiniteSet(Column) /\ T \in SUBSET Column /\ x \in T /\ IsFiniteSet(T)
      /\ IsFiniteSet(S) /\ S \in SUBSET T
  BY ColumnFacts, FS_Subset DEF Support
<1>2. IntOn(r, Column) /\ r[x] \in {-1, 1} /\ \A z \in Column \ T : r[z] = 0
  BY <1>1 DEF UnitRow, IntOn, Support
<1>3. \A y \in S : q[y] = -(r[x] * r[y])
  BY DEF Weight
<1> HIDE DEF T, q
<1>4. IntOn(r, T) /\ IntOn(a, T) /\ IntOn(r, S) /\ IntOn(a, S)
  BY <1>1, <1>2 DEF IntOn
<1>5. Dot(r, a, Column) = Dot(r, a, T)
  <2>1. \A z \in Column \ T : r[z] * a[z] = 0
    BY <1>2 DEF IntOn
  <2> QED BY <1>1, <1>2, <2>1, DotSupport
<1>6. Dot(r, a, T) = r[x] * a[x] + Dot(r, a, S) /\ Dot(r, a, S) \in Int
  BY <1>1, <1>4, DotRemove
<1>7. IntOn(q, S)
  BY <1>2, <1>3, <1>4 DEF IntOn
<1>8. Dot(q, a, S) = (-r[x]) * Dot(r, a, S)
  <2> DEFINE z == [y \in S |-> 0]
  <2>1. IntOn(z, S)
    BY DEF IntOn
  <2>2. \A y \in S : q[y] * a[y] = z[y] * a[y] + (-r[x]) * (r[y] * a[y])
    <3> SUFFICES ASSUME NEW y \in S
                 PROVE  q[y] * a[y] = z[y] * a[y] + (-r[x]) * (r[y] * a[y])
      OBVIOUS
    <3>1. /\ q[y] = -(r[x] * r[y]) /\ z[y] = 0 /\ r[x] \in {-1, 1}
          /\ r[y] \in Int /\ a[y] \in Int
      BY <1>2, <1>3, <1>4 DEF IntOn
    <3>2. r[y] * a[y] \in Int /\ 0 * a[y] = 0
      BY <3>1
    <3>3. (-r[y]) * a[y] = -(r[y] * a[y])
      BY <3>1
    <3>4. CASE r[x] = 1
      BY <3>1, <3>2, <3>3, <3>4
    <3>5. CASE r[x] = -1
      BY <3>1, <3>2, <3>5
    <3> QED BY <3>1, <3>4, <3>5
  <2>3. Dot(z, a, S) = 0
    <3>1. \A y \in S : z[y] * a[y] = 0
      BY <1>4 DEF IntOn
    <3> QED BY <1>1, <1>4, <2>1, <3>1, DotZero
  <2>4. -r[x] \in Int
    BY <1>2
  <2> HIDE DEF z, S
  <2>5. Dot(q, a, S) = Dot(z, a, S) + (-r[x]) * Dot(r, a, S)
    BY <1>1, <1>4, <1>7, <2>1, <2>2, <2>4, DotCombines
  <2> QED BY <1>2, <1>6, <2>3, <2>4, <2>5
<1>9. a[x] \in Int
  BY <1>1, <1>4 DEF IntOn
<1>10. CASE r[x] = 1
  BY <1>5, <1>6, <1>8, <1>9, <1>10 DEF T, q
<1>11. CASE r[x] = -1
  BY <1>5, <1>6, <1>8, <1>9, <1>11 DEF T, q
<1> QED BY <1>2, <1>10, <1>11

\* A sum of bounds that are all on one side is on that side of x.
LEMMA SumBelow ==
  ASSUME NEW r, UnitRow(r), NEW x \in Support(r), NEW u \in [Support(r) -> Bound],
         NEW a, IntOn(a, Column), Dot(r, a, Column) = 0
  PROVE  /\ (\A y \in Support(r) \ {x} : Weight(r, x, y) * u[y].val <= Weight(r, x, y) * a[y])
              => SumOf(u, r, x).val <= a[x]
         /\ (\A y \in Support(r) \ {x} : Weight(r, x, y) * a[y] <= Weight(r, x, y) * u[y].val)
              => a[x] <= SumOf(u, r, x).val
<1> DEFINE S == Support(r) \ {x}
           q == [y \in S |-> Weight(r, x, y)]
           b == [y \in S |-> u[y].val]
<1>1. /\ IsFiniteSet(S) /\ S \subseteq Column /\ x \in Column
      /\ \A z \in Column : r[z] \in Int /\ a[z] \in Int
  BY ColumnFacts, FS_Subset DEF Support, UnitRow, IntOn
<1>2. IntOn(q, S) /\ IntOn(a, S) /\ IntOn(b, S)
  <2>1. \A y \in S : Weight(r, x, y) \in Int
    BY <1>1 DEF Weight
  <2>2. \A y \in S : u[y].val \in Int
    BY DEF Bound
  <2> QED BY <1>1, <2>1, <2>2 DEF IntOn
<1>3. Dot(q, a, S) = a[x]
  BY RowSolved
<1>4. SumOf(u, r, x).val = Dot(q, b, S)
  BY SumFacts DEF RowSum
<1>5. \A y \in S : q[y] = Weight(r, x, y) /\ b[y] = u[y].val
  OBVIOUS
<1> HIDE DEF q, b
<1>6. ASSUME \A y \in S : Weight(r, x, y) * u[y].val <= Weight(r, x, y) * a[y]
      PROVE  SumOf(u, r, x).val <= a[x]
  <2>1. \A y \in S : q[y] * b[y] <= q[y] * a[y]
    BY <1>5, <1>6
  <2> HIDE DEF S
  <2> QED BY <1>1, <1>2, <1>3, <1>4, <2>1, DotMonotone
<1>7. ASSUME \A y \in S : Weight(r, x, y) * a[y] <= Weight(r, x, y) * u[y].val
      PROVE  a[x] <= SumOf(u, r, x).val
  <2>1. \A y \in S : q[y] * a[y] <= q[y] * b[y]
    BY <1>5, <1>7
  <2> HIDE DEF S
  <2> QED BY <1>1, <1>2, <1>3, <1>4, <2>1, DotMonotone
<1> QED BY <1>6, <1>7

(***************************************************************************)
(* Bounds of the columns D, relative to the assignments G[l] that follow l *)
(* decisions: none depends on more than k, and each holds where it should. *)
(***************************************************************************)
BoundsIn(G, st, k, D) ==
  \A y \in D :
    /\ st.lower[y] \in Bound /\ st.upper[y] \in Bound
    /\ st.lower[y].level <= k /\ st.upper[y].level <= k
    /\ \A s \in G[st.lower[y].level] : st.lower[y].val <= Extended(s)[y]
    /\ \A s \in G[st.upper[y].level] : Extended(s)[y] <= st.upper[y].val

\* More decisions leave fewer assignments.
Decreasing(G) == \A l, m \in Nat : l <= m => G[m] \subseteq G[l]

\* r holds in the assignments of each level.
RowHolds(G, r, k) ==
  \A l \in 0..k : \A s \in G[l] :
    IntOn(Extended(s), Column) /\ Dot(r, Extended(s), Column) = 0

\* A lower bound of x that is good for the assignments in G at its level.
LowerHolds(G, x, bound, k) ==
  /\ bound \in Bound /\ bound.val \in Int /\ bound.level \in 0..k
  /\ \A s \in G[bound.level] : bound.val <= Extended(s)[x]
UpperHolds(G, x, bound, k) ==
  /\ bound \in Bound /\ bound.val \in Int /\ bound.level \in 0..k
  /\ \A s \in G[bound.level] : Extended(s)[x] <= bound.val

\* Which of the bounds of y a row uses.
LEMMA ChosenBounds ==
  ASSUME NEW G, Decreasing(G), NEW k \in Nat, NEW st, NEW D, BoundsIn(G, st, k, D),
         NEW r, UnitRow(r), Support(r) \subseteq D, RowHolds(G, r, k),
         NEW x \in Support(r), NEW side \in {"lower", "upper"},
         NEW u, u = [y \in Support(r) |-> IF Weight(r, x, y) > 0 <=> side = "lower"
                                     THEN st.lower[y] ELSE st.upper[y]]
  PROVE  IF side = "lower" THEN LowerHolds(G, x, SumOf(u, r, x), k)
                ELSE UpperHolds(G, x, SumOf(u, r, x), k)
<1>1. ASSUME NEW y \in Support(r)
      PROVE  /\ u[y] = IF Weight(r, x, y) > 0 <=> side = "lower" THEN st.lower[y] ELSE st.upper[y]
             /\ y \in D /\ u[y] \in Bound /\ u[y].level <= k
  BY DEF BoundsIn
<1>2. u \in [Support(r) -> Bound]
  BY <1>1
<1>3. /\ SumOf(u, r, x).val \in Int /\ SumOf(u, r, x).level \in Nat
      /\ SumOf(u, r, x).level <= k
      /\ \A y \in Support(r) \ {x} : u[y].level <= SumOf(u, r, x).level
  BY <1>1, <1>2, SumFacts
<1> DEFINE l == SumOf(u, r, x).level
<1>4. l \in 0..k
  BY <1>3
<1>5. ASSUME NEW s \in G[l]
      PROVE  IF side = "lower" THEN SumOf(u, r, x).val <= Extended(s)[x]
                    ELSE Extended(s)[x] <= SumOf(u, r, x).val
  <2> DEFINE a == Extended(s)
  <2>1. IntOn(a, Column) /\ Dot(r, a, Column) = 0
    BY <1>4 DEF RowHolds
  <2>2. ASSUME NEW y \in Support(r) \ {x}
        PROVE  /\ Weight(r, x, y) \in {-1, 1}
               /\ u[y].val \in Int /\ a[y] \in Int
               /\ (Weight(r, x, y) > 0 <=> side = "lower") => u[y].val <= a[y]
               /\ ~(Weight(r, x, y) > 0 <=> side = "lower") => a[y] <= u[y].val
    <3>1. y \in Column /\ x \in Column /\ r[y] \in {-1, 1} /\ r[x] \in {-1, 1}
      BY DEF Support, UnitRow
    <3>2. Weight(r, x, y) \in {-1, 1}
      BY <3>1 DEF Weight
    <3>3. u[y] \in Bound /\ u[y].level \in Nat /\ u[y].val \in Int /\ a[y] \in Int
      BY <1>1, <2>1, <3>1 DEF Bound, IntOn
    <3>4. s \in G[u[y].level]
      BY <1>3, <3>3 DEF Decreasing
    <3>5. /\ \A t \in G[st.lower[y].level] : st.lower[y].val <= Extended(t)[y]
          /\ \A t \in G[st.upper[y].level] : Extended(t)[y] <= st.upper[y].val
      BY <1>1 DEF BoundsIn
    <3>6. CASE (Weight(r, x, y) > 0 <=> side = "lower")
      BY <1>1, <3>2, <3>3, <3>4, <3>5, <3>6
    <3>7. CASE ~(Weight(r, x, y) > 0 <=> side = "lower")
      BY <1>1, <3>2, <3>3, <3>4, <3>5, <3>7
    <3> QED BY <3>2, <3>3, <3>6, <3>7
  <2> HIDE DEF a
  <2>3. CASE side = "lower"
    <3>1. ASSUME NEW y \in Support(r) \ {x}
          PROVE  Weight(r, x, y) * u[y].val <= Weight(r, x, y) * a[y]
      <4>1. CASE Weight(r, x, y) = 1
        BY <2>2, <2>3, <4>1
      <4>2. CASE Weight(r, x, y) = -1
        BY <2>2, <2>3, <4>2
      <4> QED BY <2>2, <4>1, <4>2
    <3> QED BY <1>2, <2>1, <2>3, <3>1, SumBelow DEF a
  <2>4. CASE side = "upper"
    <3>1. ASSUME NEW y \in Support(r) \ {x}
          PROVE  Weight(r, x, y) * a[y] <= Weight(r, x, y) * u[y].val
      <4>1. CASE Weight(r, x, y) = 1
        BY <2>2, <2>4, <4>1
      <4>2. CASE Weight(r, x, y) = -1
        BY <2>2, <2>4, <4>2
      <4> QED BY <2>2, <4>1, <4>2
    <3> QED BY <1>2, <2>1, <2>4, <3>1, SumBelow DEF a
  <2> QED BY <2>3, <2>4
<1>6. SumOf(u, r, x) \in Bound
  <2>1. SumOf(u, r, x) = [val |-> SumOf(u, r, x).val, level |-> SumOf(u, r, x).level]
    BY DEF SumOf
  <2> QED BY <1>3, <2>1 DEF Bound
<1>7. CASE side = "lower"
  BY <1>3, <1>4, <1>5, <1>6, <1>7 DEF LowerHolds
<1>8. CASE side = "upper"
  BY <1>3, <1>4, <1>5, <1>6, <1>8 DEF UpperHolds
<1> QED BY <1>7, <1>8

(***************************************************************************)
(* The bounds that a row gives follow from those it uses, at the level that*)
(* it gives them.                                                          *)
(***************************************************************************)
LEMMA RowBoundsFollow ==
  ASSUME NEW G, Decreasing(G), NEW k \in Nat, NEW st, NEW D, BoundsIn(G, st, k, D),
         NEW r, UnitRow(r), Support(r) \subseteq D, RowHolds(G, r, k), NEW x \in Support(r)
  PROVE  /\ LowerHolds(G, x, RowLower(st, r, x), k)
         /\ UpperHolds(G, x, RowUpper(st, r, x), k)
<1> DEFINE lo == [y \in Support(r) |-> IF Weight(r, x, y) > 0 <=> "lower" = "lower"
                                      THEN st.lower[y] ELSE st.upper[y]]
           up == [y \in Support(r) |-> IF Weight(r, x, y) > 0 <=> "upper" = "lower"
                                      THEN st.lower[y] ELSE st.upper[y]]
<1>1. RowLower(st, r, x) = SumOf(lo, r, x)
  BY DEF RowLower
<1>2. RowUpper(st, r, x) = SumOf(up, r, x)
  <2>1. up = [y \in Support(r) |-> IF Weight(r, x, y) > 0 THEN st.upper[y] ELSE st.lower[y]]
    OBVIOUS
  <2> HIDE DEF up
  <2> QED BY <2>1 DEF RowUpper
<1>3. LowerHolds(G, x, SumOf(lo, r, x), k)
  BY ChosenBounds
<1>4. UpperHolds(G, x, SumOf(up, r, x), k)
  BY ChosenBounds
<1> QED BY <1>1, <1>2, <1>3, <1>4

-----------------------------------------------------------------------------
(***************************************************************************)
(* States whose bounds are sound for the assignments G[l].                 *)
(***************************************************************************)

\* The b of a merged pair is not negative.
MergeBounds(st) == \A f \in F : st.dissolved[f] = "MERGE" => st.lower[B[f]].val >= 0

\* The bounds of st are sound in the reading G.
SoundFor(G, st, k) ==
  st \in State /\ PairBounds(st) /\ MergeBounds(st) /\ JustifiedBy(G, st, k)

\* Fewer assignments follow more decisions; they satisfy pairs and equations.
Proper(G) ==
  /\ Decreasing(G)
  /\ \A l \in Nat : Relus(G[l]) /\ \A s \in G[l] : Linear(s)

\* An update merges no pair but one whose b is not negative, and leaves the
\* bounds of merged b's alone but for the one that it raises.
LEMMA UpdateMerges ==
  ASSUME NEW st \in State, MergeBounds(st), NEW x \in Var, NEW v \in Int, NEW l \in Nat
  PROVE  /\ MergeBounds(UpdateUpperBound(st, x, v, l).state)
         /\ MergedPairs(st) \subseteq MergedPairs(UpdateUpperBound(st, x, v, l).state)
         /\ x \in F \/ v > st.lower[x].val =>
              MergeBounds(UpdateLowerBound(st, x, v, l).state)
         /\ MergedPairs(st) \subseteq MergedPairs(UpdateLowerBound(st, x, v, l).state)
<1>1. ASSUME NEW o, Dissolves(st, o), MergedLeft(st, o.state, x),
             \A g \in F : x = B[g] /\ st.dissolved[g] = "MERGE" => o.state.lower[x].val >= 0
      PROVE  MergeBounds(o.state) /\ MergedPairs(st) \subseteq MergedPairs(o.state)
  <2>1. ASSUME NEW g \in F, st.dissolved[g] = "MERGE"
        PROVE  o.state.dissolved[g] = "MERGE" /\ o.state.lower[B[g]].val >= 0
    <3>1. o.state.dissolved[g] = "MERGE"
      BY <1>1, <2>1 DEF Dissolves, State, Active
    <3>2. o.state.lower[B[g]].val >= 0
      <4>1. CASE B[g] = x
        BY <1>1, <2>1, <4>1
      <4>2. CASE B[g] # x
        <5>1. o.state.lower[B[g]] = st.lower[B[g]]
          BY <1>1, <2>1, <4>2 DEF MergedLeft
        <5> QED BY <2>1, <5>1 DEF MergeBounds
      <4> QED BY <4>1, <4>2
    <3> QED BY <3>1, <3>2
  <2>2. ASSUME NEW g \in F, o.state.dissolved[g] = "MERGE"
        PROVE  st.dissolved[g] = "MERGE" \/ o.state.lower[B[g]].val >= 0
    BY <1>1, <2>2 DEF Dissolves, State
  <2> QED BY <2>1, <2>2 DEF MergeBounds, MergedPairs
<1>2. ASSUME NEW g \in F, x = B[g], st.dissolved[g] = "MERGE"
      PROVE  /\ UpdateUpperBound(st, x, v, l).state.lower[x].val >= 0
             /\ v > st.lower[x].val => UpdateLowerBound(st, x, v, l).state.lower[x].val >= 0
             /\ x \notin F
             /\ UpdateLowerBound(st, x, v, l).state.dissolved = st.dissolved
  <2>1. ~ActiveReluVariable(st, x) /\ x \notin F
    BY <1>2, PairFacts DEF ActiveReluVariable, Active
  <2>2. /\ UpdateUpperBound(st, x, v, l).state = WithUpper(st, {x}, v, l)
        /\ UpdateLowerBound(st, x, v, l).state = WithLower(st, {x}, v, l)
    BY <2>1, OutcomeState DEF UpdateUpperBound, UpdateLowerBound
  <2>3. st.lower[x].val >= 0 /\ st.lower[x].val \in Int
    BY <1>2 DEF MergeBounds, State, Bound
  <2>4. /\ WithUpper(st, {x}, v, l).lower[x] = st.lower[x]
        /\ WithLower(st, {x}, v, l).lower[x].val = v
        /\ WithLower(st, {x}, v, l).dissolved = st.dissolved
    BY DEF WithUpper, WithLower
  <2>5. v > st.lower[x].val => v >= 0
    BY <2>3
  <2> QED BY <2>1, <2>2, <2>3, <2>4, <2>5
<1>3. /\ MergeBounds(UpdateUpperBound(st, x, v, l).state)
      /\ MergedPairs(st) \subseteq MergedPairs(UpdateUpperBound(st, x, v, l).state)
  BY <1>1, <1>2, UpperDissolves
<1>4. /\ Dissolves(st, UpdateLowerBound(st, x, v, l))
      /\ MergedLeft(st, UpdateLowerBound(st, x, v, l).state, x)
  BY LowerDissolves
<1>5. ASSUME x \in F \/ v > st.lower[x].val
      PROVE  MergeBounds(UpdateLowerBound(st, x, v, l).state)
  BY <1>1, <1>2, <1>4, <1>5
<1>6. ASSUME NEW g \in F, st.dissolved[g] = "MERGE"
      PROVE  UpdateLowerBound(st, x, v, l).state.dissolved[g] = "MERGE"
  BY <1>4, <1>6 DEF Dissolves, State, Active
<1> QED BY <1>3, <1>5, <1>6 DEF MergedPairs

(***************************************************************************)
(* An improved bound that holds in the assignments of its level leaves a   *)
(* sound state.                                                            *)
(***************************************************************************)
LEMMA LowerSound ==
  ASSUME NEW G, Proper(G), NEW k \in Nat, NEW st, SoundFor(G, st, k), NEW x \in Var,
         NEW bound, LowerHolds(G, x, bound, k), Raises(st, x, bound)
  PROVE  SoundFor(G, UpdateLowerBound(st, x, bound.val, bound.level).state, k)
<1> DEFINE v == bound.val
           l == bound.level
<1>1. /\ st \in State /\ PairBounds(st) /\ MergeBounds(st) /\ JustifiedBy(G, st, k)
      /\ v \in Int /\ l \in 0..k /\ l \in Nat /\ Relus(G[l])
  BY DEF SoundFor, LowerHolds, Proper
<1>2. \A s \in G[l] : v <= s[x]
  BY <1>1, ExtendedFacts DEF LowerHolds, Relus
<1>3. v > st.lower[x].val /\ st.lower[x].val \in Int
  BY <1>1 DEF Raises, State, Bound
<1>4. x \in F => v > 0
  BY <1>1, <1>3 DEF PairBounds
<1> HIDE DEF v, l
<1>5. /\ UpdateLowerBound(st, x, v, l).state \in State
      /\ JustifiedBy(G, UpdateLowerBound(st, x, v, l).state, k)
      /\ PairBounds(UpdateLowerBound(st, x, v, l).state)
  BY <1>1, <1>2, <1>4, LowerUpdated
<1>6. MergeBounds(UpdateLowerBound(st, x, v, l).state)
  BY <1>1, <1>3, UpdateMerges
<1> QED BY <1>5, <1>6 DEF SoundFor, v, l

\* The same for an upper bound.
LEMMA UpperSound ==
  ASSUME NEW G, Proper(G), NEW k \in Nat, NEW st, SoundFor(G, st, k), NEW x \in Var,
         NEW bound, UpperHolds(G, x, bound, k), Lowers(st, x, bound)
  PROVE  SoundFor(G, UpdateUpperBound(st, x, bound.val, bound.level).state, k)
<1> DEFINE v == bound.val
           l == bound.level
<1>1. /\ st \in State /\ PairBounds(st) /\ MergeBounds(st) /\ JustifiedBy(G, st, k)
      /\ v \in Int /\ l \in 0..k /\ l \in Nat /\ Relus(G[l])
  BY DEF SoundFor, UpperHolds, Proper
<1>2. \A s \in G[l] : s[x] <= v
  BY <1>1, ExtendedFacts DEF UpperHolds, Relus
<1>3. v < st.upper[x].val /\ st.upper[x].val \in Int
  BY <1>1 DEF Lowers, State, Bound
<1>4. x \in F /\ st.dissolved[x] = "SPLIT" => v <= 0
  BY <1>1, <1>3 DEF PairBounds
<1> HIDE DEF v, l
<1>5. /\ UpdateUpperBound(st, x, v, l).state \in State
      /\ JustifiedBy(G, UpdateUpperBound(st, x, v, l).state, k)
      /\ PairBounds(UpdateUpperBound(st, x, v, l).state)
  BY <1>1, <1>2, <1>4, UpperUpdated
<1>6. MergeBounds(UpdateUpperBound(st, x, v, l).state)
  BY <1>1, UpdateMerges
<1> QED BY <1>5, <1>6 DEF SoundFor, v, l

\* The update of a decision.
LEMMA DecisionSound ==
  ASSUME NEW G, Proper(G), NEW k \in Nat, NEW st, SoundFor(G, st, k), NEW f \in F,
         NEW p \in Phase, \A s \in G[k] : Fits(s, f, p)
  PROVE  /\ SoundFor(G, Decided(st, f, p, k).state, k)
         /\ MergedPairs(st) \subseteq MergedPairs(Decided(st, f, p, k).state)
<1>1. /\ st \in State /\ PairBounds(st) /\ MergeBounds(st) /\ JustifiedBy(G, st, k)
      /\ Relus(G[k]) /\ k \in 0..k /\ f \in Var /\ 0 \in Int
  BY PairFacts DEF SoundFor, Proper
<1>2. /\ Decided(st, f, p, k).state \in State
      /\ JustifiedBy(G, Decided(st, f, p, k).state, k)
      /\ PairBounds(Decided(st, f, p, k).state)
  BY <1>1, DecisionUpdated
<1>3. /\ MergeBounds(Decided(st, f, p, k).state)
      /\ MergedPairs(st) \subseteq MergedPairs(Decided(st, f, p, k).state)
  BY <1>1, UpdateMerges DEF Decided
<1> QED BY <1>2, <1>3 DEF SoundFor

\* Sound bounds stay sound for fewer assignments and more decisions.
LEMMA SoundForFewer ==
  ASSUME NEW G, NEW G2, NEW k \in Nat, NEW m \in Nat, k <= m,
         \A l \in 0..k : G2[l] \subseteq G[l], NEW st, SoundFor(G, st, k)
  PROVE  SoundFor(G2, st, m)
<1>1. ASSUME NEW x \in Var
      PROVE  /\ st.lower[x].level \in 0..k /\ st.upper[x].level \in 0..k
             /\ st.lower[x].level <= m /\ st.upper[x].level <= m
  BY DEF SoundFor, JustifiedBy, State, Bound
<1>2. JustifiedBy(G2, st, m)
  BY <1>1 DEF SoundFor, JustifiedBy
<1> QED BY <1>2 DEF SoundFor

-----------------------------------------------------------------------------
(***************************************************************************)
(* Two readings of the bounds of st when the first k decisions of stk are  *)
(* made.  They hold for the solutions that follow all k decisions.  And if *)
(* no pair has been merged since the preprocessing, their levels are right.*)
(***************************************************************************)
Everywhere(stk, k) == [l \in Nat |-> FollowersOf(solutions, stk)[k]]
SplitOnly(st) == MergedPairs(st) \subseteq MergedPairs(preprocessed)

Readings(st, stk, k) ==
  {Everywhere(stk, k)} \cup {G \in {FollowersOf(solutions, stk)} : SplitOnly(st)}

Sound(st, stk, k) == \A G \in Readings(st, stk, k) : SoundFor(G, st, k)

\* What solutions is.
QueryInv == preprocessed \in Preprocessed /\ solutions = SolutionsOf(preprocessed)

\* The solutions satisfy pairs, equations and bounds.
LEMMA SolutionFacts ==
  ASSUME QueryInv, NEW s \in solutions
  PROVE  /\ s \in Assignments /\ s \in [Var -> Int] /\ Linear(s) /\ IsSolution(s, preprocessed)
         /\ \A f \in F : ReluHolds(s, f)
<1>1. /\ s \in [Var -> Values] /\ IsSolution(s, preprocessed) /\ s \in Assignments
      /\ \A e \in Equations : Dot(e, s, Var) = 0
  BY DEF QueryInv, SolutionsOf, LinearAssignments, Assignments
<1>2. s \in [Var -> Int]
  BY <1>1, BoundsAssumption
<1> QED BY <1>1, <1>2 DEF Linear, IsSolution

\* Fewer solutions follow more decisions.
LEMMA FollowersDecrease ==
  ASSUME NEW stk, NEW l \in Nat, NEW m \in Nat, l <= m
  PROVE  FollowersOf(solutions, stk)[m] \subseteq FollowersOf(solutions, stk)[l]
<1>1. \A i \in 1..l : i \in 1..m
  OBVIOUS
<1> QED BY <1>1 DEF FollowersOf

\* Readings consist of solutions, and of all those that follow the decisions.
LEMMA ReadingsProper ==
  ASSUME QueryInv, NEW st, NEW stk, NEW k \in Nat, NEW G \in Readings(st, stk, k)
  PROVE  /\ Proper(G)
         /\ \A l \in Nat : G[l] \subseteq solutions
         /\ \A l \in 0..k : FollowersOf(solutions, stk)[k] \subseteq G[l]
<1>1. G \in {Everywhere(stk, k), FollowersOf(solutions, stk)}
  BY DEF Readings
<1>2. \A l \in Nat : FollowersOf(solutions, stk)[l] \subseteq solutions
  BY DEF FollowersOf
<1>3. \A l \in Nat : G[l] \subseteq solutions
  BY <1>1, <1>2 DEF Everywhere
<1>4. Decreasing(G)
  <2>1. CASE G = Everywhere(stk, k)
    BY <2>1 DEF Decreasing, Everywhere
  <2>2. CASE G = FollowersOf(solutions, stk)
    BY <2>2, FollowersDecrease DEF Decreasing
  <2> QED BY <1>1, <2>1, <2>2
<1>5. ASSUME NEW l \in Nat
      PROVE  Relus(G[l]) /\ \A s \in G[l] : Linear(s)
  BY <1>3, SolutionFacts DEF Relus
<1>6. ASSUME NEW l \in 0..k
      PROVE  FollowersOf(solutions, stk)[k] \subseteq G[l]
  BY <1>1, FollowersDecrease DEF Everywhere
<1> QED BY <1>3, <1>4, <1>5, <1>6 DEF Proper

\* The more pairs are merged, the fewer readings there are.
LEMMA ReadingsShrink ==
  ASSUME NEW st, NEW st2, MergedPairs(st) \subseteq MergedPairs(st2), NEW stk, NEW k
  PROVE  Readings(st2, stk, k) \subseteq Readings(st, stk, k)
BY DEF Readings, SplitOnly

(***************************************************************************)
(* In the assignments of a reading the b's and f's of merged pairs are     *)
(* equal: the b is not negative in them, because of its bound, or because  *)
(* the pair was merged before the main loop.                               *)
(***************************************************************************)
LEMMA MergesHold ==
  ASSUME QueryInv, NEW st, NEW stk, NEW k \in Nat, Sound(st, stk, k),
         NEW G \in Readings(st, stk, k), NEW l \in 0..k, NEW s \in G[l],
         NEW f \in MergedPairs(st)
  PROVE  s[B[f]] = s[f]
<1>1. f \in F /\ st.dissolved[f] = "MERGE" /\ f \in Var /\ B[f] \in Var
  BY PairFacts DEF MergedPairs
<1>2. s \in solutions /\ s \in [Var -> Int] /\ ReluHolds(s, f) /\ IsSolution(s, preprocessed)
  BY <1>1, ReadingsProper, SolutionFacts
<1>3. s[B[f]] >= 0
  <2>1. CASE G = Everywhere(stk, k)
    <3>1. SoundFor(G, st, k)
      BY DEF Sound
    <3>2. st.lower[B[f]].val >= 0 /\ st.lower[B[f]].level \in Nat /\ st.lower[B[f]].val \in Int
      BY <1>1, <3>1 DEF SoundFor, MergeBounds, State, Bound
    <3>3. G[st.lower[B[f]].level] = G[l]
      BY <2>1, <3>2 DEF Everywhere
    <3>4. st.lower[B[f]].val <= s[B[f]]
      BY <1>1, <3>1, <3>3 DEF SoundFor, JustifiedBy
    <3> QED BY <1>1, <1>2, <3>2, <3>4
  <2>2. CASE SplitOnly(st)
    <3>1. preprocessed.dissolved[f] = "MERGE" /\ preprocessed \in Preprocessed
      BY <2>2 DEF SplitOnly, MergedPairs, QueryInv
    <3>2. 0 <= preprocessed.lower[B[f]].val
      BY <1>1, <3>1, InitialPairs
    <3>3. preprocessed.lower[B[f]].val <= s[B[f]] /\ preprocessed \in State
      BY <1>1, <1>2, <3>1, BoundsAssumption DEF IsSolution
    <3>4. preprocessed.lower[B[f]].val \in Int
      BY <1>1, <3>3 DEF State, Bound
    <3> QED BY <1>1, <1>2, <3>2, <3>3, <3>4
  <2> QED BY <2>1, <2>2 DEF Readings
<1>4. s[f] \in Int /\ s[B[f]] \in Int
  BY <1>1, <1>2
<1> QED BY <1>2, <1>3, <1>4 DEF ReluHolds

\* The rows hold in those assignments.
LEMMA RowsSound ==
  ASSUME QueryInv, NEW st, NEW stk, NEW k \in Nat, Sound(st, stk, k),
         NEW G \in Readings(st, stk, k), NEW S \in SUBSET F, MergedPairs(st) \cap S = {},
         NEW r \in RowsOf[<<MergedPairs(st), S>>]
  PROVE  RowHolds(G, r, k) /\ UnitRow(r) /\ Support(r) \subseteq Var \cup Slacks(S)
<1>1. MergedPairs(st) \in SUBSET F
  BY DEF MergedPairs
<1>2. r \in RowSpace(MergedPairs(st), S) /\ UnitRow(r) /\ Support(r) \subseteq Var \cup Slacks(S)
  BY <1>1, RowColumns DEF UnitRow
<1>3. ASSUME NEW l \in 0..k, NEW s \in G[l]
      PROVE  IntOn(Extended(s), Column) /\ Dot(r, Extended(s), Column) = 0
  <2>1. Linear(s)
    BY ReadingsProper DEF Proper
  <2>2. \A f \in MergedPairs(st) : s[B[f]] = s[f]
    BY MergesHold
  <2>3. Dot(r, Extended(s), Column) = 0
    BY <1>1, <1>2, <2>1, <2>2, RowsHold
  <2> QED BY <2>1, <2>3, ExtendedFacts DEF Linear
<1> QED BY <1>2, <1>3 DEF RowHolds

\* Bounds of the variables, as bounds of columns.
LEMMA JustifiedColumns ==
  ASSUME NEW G, Proper(G), NEW k \in Nat, NEW st, SoundFor(G, st, k)
  PROVE  BoundsIn(G, st, k, Var)
<1>1. ASSUME NEW x \in Var
      PROVE  st.lower[x] \in Bound /\ st.upper[x] \in Bound
             /\ st.lower[x].level \in Nat /\ st.upper[x].level \in Nat
  BY DEF SoundFor, State, Bound
<1>2. ASSUME NEW l \in Nat, NEW s \in G[l], NEW x \in Var
      PROVE  Extended(s)[x] = s[x]
  BY ExtendedFacts DEF Proper, Linear
<1> QED BY <1>1, <1>2 DEF BoundsIn, SoundFor, JustifiedBy

\* More decisions, and other decisions above the k-th, do no harm.
LEMMA SoundPrefix ==
  ASSUME NEW st, NEW stk, NEW stk2, NEW k \in Nat, NEW m \in Nat, k <= m, Sound(st, stk, k),
         \A i \in 1..k : stk2[i].var = stk[i].var /\ stk2[i].type = stk[i].type
  PROVE  Sound(st, stk2, m)
<1>1. ASSUME NEW l \in 0..k
      PROVE  FollowersOf(solutions, stk2)[l] = FollowersOf(solutions, stk)[l]
  BY DEF FollowersOf
<1>2. FollowersOf(solutions, stk2)[m] \subseteq FollowersOf(solutions, stk)[k]
  BY <1>1, FollowersDecrease
<1>3. ASSUME NEW G2 \in Readings(st, stk2, m)
      PROVE  \E G \in Readings(st, stk, k) : \A l \in 0..k : G2[l] \subseteq G[l]
  <2>1. CASE G2 = Everywhere(stk2, m)
    <3>1. Everywhere(stk, k) \in Readings(st, stk, k)
      BY DEF Readings
    <3>2. \A l \in 0..k : G2[l] \subseteq Everywhere(stk, k)[l]
      BY <1>2, <2>1 DEF Everywhere
    <3> QED BY <3>1, <3>2
  <2>2. CASE G2 = FollowersOf(solutions, stk2) /\ SplitOnly(st)
    <3>1. FollowersOf(solutions, stk) \in Readings(st, stk, k)
      BY <2>2 DEF Readings
    <3>2. \A l \in 0..k : G2[l] \subseteq FollowersOf(solutions, stk)[l]
      BY <1>1, <2>2
    <3> QED BY <3>1, <3>2
  <2> QED BY <2>1, <2>2 DEF Readings
<1> QED BY <1>3, SoundForFewer DEF Sound

\* Bounds that every reading of st confirms.
LowerSure(st, stk, k, x, bound) == \A G \in Readings(st, stk, k) : LowerHolds(G, x, bound, k)
UpperSure(st, stk, k, x, bound) == \A G \in Readings(st, stk, k) : UpperHolds(G, x, bound, k)

\* The update of a lower bound that they confirm keeps the state sound.
LEMMA LowerKeepsSound ==
  ASSUME QueryInv, NEW st, NEW stk, NEW k \in Nat, Sound(st, stk, k), NEW x \in Var,
         NEW bound, LowerSure(st, stk, k, x, bound), Raises(st, x, bound)
  PROVE  /\ Sound(UpdateLowerBound(st, x, bound.val, bound.level).state, stk, k)
         /\ MergedPairs(st)
              \subseteq MergedPairs(UpdateLowerBound(st, x, bound.val, bound.level).state)
<1> DEFINE new == UpdateLowerBound(st, x, bound.val, bound.level).state
<1>1. Everywhere(stk, k) \in Readings(st, stk, k)
  BY DEF Readings
<1>2. st \in State /\ MergeBounds(st) /\ bound.val \in Int /\ bound.level \in Nat
  BY <1>1 DEF Sound, SoundFor, LowerSure, LowerHolds
<1>3. MergedPairs(st) \subseteq MergedPairs(new)
  BY <1>2, UpdateMerges
<1>4. ASSUME NEW G \in Readings(new, stk, k)
      PROVE  SoundFor(G, new, k)
  <2>1. G \in Readings(st, stk, k)
    BY <1>3, ReadingsShrink
  <2>2. Proper(G) /\ SoundFor(G, st, k) /\ LowerHolds(G, x, bound, k)
    BY <2>1, ReadingsProper DEF Sound, LowerSure
  <2> QED BY <2>2, LowerSound
<1> HIDE DEF new
<1>5. Sound(new, stk, k)
  BY <1>4 DEF Sound
<1> QED BY <1>3, <1>5 DEF new

\* The same for an upper bound.
LEMMA UpperKeepsSound ==
  ASSUME QueryInv, NEW st, NEW stk, NEW k \in Nat, Sound(st, stk, k), NEW x \in Var,
         NEW bound, UpperSure(st, stk, k, x, bound), Lowers(st, x, bound)
  PROVE  /\ Sound(UpdateUpperBound(st, x, bound.val, bound.level).state, stk, k)
         /\ MergedPairs(st)
              \subseteq MergedPairs(UpdateUpperBound(st, x, bound.val, bound.level).state)
<1> DEFINE new == UpdateUpperBound(st, x, bound.val, bound.level).state
<1>1. Everywhere(stk, k) \in Readings(st, stk, k)
  BY DEF Readings
<1>2. st \in State /\ MergeBounds(st) /\ bound.val \in Int /\ bound.level \in Nat
  BY <1>1 DEF Sound, SoundFor, UpperSure, UpperHolds
<1>3. MergedPairs(st) \subseteq MergedPairs(new)
  BY <1>2, UpdateMerges
<1>4. ASSUME NEW G \in Readings(new, stk, k)
      PROVE  SoundFor(G, new, k)
  <2>1. G \in Readings(st, stk, k)
    BY <1>3, ReadingsShrink
  <2>2. Proper(G) /\ SoundFor(G, st, k) /\ UpperHolds(G, x, bound, k)
    BY <2>1, ReadingsProper DEF Sound, UpperSure
  <2> QED BY <2>2, UpperSound
<1> HIDE DEF new
<1>5. Sound(new, stk, k)
  BY <1>4 DEF Sound
<1> QED BY <1>3, <1>5 DEF new

\* So does the update of a decision, whether the pair is merged by it or not.
LEMMA DecisionKeepsSound ==
  ASSUME QueryInv, NEW st, NEW stk, NEW n \in Nat, n > 0, Sound(st, stk, n), NEW f \in F,
         NEW p \in Phase, stk[n].var = f, stk[n].type = p
  PROVE  Sound(Decided(st, f, p, n).state, stk, n)
<1> DEFINE new == Decided(st, f, p, n).state
<1>1. ASSUME NEW G \in Readings(st, stk, n)
      PROVE  SoundFor(G, new, n) /\ MergedPairs(st) \subseteq MergedPairs(new)
  <2>1. Proper(G) /\ SoundFor(G, st, n)
    BY ReadingsProper DEF Sound
  <2>2. G[n] = FollowersOf(solutions, stk)[n]
    BY DEF Readings, Everywhere
  <2>3. \A s \in G[n] : Fits(s, f, p)
    BY <2>2 DEF FollowersOf
  <2> QED BY <2>1, <2>3, DecisionSound
<1>2. Everywhere(stk, n) \in Readings(st, stk, n)
  BY DEF Readings
<1> HIDE DEF new
<1>3. Readings(new, stk, n) \subseteq Readings(st, stk, n)
  BY <1>1, <1>2, ReadingsShrink
<1>4. Sound(new, stk, n)
  BY <1>1, <1>3 DEF Sound
<1> QED BY <1>4 DEF new

\* The bounds that a row of the table gives.
LEMMA RowBoundsSure ==
  ASSUME QueryInv, NEW st, NEW stk, NEW k \in Nat, Sound(st, stk, k),
         NEW S \in SUBSET F, MergedPairs(st) \cap S = {},
         NEW r \in RowsOf[<<MergedPairs(st), S>>], NEW x \in Support(r), NEW u,
         \A G \in Readings(st, stk, k) : BoundsIn(G, u, k, Var \cup Slacks(S))
  PROVE  /\ LowerSure(st, stk, k, x, RowLower(u, r, x))
         /\ UpperSure(st, stk, k, x, RowUpper(u, r, x))
<1>1. ASSUME NEW G \in Readings(st, stk, k)
      PROVE  /\ LowerHolds(G, x, RowLower(u, r, x), k)
             /\ UpperHolds(G, x, RowUpper(u, r, x), k)
  <2>1. Decreasing(G)
    BY ReadingsProper DEF Proper
  <2>2. RowHolds(G, r, k) /\ UnitRow(r) /\ Support(r) \subseteq Var \cup Slacks(S)
    BY RowsSound
  <2>3. BoundsIn(G, u, k, Var \cup Slacks(S))
    OBVIOUS
  <2> QED BY <2>1, <2>2, <2>3, RowBoundsFollow
<1> QED BY <1>1 DEF LowerSure, UpperSure

-----------------------------------------------------------------------------
(***************************************************************************)
(* The inductive invariant: the bounds in force, the stored ones and those *)
(* that decisions saved are sound in both readings, those of the slack     *)
(* variables hold for f - b, and the LP has slack variables of active pairs*)
(* only.                                                                   *)
(***************************************************************************)
SlacksSound(st, stk, S) ==
  /\ DOMAIN slacks.lower = Slacks(S)
  /\ \A G \in Readings(st, stk, Len(stk)) : BoundsIn(G, slacks, Len(stk), Slacks(S))

SlackInv ==
  \E S \in SUBSET ActivePairs(current) :
    /\ pc # "solving" => S = {}
    /\ SlacksSound(current, stack, S)

RowInv ==
  /\ QueryInv
  /\ stack \in Seq(Entry) /\ index \in Nat
  /\ Sound(current, stack, Len(stack)) /\ Sound(backup, stack, Len(stack))
  /\ \A i \in 1..Len(stack) : Sound(stack[i].saved, stack, i - 1)
  /\ MergedPairs(backup) \subseteq MergedPairs(current)
  /\ pc = "solving" => backup.dissolved = current.dissolved
  /\ SlackInv

\* The invariant after a step that leaves the query alone.
LEMMA RowInvNext ==
  ASSUME QueryInv, UNCHANGED <<solutions, preprocessed>>,
         stack' \in Seq(Entry), index' \in Nat,
         Sound(current', stack', Len(stack')), Sound(backup', stack', Len(stack')),
         \A i \in 1..Len(stack') : Sound(stack'[i].saved, stack', i - 1),
         MergedPairs(backup') \subseteq MergedPairs(current'),
         pc' = "solving" => backup'.dissolved = current'.dissolved,
         SlackInv'
  PROVE  RowInv'
BY DEF RowInv, QueryInv, SolutionsOf, IsSolution, ReluHolds, Sound, Readings, Everywhere,
       SplitOnly, MergedPairs

\* While the LP solver does not run there are no slack variables.
LEMMA NoSlackInv ==
  ASSUME slacks'.lower = slacks.lower \/ slacks'.lower = NoSlacks.lower, SlackInv,
         pc # "solving" \/ slacks'.lower = NoSlacks.lower, pc' # "solving"
  PROVE  SlackInv'
<1>1. Slacks({}) = {}
  BY DEF Slacks
<1>2. DOMAIN NoSlacks.lower = {}
  BY <1>1 DEF NoSlacks, SlackBounds
<1>3. DOMAIN slacks'.lower = {}
  <2>1. CASE slacks'.lower = NoSlacks.lower
    BY <1>2, <2>1
  <2>2. CASE slacks'.lower = slacks.lower /\ pc # "solving"
    BY <1>1, <2>2 DEF SlackInv, SlacksSound
  <2> QED BY <2>1, <2>2
<1>4. {} \in SUBSET ActivePairs(current')
  OBVIOUS
<1> QED BY <1>1, <1>3, <1>4 DEF SlackInv, SlacksSound, BoundsIn, Slacks, ActivePairs

(***************************************************************************)
(* Steps that leave the stack alone while the LP solver does not run, or   *)
(* that end its run.                                                       *)
(***************************************************************************)
LEMMA StackKept ==
  ASSUME RowInv, UNCHANGED <<solutions, preprocessed, stack>>, index' \in Nat,
         pc' # "solving", (pc # "solving" /\ slacks' = slacks) \/ slacks' = NoSlacks,
         Sound(current', stack, Len(stack)), Sound(backup', stack, Len(stack)),
         MergedPairs(backup') \subseteq MergedPairs(current')
  PROVE  RowInv'
<1>1. SlackInv'
  BY NoSlackInv DEF RowInv
<1> QED BY <1>1, RowInvNext DEF RowInv

\* Where a pop leads.
LEMMA StartPopPc ==
  ASSUME NEW v, StartPop(v)
  PROVE  pc' \in {"popping", "done"}
BY DEF StartPop, Stop

\* A sound outcome is applied.
LEMMA AppliedSound ==
  ASSUME RowInv, pc # "solving", UNCHANGED <<slacks, solutions, preprocessed, stack>>,
         index' \in Nat, NEW o, NEW next \in {"loop", "learning", "tightening"}, Apply(o, next),
         Sound(o.state, stack, Len(stack)), MergedPairs(current) \subseteq MergedPairs(o.state)
  PROVE  RowInv'
<1>1. current' = o.state /\ pc' # "solving" /\ (backup' = backup \/ backup' = o.state)
  BY StartPopPc DEF Apply
<1>2. Sound(backup', stack, Len(stack)) /\ MergedPairs(backup') \subseteq MergedPairs(current')
  BY <1>1 DEF RowInv
<1> QED BY <1>1, <1>2, StackKept

-----------------------------------------------------------------------------
(***************************************************************************)
(* The LP solver.                                                          *)
(***************************************************************************)
LEMMA LaterLevel ==
  ASSUME NEW a \in Nat, NEW b \in Nat
  PROVE  Max({a, b}) \in {a, b} /\ a <= Max({a, b}) /\ b <= Max({a, b})
<1>1. {a, b} = {a} \cup {b} /\ {a} = {} \cup {a}
  OBVIOUS
<1>2. IsFiniteSet({a})
  BY <1>1, FS_EmptySet, FS_AddElement
<1>3. IsFiniteSet({a, b})
  BY <1>1, <1>2, FS_AddElement
<1> QED BY <1>3, LargestLevel

\* The bounds that slack variables start with hold for f - b.
LEMMA SlackBoundsSound ==
  ASSUME RowInv, NEW S \in SUBSET ActivePairs(current), NEW k, k = Len(stack),
         NEW G \in Readings(current, stack, k)
  PROVE  BoundsIn(G, SlackBounds(S), k, Slacks(S))
<1>0. k \in Nat /\ QueryInv
  BY DEF RowInv
<1>1. Proper(G) /\ SoundFor(G, current, k)
  BY <1>0, ReadingsProper DEF RowInv, Sound
<1>2. ASSUME NEW f \in S
      PROVE  /\ SlackBounds(S).lower[Slack(f)] \in Bound
             /\ SlackBounds(S).upper[Slack(f)] \in Bound
             /\ SlackBounds(S).lower[Slack(f)].level <= k
             /\ SlackBounds(S).upper[Slack(f)].level <= k
             /\ \A s \in G[SlackBounds(S).lower[Slack(f)].level] :
                  SlackBounds(S).lower[Slack(f)].val <= Extended(s)[Slack(f)]
             /\ \A s \in G[SlackBounds(S).upper[Slack(f)].level] :
                  Extended(s)[Slack(f)] <= SlackBounds(S).upper[Slack(f)].val
    <2> DEFINE up == current.upper[f]
               lo == current.lower[B[f]]
               m == Max({up.level, lo.level})
    <2>1. f \in F /\ f \in Var /\ B[f] \in Var /\ PairOfSlack(Slack(f)) = f /\ Slack(f) \in Slacks(S)
      BY PairFacts, ColumnFacts DEF ActivePairs, Slacks
    <2>2. up \in Bound /\ lo \in Bound
      BY <1>1, <2>1 DEF SoundFor, State
    <2>3. up.level \in Nat /\ lo.level \in Nat /\ up.val \in Int /\ lo.val \in Int
      BY <2>2 DEF Bound
    <2>4. m \in {up.level, lo.level} /\ up.level <= m /\ lo.level <= m
      <3> HIDE DEF up, lo
      <3> QED BY <2>3, LaterLevel
    <2>5. /\ SlackBounds(S).lower[Slack(f)] = [val |-> 0, level |-> 0]
          /\ SlackBounds(S).upper[Slack(f)] = [val |-> up.val - lo.val, level |-> m]
      BY <2>1 DEF SlackBounds, SlackUpper
    <2>6. up.level <= k /\ lo.level <= k /\ m \in Nat /\ m <= k
      <3>1. up.level <= k /\ lo.level <= k
        BY <1>1, <2>1 DEF SoundFor, JustifiedBy
      <3> HIDE DEF up, lo, m
      <3> QED BY <2>3, <2>4, <3>1
    <2>7. ASSUME NEW l \in Nat, NEW s \in G[l]
          PROVE  /\ Extended(s)[Slack(f)] = s[f] - s[B[f]] /\ s[f] \in Int /\ s[B[f]] \in Int
                 /\ s[f] - s[B[f]] >= 0
      <3>1. s \in [Var -> Int] /\ ReluHolds(s, f)
        BY <1>1, <2>1 DEF Proper, Relus
      <3>2. s[f] \in Int /\ s[B[f]] \in Int
        BY <2>1, <3>1
      <3>3. Extended(s)[Slack(f)] = s[f] - s[B[f]]
        BY <2>1, <3>1, ExtendedFacts
      <3> QED BY <3>1, <3>2, <3>3 DEF ReluHolds
    <2>8. ASSUME NEW s \in G[m]
          PROVE  Extended(s)[Slack(f)] <= up.val - lo.val
      <3>1. s \in G[up.level] /\ s \in G[lo.level]
        BY <1>1, <2>3, <2>4, <2>6 DEF Proper, Decreasing
      <3>2. s[f] <= up.val /\ lo.val <= s[B[f]]
        BY <1>1, <2>1, <3>1 DEF SoundFor, JustifiedBy
      <3>3. Extended(s)[Slack(f)] = s[f] - s[B[f]] /\ s[f] \in Int /\ s[B[f]] \in Int
        BY <2>6, <2>7
      <3> HIDE DEF up, lo
      <3> QED BY <2>3, <3>2, <3>3
    <2>9. [val |-> 0, level |-> 0] \in Bound /\ [val |-> up.val - lo.val, level |-> m] \in Bound
      BY <2>3, <2>6 DEF Bound
    <2>10. \A s \in G[0] : 0 <= Extended(s)[Slack(f)]
      BY <2>7
    <2> HIDE DEF up, lo, m
    <2> QED BY <1>0, <2>5, <2>6, <2>8, <2>9, <2>10
<1> QED BY <1>2 DEF BoundsIn, Slacks

\* fixOutOfBounds starts the LP solver.
LEMMA FixSound ==
  ASSUME RowInv, FixOutOfBounds
  PROVE  RowInv'
<1>1. PICK S \in {{}, ActivePairs(current)} : slacks' = SlackBounds(S)
  BY DEF FixOutOfBounds
<1>2. S \in SUBSET ActivePairs(current) /\ current' = current /\ backup' = current
      /\ UNCHANGED <<solutions, preprocessed, stack>> /\ pc' = "solving" /\ index' = 0
  BY <1>1 DEF FixOutOfBounds
<1>3. \A G \in Readings(current, stack, Len(stack)) : BoundsIn(G, slacks', Len(stack), Slacks(S))
  BY <1>1, <1>2, SlackBoundsSound
<1>4. DOMAIN slacks'.lower = Slacks(S)
  BY <1>1 DEF SlackBounds
<1>5. SlackInv'
  BY <1>2, <1>3, <1>4 DEF SlackInv, SlacksSound, Readings, Everywhere, SplitOnly, MergedPairs,
                          ActivePairs
<1> QED BY <1>2, <1>5, RowInvNext DEF RowInv

(***************************************************************************)
(* Bounds that are no looser than those of a sound state, and sound, make a*)
(* sound state.                                                            *)
(***************************************************************************)
LEMMA TighterSound ==
  ASSUME NEW G, NEW k \in Nat, NEW st, SoundFor(G, st, k), NEW new \in State,
         BoundsIn(G, new, k, Var), Proper(G), new.dissolved = st.dissolved,
         \A x \in Var : new.lower[x].val >= st.lower[x].val /\ new.upper[x].val <= st.upper[x].val
  PROVE  SoundFor(G, new, k)
<1>1. \A x \in Var : new.lower[x] \in Bound /\ new.upper[x] \in Bound
  BY DEF BoundsIn
<1>3. st \in State /\ new.dissolved = st.dissolved
  BY DEF SoundFor
<1>5. ASSUME NEW x \in Var
      PROVE  /\ new.lower[x].val \in Int /\ st.lower[x].val \in Int
             /\ new.upper[x].val \in Int /\ st.upper[x].val \in Int
  BY <1>3 DEF State, Bound
<1>6. PairBounds(new) /\ MergeBounds(new)
  <2>1. ASSUME NEW f \in F
        PROVE  /\ new.lower[f].val >= st.lower[f].val /\ new.upper[f].val <= st.upper[f].val
               /\ new.lower[B[f]].val >= st.lower[B[f]].val
               /\ new.lower[f].val \in Int /\ new.upper[f].val \in Int
               /\ st.lower[f].val \in Int /\ st.upper[f].val \in Int
               /\ new.lower[B[f]].val \in Int /\ st.lower[B[f]].val \in Int
    <3>1. f \in Var /\ B[f] \in Var
      BY PairFacts
    <3> QED BY <1>5, <3>1
  <2>2. PairBounds(new)
    BY <1>3, <2>1 DEF SoundFor, PairBounds
  <2>3. MergeBounds(new)
    BY <1>3, <2>1 DEF SoundFor, MergeBounds
  <2> QED BY <2>2, <2>3
<1>7. ASSUME NEW x \in Var, NEW l \in Nat, NEW s \in G[l]
      PROVE  Extended(s)[x] = s[x]
  BY <1>7, ExtendedFacts DEF Proper, Linear
<1>8. \A x \in Var : new.lower[x].level \in Nat /\ new.upper[x].level \in Nat
  BY <1>1 DEF Bound
<1>9. JustifiedBy(G, new, k)
  BY <1>7, <1>8 DEF JustifiedBy, BoundsIn
<1> QED BY <1>6, <1>9 DEF SoundFor

\* The bounds that the row r uses while the LP solver runs.
LEMMA UsedSound ==
  ASSUME RowInv, pc = "solving", NEW S \in SUBSET ActivePairs(current),
         SlacksSound(current, stack, S), NEW k, k = Len(stack),
         NEW G \in Readings(current, stack, k)
  PROVE  /\ BoundsIn(G, Used, k, Var \cup Slacks(S))
         /\ DOMAIN Used.lower = Var \cup Slacks(S) /\ DOMAIN Used.upper = Var \cup Slacks(S)
         /\ \A x \in Var : Used.lower[x] = backup.lower[x] /\ Used.upper[x] = backup.upper[x]
<1>1. k \in Nat /\ QueryInv /\ Proper(G)
  BY ReadingsProper DEF RowInv
<1>2. G \in Readings(backup, stack, k)
  BY DEF RowInv, Readings, SplitOnly, MergedPairs
<1>3. BoundsIn(G, backup, k, Var)
  BY <1>1, <1>2, JustifiedColumns DEF RowInv, Sound
<1>4. BoundsIn(G, slacks, k, Slacks(S)) /\ DOMAIN slacks.lower = Slacks(S)
  BY DEF SlacksSound
<1>5. ASSUME NEW z \in Var
      PROVE  Used.lower[z] = backup.lower[z] /\ Used.upper[z] = backup.upper[z]
  BY DEF Used, WithSlacks
<1>6. ASSUME NEW z \in Slacks(S)
      PROVE  Used.lower[z] = slacks.lower[z] /\ Used.upper[z] = slacks.upper[z]
  <2>1. z \notin Var
    BY ColumnFacts DEF Slacks, ActivePairs
  <2> QED BY <1>4, <2>1 DEF Used, WithSlacks
<1>7. BoundsIn(G, Used, k, Var \cup Slacks(S))
  BY <1>3, <1>4, <1>5, <1>6 DEF BoundsIn
<1> QED BY <1>4, <1>5, <1>7 DEF Used, WithSlacks

\* Stored bounds are sound, and no looser than those they replace.
LEMMA StoredSound ==
  ASSUME RowInv, pc = "solving", NEW S \in SUBSET ActivePairs(current),
         SlacksSound(current, stack, S), NEW k, k = Len(stack),
         NEW r \in RowsOf[<<MergedPairs(current), S>>], NEW x \in Support(r),
         NEW G \in Readings(current, stack, k)
  PROVE  /\ BoundsIn(G, Stored(r, x), k, Var \cup Slacks(S))
         /\ \A y \in Var : /\ Stored(r, x).lower[y].val >= backup.lower[y].val
                           /\ Stored(r, x).upper[y].val <= backup.upper[y].val
<1> DEFINE D == Var \cup Slacks(S)
           up == RowUpper(Used, r, x)
           lo == RowLower(Used, r, x)
<1>1. k \in Nat /\ QueryInv /\ Sound(current, stack, k) /\ S \in SUBSET F
      /\ MergedPairs(current) \cap S = {}
  BY DEF RowInv, MergedPairs, ActivePairs, Active
<1>2. \A H \in Readings(current, stack, k) : BoundsIn(H, Used, k, D)
  BY UsedSound
<1>3. LowerHolds(G, x, lo, k) /\ UpperHolds(G, x, up, k)
  BY <1>1, <1>2, RowBoundsSure DEF LowerSure, UpperSure
<1>4. x \in D
  BY <1>1, RowsSound
<1>5. /\ DOMAIN Used.lower = D /\ DOMAIN Used.upper = D
      /\ \A y \in Var : Used.lower[y] = backup.lower[y] /\ Used.upper[y] = backup.upper[y]
  BY UsedSound
<1>6. \A y \in D : Used.lower[y].val \in Int /\ Used.upper[y].val \in Int
  BY <1>2 DEF BoundsIn, Bound
<1>7. lo.val \in Int /\ up.val \in Int
  BY <1>3 DEF LowerHolds, UpperHolds
<1>8. BoundsIn(G, Used, k, D)
  BY <1>2
<1> HIDE DEF D, up, lo
<1>9. /\ Stored(r, x).lower = IF lo.val > Used.lower[x].val
                             THEN [Used.lower EXCEPT ![x] = lo] ELSE Used.lower
      /\ Stored(r, x).upper = IF up.val < Used.upper[x].val
                             THEN [Used.upper EXCEPT ![x] = up] ELSE Used.upper
  BY DEF Stored, Raises, Lowers, up, lo
<1>10. ASSUME NEW y \in D
       PROVE  /\ Stored(r, x).lower[y] = IF y = x /\ lo.val > Used.lower[x].val
                                        THEN lo ELSE Used.lower[y]
              /\ Stored(r, x).upper[y] = IF y = x /\ up.val < Used.upper[x].val
                                        THEN up ELSE Used.upper[y]
  BY <1>5, <1>9
<1>11. ASSUME NEW y \in D
       PROVE  /\ Stored(r, x).lower[y].val >= Used.lower[y].val
              /\ Stored(r, x).upper[y].val <= Used.upper[y].val
  BY <1>4, <1>6, <1>7, <1>10
<1>12. /\ lo \in Bound /\ lo.level <= k /\ \A s \in G[lo.level] : lo.val <= Extended(s)[x]
       /\ up \in Bound /\ up.level <= k /\ \A s \in G[up.level] : Extended(s)[x] <= up.val
  BY <1>1, <1>3 DEF LowerHolds, UpperHolds
<1>13. BoundsIn(G, Stored(r, x), k, D)
  BY <1>8, <1>10, <1>12 DEF BoundsIn
<1>14. Var \subseteq D
  BY DEF D
<1> QED BY <1>5, <1>11, <1>13, <1>14 DEF D

\* storeGlpkBoundTightening.
LEMMA StoreSound ==
  ASSUME RowInv, NEW r \in LpRows, NEW x \in Column, StoreGlpkBound(r, x)
  PROVE  RowInv'
<1> DEFINE stored == Stored(r, x)
           k == Len(stack)
<1>1. PICK S \in SUBSET ActivePairs(current) : SlacksSound(current, stack, S)
  BY DEF RowInv, SlackInv
<1>2. LpPairs = S
  BY <1>1, ColumnFacts DEF SlacksSound, LpPairs, Slacks, ActivePairs
<1>3. r \in RowsOf[<<MergedPairs(current), S>>] /\ x \in Support(r) /\ pc = "solving"
  BY <1>2 DEF LpRows, StoreGlpkBound
<1>4. /\ k \in Nat /\ QueryInv /\ UNCHANGED <<solutions, preprocessed, current, stack, index>>
      /\ Sound(current, stack, k)
  BY DEF StoreGlpkBound, RowInv
<1>5. CASE BoundInvariantHolds(stored, x)
  <2>1. /\ backup' = [lower |-> Part(stored.lower, Var), upper |-> Part(stored.upper, Var),
                      dissolved |-> current.dissolved]
        /\ slacks' = [lower |-> Part(stored.lower, Slacks(S)),
                      upper |-> Part(stored.upper, Slacks(S))]
        /\ pc' = "solving"
    BY <1>1, <1>3, <1>5 DEF StoreGlpkBound, SlacksSound
  <2>2. ASSUME NEW G \in Readings(current, stack, k)
        PROVE  SoundFor(G, backup', k) /\ BoundsIn(G, slacks', k, Slacks(S))
    <3>1. /\ BoundsIn(G, stored, k, Var \cup Slacks(S))
          /\ \A y \in Var : /\ stored.lower[y].val >= backup.lower[y].val
                            /\ stored.upper[y].val <= backup.upper[y].val
      BY <1>1, <1>3, StoredSound
    <3>2. SoundFor(G, backup, k) /\ Proper(G) /\ backup.dissolved = current.dissolved
      <4>1. backup.dissolved = current.dissolved
        BY <1>3 DEF RowInv
      <4>2. G \in Readings(backup, stack, k)
        BY <4>1 DEF Readings, SplitOnly, MergedPairs
      <4> QED BY <1>4, <4>1, <4>2, ReadingsProper DEF RowInv, Sound
    <3> HIDE DEF stored
    <3>3. /\ \A y \in Var : /\ backup'.lower[y] = stored.lower[y]
                            /\ backup'.upper[y] = stored.upper[y]
          /\ backup'.dissolved = backup.dissolved
      BY <2>1, <3>2 DEF Part
    <3>7. backup' \in State
      <4>1. \A y \in Var : stored.lower[y] \in Bound /\ stored.upper[y] \in Bound
        BY <3>1 DEF BoundsIn
      <4>2. Part(stored.lower, Var) \in [Var -> Bound] /\ Part(stored.upper, Var) \in [Var -> Bound]
        BY <4>1 DEF Part
      <4>3. current.dissolved \in [F -> Phase \cup {Active}]
        BY <3>2 DEF SoundFor, State
      <4> QED BY <2>1, <4>2, <4>3 DEF State
    <3>4. BoundsIn(G, backup', k, Var)
      BY <3>1, <3>3 DEF BoundsIn
    <3>5. SoundFor(G, backup', k)
      BY <1>4, <3>1, <3>2, <3>3, <3>4, <3>7, TighterSound
    <3>6. BoundsIn(G, slacks', k, Slacks(S))
      BY <2>1, <3>1 DEF BoundsIn, Part
    <3> QED BY <3>5, <3>6
  <2> HIDE DEF stored
  <2>3. backup'.dissolved = current.dissolved /\ Readings(backup', stack, k) = Readings(current, stack, k)
    BY <2>1 DEF Readings, SplitOnly, MergedPairs
  <2>4. Sound(backup', stack, k) /\ MergedPairs(backup') \subseteq MergedPairs(current')
    BY <1>4, <2>2, <2>3 DEF Sound, MergedPairs
  <2>5. DOMAIN slacks'.lower = Slacks(S)
    BY <2>1 DEF Part
  <2>6. SlackInv'
    BY <1>4, <2>1, <2>2, <2>5 DEF SlackInv, SlacksSound, Readings, Everywhere, SplitOnly,
                                  MergedPairs, ActivePairs
  <2> QED BY <1>4, <2>3, <2>4, <2>6, RowInvNext DEF RowInv
<1>6. CASE ~BoundInvariantHolds(stored, x)
  <2>1. backup' = current /\ slacks' = NoSlacks /\ StartPop(ViolatingLevel(stored, x))
    BY <1>6 DEF StoreGlpkBound
  <2>2. pc' # "solving"
    BY <2>1, StartPopPc
  <2> QED BY <1>4, <2>1, <2>2, StackKept DEF RowInv
<1> QED BY <1>5, <1>6

\* Steps that learn nothing.
LEMMA LpAnswersSound ==
  ASSUME RowInv, LpSolutionFound \/ LpNoSolution \/ StoredApplied \/ TightenDone \/ SatFound
                 \/ (PopEmpty /\ UNCHANGED slacks)
  PROVE  RowInv'
<1>1. /\ UNCHANGED <<solutions, preprocessed, stack, current>> /\ index' \in Nat
      /\ backup' = backup \/ backup' = current
      /\ pc' # "solving"
      /\ (pc # "solving" /\ slacks' = slacks) \/ slacks' = NoSlacks
  BY StartPopPc DEF LpSolutionFound, LpNoSolution, StoredApplied, TightenDone, SatFound, PopEmpty,
                    Stop, RowInv
<1>2. Sound(backup', stack, Len(stack)) /\ MergedPairs(backup') \subseteq MergedPairs(current')
  BY <1>1 DEF RowInv
<1> QED BY <1>1, <1>2, StackKept DEF RowInv

(***************************************************************************)
(* Stored bounds were learned from a state of which no more pairs were     *)
(* merged, so all readings of the present one confirm them.                *)
(***************************************************************************)
LEMMA StoredSure ==
  ASSUME RowInv, NEW x \in Var, NEW k, k = Len(stack)
  PROVE  /\ LowerSure(current, stack, k, x, backup.lower[x])
         /\ UpperSure(current, stack, k, x, backup.upper[x])
<1>1. k \in Nat /\ QueryInv
  BY DEF RowInv
<1>2. ASSUME NEW G \in Readings(current, stack, k)
      PROVE  BoundsIn(G, backup, k, Var)
  <2>1. G \in Readings(backup, stack, k)
    BY ReadingsShrink DEF RowInv
  <2> QED BY <1>1, <2>1, ReadingsProper, JustifiedColumns DEF RowInv, Sound
<1>3. ASSUME NEW b \in Bound, b.level <= k
      PROVE  b.val \in Int /\ b.level \in 0..k
  BY <1>1, <1>3 DEF Bound
<1> QED BY <1>2, <1>3 DEF BoundsIn, LowerSure, UpperSure, LowerHolds, UpperHolds

\* performGlpkBoundTightening, one bound.
LEMMA ApplyStoredSound ==
  ASSUME RowInv, ApplyStored
  PROVE  RowInv'
<1> DEFINE x == index % NumVariables
           lower == backup.lower[x]
           upper == backup.upper[x]
           k == Len(stack)
           o == IF index < NumVariables /\ Raises(current, x, lower)
                THEN UpdateLowerBound(current, x, lower.val, lower.level)
                ELSE IF index >= NumVariables /\ Lowers(current, x, upper)
                THEN UpdateUpperBound(current, x, upper.val, upper.level)
                ELSE Unchanged
<1>1. x \in Var
  <2>1. NumVariables \in Nat /\ index \in Nat /\ index < 2 * NumVariables
    BY ColumnFacts DEF ApplyStored, RowInv
  <2>2. NumVariables > 0
    BY <2>1
  <2>3. index % NumVariables \in 0..NumVariables - 1
    BY <2>1, <2>2
  <2> QED BY <2>3 DEF Var
<1>2. /\ k \in Nat /\ QueryInv /\ pc = "learning" /\ index' \in Nat
      /\ UNCHANGED <<slacks, solutions, preprocessed, stack>>
      /\ Sound(current, stack, k)
      /\ Apply(o, "learning")
  BY DEF ApplyStored, RowInv
<1> HIDE DEF x
<1>3. LowerSure(current, stack, k, x, lower) /\ UpperSure(current, stack, k, x, upper)
  BY <1>1, StoredSure
<1>4. Sound(o.state, stack, k) /\ MergedPairs(current) \subseteq MergedPairs(o.state)
  <2>1. CASE index < NumVariables /\ Raises(current, x, lower)
    BY <1>1, <1>2, <1>3, <2>1, LowerKeepsSound
  <2>2. CASE ~(index < NumVariables /\ Raises(current, x, lower))
             /\ index >= NumVariables /\ Lowers(current, x, upper)
    BY <1>1, <1>2, <1>3, <2>2, UpperKeepsSound
  <2>3. CASE o = Unchanged
    BY <1>2, <2>3 DEF Unchanged
  <2> QED BY <2>1, <2>2, <2>3
<1> HIDE DEF o
<1> QED BY <1>2, <1>4, AppliedSound

\* tightenBoundsOnRow, one variable.
LEMMA TightenSound ==
  ASSUME RowInv, NEW r \in TableauRows(current), NEW x \in Var, TightenBoundsOnRow(r, x)
  PROVE  RowInv'
<1> DEFINE up == RowUpper(current, r, x)
           lo == RowLower(current, r, x)
           k == Len(stack)
           first == IF Lowers(current, x, up)
                    THEN UpdateUpperBound(current, x, up.val, up.level)
                    ELSE Unchanged
           o == IF first.conflict = NoConflict /\ Raises(first.state, x, lo)
                THEN UpdateLowerBound(first.state, x, lo.val, lo.level)
                ELSE first
<1>1. /\ k \in Nat /\ QueryInv /\ pc = "tightening" /\ x \in Support(r) /\ index' \in Nat
      /\ UNCHANGED <<slacks, solutions, preprocessed, stack>>
      /\ Sound(current, stack, k)
      /\ Apply(o, "tightening")
  BY DEF TightenBoundsOnRow, RowInv
<1>2. LowerSure(current, stack, k, x, lo) /\ UpperSure(current, stack, k, x, up)
  <2>1. {} \in SUBSET F /\ MergedPairs(current) \cap {} = {} /\ Slacks({}) = {}
        /\ r \in RowsOf[<<MergedPairs(current), {}>>]
    BY DEF Slacks, TableauRows
  <2>2. \A G \in Readings(current, stack, k) : BoundsIn(G, current, k, Var)
    BY <1>1, ReadingsProper, JustifiedColumns DEF Sound
  <2>3. \A G \in Readings(current, stack, k) : BoundsIn(G, current, k, Var \cup Slacks({}))
    BY <2>1, <2>2
  <2> QED BY <1>1, <2>1, <2>3, RowBoundsSure
<1> HIDE DEF up, lo
<1>3. Sound(first.state, stack, k) /\ MergedPairs(current) \subseteq MergedPairs(first.state)
  <2>1. CASE Lowers(current, x, up)
    BY <1>1, <1>2, <2>1, UpperKeepsSound
  <2>2. CASE ~Lowers(current, x, up)
    BY <1>1, <2>2 DEF Unchanged
  <2> QED BY <2>1, <2>2
<1> HIDE DEF first
<1>4. LowerSure(first.state, stack, k, x, lo)
  BY <1>2, <1>3, ReadingsShrink DEF LowerSure
<1>5. Sound(o.state, stack, k) /\ MergedPairs(current) \subseteq MergedPairs(o.state)
  <2>1. CASE first.conflict = NoConflict /\ Raises(first.state, x, lo)
    <3>1. /\ Sound(UpdateLowerBound(first.state, x, lo.val, lo.level).state, stack, k)
          /\ MergedPairs(first.state)
               \subseteq MergedPairs(UpdateLowerBound(first.state, x, lo.val, lo.level).state)
      BY <1>1, <1>3, <1>4, <2>1, LowerKeepsSound
    <3> QED BY <1>3, <2>1, <3>1
  <2>2. CASE ~(first.conflict = NoConflict /\ Raises(first.state, x, lo))
    BY <1>3, <2>2
  <2> QED BY <2>1, <2>2
<1> HIDE DEF o
<1> QED BY <1>1, <1>5, AppliedSound

(***************************************************************************)
(* Decisions and pops.                                                     *)
(***************************************************************************)
LEMMA SavedSound ==
  ASSUME NEW stk, NEW stk2, NEW n \in Nat, \A i \in 1..n : stk2[i] = stk[i],
         \A i \in 1..n : Sound(stk[i].saved, stk, i - 1)
  PROVE  \A i \in 1..n : Sound(stk2[i].saved, stk2, i - 1)
<1>1. ASSUME NEW i \in 1..n
      PROVE  Sound(stk2[i].saved, stk2, i - 1)
  <2>1. /\ i - 1 \in Nat /\ i - 1 <= i - 1 /\ stk2[i].saved = stk[i].saved
        /\ \A j \in 1..i - 1 : stk2[j] = stk[j]
    OBVIOUS
  <2>2. Sound(stk[i].saved, stk, i - 1)
    OBVIOUS
  <2> QED BY <2>1, <2>2, SoundPrefix
<1> QED BY <1>1

\* A decision, and the bounds that it saves.
LEMMA DissolveSound ==
  ASSUME RowInv, UNCHANGED slacks, NEW f \in F, NEW p \in Phase, DissolveReluOnVar(f, p)
  PROVE  RowInv'
<1> DEFINE n == Len(stack)
           e == [var |-> f, type |-> p, first |-> TRUE, saved |-> current]
           stk == Append(stack, e)
           o == Decided(current, f, p, n + 1)
<1>1. /\ QueryInv /\ n \in Nat /\ stack \in Seq(Entry) /\ Sound(current, stack, n)
      /\ \A i \in 1..n : Sound(stack[i].saved, stack, i - 1)
  BY DEF RowInv
<1>2. /\ stack' = stk /\ pc = "loop" /\ index' = index /\ Apply(o, "loop")
      /\ UNCHANGED <<solutions, preprocessed, slacks>>
  BY DEF DissolveReluOnVar
<1>3. e \in Entry
  <2>1. current \in State
    BY <1>1 DEF Sound, Readings, SoundFor
  <2> QED BY <2>1 DEF Entry
<1>4. /\ stk \in Seq(Entry) /\ Len(stk) = n + 1 /\ stk[n + 1] = e
      /\ \A i \in 1..n : stk[i] = stack[i]
  BY <1>1, <1>3, AppendProperties
<1> HIDE DEF stk
<1>5. Sound(current, stk, n) /\ Sound(current, stk, n + 1)
  BY <1>1, <1>4, SoundPrefix
<1>6. Sound(o.state, stk, n + 1)
  BY <1>1, <1>4, <1>5, DecisionKeepsSound
<1>7. ASSUME NEW i \in 1..n + 1
      PROVE  Sound(stk[i].saved, stk, i - 1)
  <2>1. CASE i \in 1..n
    BY <1>1, <1>4, <2>1, SavedSound
  <2>2. CASE i = n + 1
    BY <1>1, <1>4, <1>5, <2>2
  <2> QED BY <1>1, <2>1, <2>2
<1> HIDE DEF o
<1>8. current' = o.state /\ backup' = o.state /\ pc' # "solving"
  BY <1>2, StartPopPc DEF Apply
<1>9. SlackInv'
  BY <1>2, <1>8, NoSlackInv DEF RowInv
<1> HIDE DEF e, n
<1>10. index' \in Nat
  BY <1>2 DEF RowInv
<1> QED BY <1>1, <1>2, <1>4, <1>6, <1>7, <1>8, <1>9, <1>10, RowInvNext

\* A pop brings back saved bounds.
LEMMA PopSound ==
  ASSUME RowInv, UNCHANGED slacks, PopFlip \/ PopDiscard
  PROVE  RowInv'
<1> DEFINE n == Len(stack)
<1>1. /\ QueryInv /\ n \in Nat /\ stack \in Seq(Entry) /\ pc = "popping"
      /\ \A i \in 1..n : Sound(stack[i].saved, stack, i - 1)
      /\ UNCHANGED <<solutions, preprocessed>> /\ index' = 0 /\ stack # <<>>
  BY DEF RowInv, PopFlip, PopDiscard
<1>2. n > 0 /\ n - 1 \in Nat /\ Top \in Entry /\ Top = stack[n]
  BY <1>1, EmptySeq, ElementOfSeq DEF Top
<1>3. Sound(Top.saved, stack, n - 1)
  BY <1>1, <1>2
<1>4. ASSUME NEW stk, \A i \in 1..n - 1 : stk[i] = stack[i]
      PROVE  \A i \in 1..n - 1 : Sound(stk[i].saved, stk, i - 1)
  <2>1. \A i \in 1..n - 1 : Sound(stack[i].saved, stack, i - 1)
    BY <1>1, <1>2
  <2> HIDE DEF n
  <2> QED BY <1>2, <1>4, <2>1, SavedSound
<1>5. CASE PopFlip
  <2> DEFINE p == Opposite(Top.type)
             e == [var |-> Top.var, type |-> p, first |-> FALSE, saved |-> Top.saved]
             stk == [stack EXCEPT ![n] = e]
             o == Decided(Top.saved, Top.var, p, n)
  <2>1. /\ stack' = stk /\ current' = o.state /\ backup' = o.state /\ pc' # "solving"
    BY <1>5 DEF PopFlip, Stop
  <2>2. e \in Entry /\ Top.var \in F /\ p \in Phase
    BY <1>2 DEF Entry, Opposite, Phase
  <2>3. /\ stk \in Seq(Entry) /\ Len(stk) = n /\ stk[n] = e
        /\ \A i \in 1..n - 1 : stk[i] = stack[i]
    <3> HIDE DEF e
    <3>1. n \in 1..Len(stack)
      BY <1>2
    <3>2. \A j \in 1..Len(stack) : stk[j] = IF j = n THEN e ELSE stack[j]
      BY <1>1, <2>2, <3>1, ExceptSeq
    <3>3. stk \in Seq(Entry) /\ Len(stk) = n
      BY <1>1, <2>2, <3>1, ExceptSeq
    <3> HIDE DEF stk
    <3>4. \A i \in 1..n - 1 : i \in 1..Len(stack) /\ i # n
      BY <1>2
    <3> QED BY <3>1, <3>2, <3>3, <3>4
  <2> HIDE DEF stk
  <2>4. Sound(Top.saved, stk, n - 1) /\ Sound(Top.saved, stk, n)
    <3>1. n - 1 <= n - 1 /\ n - 1 <= n /\ n \in Nat /\ n - 1 \in Nat
      BY <1>2
    <3>2. \A i \in 1..n - 1 : stk[i].var = stack[i].var /\ stk[i].type = stack[i].type
      BY <2>3
    <3> HIDE DEF n, e
    <3> QED BY <1>3, <3>1, <3>2, SoundPrefix
  <2>5. Sound(o.state, stk, n)
    BY <1>1, <1>2, <2>2, <2>3, <2>4, DecisionKeepsSound
  <2>6. ASSUME NEW i \in 1..n
        PROVE  Sound(stk[i].saved, stk, i - 1)
    <3>1. CASE i \in 1..n - 1
      BY <1>4, <2>3, <3>1
    <3>2. CASE i = n
      BY <2>3, <2>4, <3>2
    <3> QED BY <1>1, <3>1, <3>2
  <2> HIDE DEF o
  <2>7. SlackInv'
    BY <1>1, <2>1, NoSlackInv DEF RowInv
  <2> HIDE DEF n, e
  <2> QED BY <1>1, <2>1, <2>3, <2>5, <2>6, <2>7, RowInvNext
<1>6. CASE PopDiscard
  <2> DEFINE stk == SubSeq(stack, 1, n - 1)
  <2>1. /\ stack' = stk /\ current' = Top.saved /\ backup' = Top.saved /\ pc' # "solving"
    BY <1>1, <1>6 DEF PopDiscard
  <2>2. /\ stk \in Seq(Entry) /\ Len(stk) = n - 1
        /\ \A i \in 1..n - 1 : stk[i] = stack[i]
    <3>1. \A i \in 1..n - 1 : stack[i] \in Entry
      BY <1>1, <1>2, ElementOfSeq
    <3>2. /\ n - 1 \in Int /\ 1 \in Int /\ (n - 1) - 1 + 1 = n - 1
          /\ (IF 1 <= n - 1 THEN (n - 1) - 1 + 1 ELSE 0) = n - 1
          /\ \A i \in 1..n - 1 : i \in 1..(n - 1) - 1 + 1 /\ 1 + i - 1 = i
      <4>1. PICK m \in Nat : m = n - 1
        BY <1>1, <1>2
      <4>2. m \in Int /\ m - 1 + 1 = m /\ (IF 1 <= m THEN m - 1 + 1 ELSE 0) = m
            /\ \A i \in 1..m : i \in 1..m - 1 + 1 /\ 1 + i - 1 = i
        OBVIOUS
      <4> QED BY <4>1, <4>2
    <3>3. stk \in Seq(Entry) /\ Len(stk) = n - 1
      BY <3>1, <3>2, SubSeqProperties
    <3>4. \A i \in 1..(n - 1) - 1 + 1 : stk[i] = stack[1 + i - 1]
      BY <3>1, <3>2, SubSeqProperties
    <3> HIDE DEF stk
    <3> QED BY <3>2, <3>3, <3>4
  <2> HIDE DEF stk
  <2>3. Sound(Top.saved, stk, n - 1)
    BY <1>2, <1>3, <2>2, SoundPrefix
  <2>4. \A i \in 1..n - 1 : Sound(stk[i].saved, stk, i - 1)
    BY <1>4, <2>2
  <2>5. SlackInv'
    BY <1>1, <2>1, NoSlackInv DEF RowInv
  <2> HIDE DEF n
  <2> QED BY <1>1, <2>1, <2>2, <2>3, <2>4, <2>5, RowInvNext
<1> QED BY <1>5, <1>6

\* The bounds before the main loop hold in all solutions.
LEMMA RowInitInv == RowInit => RowInv
<1> SUFFICES ASSUME RowInit PROVE RowInv
  OBVIOUS
<1>1. /\ preprocessed \in Preprocessed /\ current = preprocessed /\ backup = preprocessed
      /\ stack = <<>> /\ index = 0 /\ pc = "loop" /\ QueryInv /\ slacks = NoSlacks
  BY DEF RowInit, Init, QueryInv
<1>2. stack \in Seq(Entry) /\ Len(stack) = 0
  BY <1>1
<1>3. ASSUME NEW G \in Readings(preprocessed, stack, 0)
      PROVE  SoundFor(G, preprocessed, 0)
  <2>1. preprocessed \in State
    BY <1>1, BoundsAssumption
  <2>2. PairBounds(preprocessed)
    BY <1>1, BoundsAssumption DEF PairBounds
  <2>3. MergeBounds(preprocessed)
    BY <1>1, InitialPairs DEF MergeBounds
  <2>4. JustifiedBy(G, preprocessed, 0)
    <3>1. ASSUME NEW x \in Var
          PROVE  preprocessed.lower[x].level = 0 /\ preprocessed.upper[x].level = 0
      BY <1>1, BoundsAssumption
    <3>2. ASSUME NEW s \in G[0], NEW x \in Var
          PROVE  preprocessed.lower[x].val <= s[x] /\ s[x] <= preprocessed.upper[x].val
      <4>1. s \in solutions
        BY <1>1, ReadingsProper
      <4> QED BY <1>1, <4>1, SolutionFacts DEF IsSolution
    <3> QED BY <3>1, <3>2 DEF JustifiedBy
  <2> QED BY <2>1, <2>2, <2>3, <2>4 DEF SoundFor
<1>4. Sound(preprocessed, stack, 0)
  BY <1>3 DEF Sound
<1>5. SlackInv
  <2>1. Slacks({}) = {} /\ {} \in SUBSET ActivePairs(current)
    BY DEF Slacks
  <2>2. DOMAIN slacks.lower = {}
    BY <1>1, <2>1 DEF NoSlacks, SlackBounds
  <2> QED BY <2>1, <2>2 DEF SlackInv, SlacksSound, BoundsIn
<1> QED BY <1>1, <1>2, <1>4, <1>5 DEF RowInv

\* Every step preserves the invariant.
LEMMA RowNextInv == RowInv /\ [RowNext]_rowVars => RowInv'
<1> SUFFICES ASSUME RowInv, [RowNext]_rowVars PROVE RowInv'
  OBVIOUS
<1>1. CASE FixOutOfBounds
  BY <1>1, FixSound
<1>2. CASE LpSolutionFound \/ LpNoSolution \/ StoredApplied \/ TightenDone \/ SatFound
           \/ (PopEmpty /\ UNCHANGED slacks)
  BY <1>2, LpAnswersSound
<1>3. CASE ApplyStored
  BY <1>3, ApplyStoredSound
<1>4. CASE \E r \in LpRows, x \in Column : StoreGlpkBound(r, x)
  BY <1>4, StoreSound
<1>5. CASE \E r \in TableauRows(current), x \in Var : TightenBoundsOnRow(r, x)
  BY <1>5, TightenSound
<1>6. CASE UNCHANGED slacks /\ \E f \in F, p \in Phase : DissolveReluOnVar(f, p)
  BY <1>6, DissolveSound
<1>7. CASE UNCHANGED slacks /\ (PopFlip \/ PopDiscard)
  BY <1>7, PopSound
<1>8. CASE UNCHANGED rowVars \/ (UNCHANGED slacks /\ Terminated)
  <2>1. UNCHANGED rowVars
    BY <1>8 DEF Terminated, rowVars
  <2> QED BY <2>1 DEF rowVars, vars, RowInv, QueryInv, SolutionsOf, IsSolution, ReluHolds, Sound,
       Readings, Everywhere, SplitOnly, MergedPairs, SlackInv, SlacksSound, ActivePairs
<1> QED BY <1>1, <1>2, <1>3, <1>4, <1>5, <1>6, <1>7, <1>8 DEF RowNext

\* The solutions that follow all decisions are those of the first reading.
LEMMA EverywhereHolds ==
  ASSUME RowInv, NEW s \in solutions, Agrees(s, Len(stack)), NEW st \in {current, backup},
         NEW x \in Var
  PROVE  st.lower[x].val <= s[x] /\ s[x] <= st.upper[x].val
<1>1. Len(stack) \in Nat
  BY DEF RowInv
<1>2. Everywhere(stack, Len(stack)) \in Readings(st, stack, Len(stack))
  BY DEF Readings
<1>3. SoundFor(Everywhere(stack, Len(stack)), st, Len(stack))
  BY <1>2 DEF RowInv, Sound
<1>4. \A l \in Nat : s \in Everywhere(stack, Len(stack))[l]
  BY <1>1 DEF Everywhere, FollowersOf, Agrees
<1>5. st.lower[x].level \in Nat /\ st.upper[x].level \in Nat
  BY <1>3 DEF SoundFor, State, Bound
<1> QED BY <1>3, <1>4, <1>5 DEF SoundFor, JustifiedBy

\* The invariant gives the properties that the runs check.
LEMMA RowInvHolds == RowInv => BoundsHold
<1> SUFFICES ASSUME RowInv, NEW s \in solutions, Agrees(s, Len(stack))
             PROVE  \A f \in LpPairs : s[f] - s[B[f]]
                      \in slacks.lower[Slack(f)].val..slacks.upper[Slack(f)].val
  BY EverywhereHolds DEF BoundsHold
<1>1. PICK S \in SUBSET ActivePairs(current) : SlacksSound(current, stack, S)
  BY DEF RowInv, SlackInv
<1>2. LpPairs = S /\ S \subseteq F
  BY <1>1, ColumnFacts DEF SlacksSound, LpPairs, Slacks, ActivePairs
<1> TAKE f \in LpPairs
<1> DEFINE G == Everywhere(stack, Len(stack))
<1>3. Len(stack) \in Nat /\ QueryInv
  BY DEF RowInv
<1>4. G \in Readings(current, stack, Len(stack))
  BY DEF Readings
<1>5. BoundsIn(G, slacks, Len(stack), Slacks(S)) /\ Slack(f) \in Slacks(S)
  BY <1>1, <1>2, <1>4 DEF SlacksSound, Slacks
<1>6. \A l \in Nat : s \in G[l]
  BY <1>3 DEF Everywhere, FollowersOf, Agrees
<1> HIDE DEF G
<1>7. /\ slacks.lower[Slack(f)].level \in Nat /\ slacks.upper[Slack(f)].level \in Nat
      /\ slacks.lower[Slack(f)].val \in Int /\ slacks.upper[Slack(f)].val \in Int
  BY <1>5 DEF BoundsIn, Bound
<1>8. slacks.lower[Slack(f)].val <= Extended(s)[Slack(f)]
      /\ Extended(s)[Slack(f)] <= slacks.upper[Slack(f)].val
  BY <1>5, <1>6, <1>7 DEF BoundsIn
<1>9. s \in [Var -> Int] /\ f \in Var /\ B[f] \in Var
  BY <1>2, <1>3, SolutionFacts, PairFacts
<1>10. Extended(s)[Slack(f)] = s[f] - s[B[f]] /\ s[f] - s[B[f]] \in Int
  BY <1>2, <1>9, ExtendedFacts
<1> HIDE DEF Slack
<1> QED BY <1>7, <1>8, <1>10

\* The second reading is about levels.
LEMMA RowInvLevels == RowInv => SplitLevelsSound
<1> SUFFICES ASSUME RowInv, MergedPairs(current) \subseteq MergedPairs(preprocessed)
             PROVE  /\ Justified(current, Len(stack)) /\ Justified(backup, Len(stack))
                    /\ \A s \in solutions, f \in LpPairs :
                         LET slack == s[f] - s[B[f]]
                             lower == slacks.lower[Slack(f)]
                             upper == slacks.upper[Slack(f)]
                         IN  /\ Agrees(s, lower.level) => slack >= lower.val
                             /\ Agrees(s, upper.level) => slack <= upper.val
  BY DEF SplitLevelsSound
<1> DEFINE G == FollowersOf(solutions, stack)
           k == Len(stack)
<1>1. k \in Nat /\ QueryInv
  BY DEF RowInv
<1>2. SplitOnly(current) /\ SplitOnly(backup)
  BY DEF RowInv, SplitOnly
<1>3. G \in Readings(current, stack, k) /\ G \in Readings(backup, stack, k)
  BY <1>2 DEF Readings
<1>4. \A l \in Nat, s \in solutions : Agrees(s, l) <=> s \in G[l]
  BY DEF FollowersOf, Agrees
<1> HIDE DEF G
<1>5. ASSUME NEW st \in {current, backup}
      PROVE  Justified(st, k)
  <2>1. SoundFor(G, st, k)
    BY <1>3 DEF RowInv, Sound
  <2>2. \A x \in Var : st.lower[x].level \in Nat /\ st.upper[x].level \in Nat
    BY <2>1 DEF SoundFor, State, Bound
  <2> QED BY <1>4, <2>1, <2>2 DEF SoundFor, JustifiedBy, Justified
<1>6. ASSUME NEW s \in solutions, NEW f \in LpPairs
      PROVE  /\ Agrees(s, slacks.lower[Slack(f)].level)
                  => s[f] - s[B[f]] >= slacks.lower[Slack(f)].val
             /\ Agrees(s, slacks.upper[Slack(f)].level)
                  => s[f] - s[B[f]] <= slacks.upper[Slack(f)].val
  <2>1. PICK S \in SUBSET ActivePairs(current) : SlacksSound(current, stack, S)
    BY DEF RowInv, SlackInv
  <2>2. LpPairs = S /\ S \subseteq F
    BY <2>1, ColumnFacts DEF SlacksSound, LpPairs, Slacks, ActivePairs
  <2>3. BoundsIn(G, slacks, k, Slacks(S)) /\ Slack(f) \in Slacks(S)
    BY <1>3, <2>1, <2>2 DEF SlacksSound, Slacks
  <2>4. /\ slacks.lower[Slack(f)].level \in Nat /\ slacks.upper[Slack(f)].level \in Nat
        /\ slacks.lower[Slack(f)].val \in Int /\ slacks.upper[Slack(f)].val \in Int
    BY <2>3 DEF BoundsIn, Bound
  <2>5. s \in [Var -> Int] /\ f \in Var /\ B[f] \in Var
    BY <1>1, <2>2, SolutionFacts, PairFacts
  <2>6. Extended(s)[Slack(f)] = s[f] - s[B[f]] /\ s[f] - s[B[f]] \in Int
    BY <2>2, <2>5, ExtendedFacts
  <2>7. /\ s \in G[slacks.lower[Slack(f)].level]
             => slacks.lower[Slack(f)].val <= Extended(s)[Slack(f)]
        /\ s \in G[slacks.upper[Slack(f)].level]
             => Extended(s)[Slack(f)] <= slacks.upper[Slack(f)].val
    BY <2>3 DEF BoundsIn
  <2> HIDE DEF Slack
  <2> QED BY <1>4, <2>4, <2>6, <2>7
<1> QED BY <1>5, <1>6

(***************************************************************************)
(* The invariant of the search with bounds from rows, for every tableau    *)
(* that pivots can make and every choice of rows.                          *)
(***************************************************************************)
THEOREM RowInvariant == RowSpec => []RowInv
<1> QED BY RowInitInv, RowNextInv, PTL DEF RowSpec

(***************************************************************************)
(* tightenBoundsOnRow and storeGlpkBoundTightening compute bounds that hold*)
(* in every solution that follows the decisions made, although columns have*)
(* been merged since the bounds they use were computed.                    *)
(***************************************************************************)
THEOREM RowBoundsHold == RowSpec => []BoundsHold
<1> QED BY RowInvariant, RowInvHolds, PTL

(***************************************************************************)
(* The level computed for such a bound, the last one among the bounds used,*)
(* is right as long as no pair has been merged since the preprocessing.    *)
(***************************************************************************)
THEOREM RowLevelsSound == RowSpec => []SplitLevelsSound
<1> QED BY RowInvariant, RowInvLevels, PTL

-----------------------------------------------------------------------------
(***************************************************************************)
(* The search over the bounds that rows give.  Beside their soundness it   *)
(* needs the shape of dissolved pairs, and that pairs stay as decided.     *)
(***************************************************************************)
RowSearchInv ==
  /\ RowInv
  /\ ShapeInv /\ FollowInv
  /\ pc # "restoring"
  /\ violatingLevel \in Nat /\ currentStackDepth \in Nat

\* Sound states are states.
LEMMA SoundState ==
  ASSUME NEW st, NEW stk, NEW k, Sound(st, stk, k)
  PROVE  st \in State
BY DEF Sound, Readings, SoundFor

\* What decisions and pops need to know.
LEMMA RowTyped ==
  ASSUME RowInv, violatingLevel \in Nat
  PROVE  Typed /\ QueryInv /\ preprocessed \in State
<1>1. current \in State /\ backup \in State
  BY SoundState DEF RowInv
<1>2. preprocessed \in Preprocessed /\ stack \in Seq(Entry) /\ QueryInv
  BY DEF RowInv, QueryInv
<1>3. solutions \subseteq Assignments /\ \A s \in solutions : IsSolution(s, preprocessed)
  BY <1>2, SolutionFacts
<1> QED BY <1>1, <1>2, <1>3, BoundsAssumption DEF Typed

\* Sound bounds hold in the solutions that follow the decisions.
LEMMA SoundHolds ==
  ASSUME RowInv, NEW st, Sound(st, stack, Len(stack)), NEW s \in solutions,
         Agrees(s, Len(stack)), NEW x \in Var
  PROVE  /\ s[x] \in Int /\ st.lower[x].val \in Int /\ st.upper[x].val \in Int
         /\ st.lower[x].val <= s[x] /\ s[x] <= st.upper[x].val
<1>1. Len(stack) \in Nat /\ QueryInv
  BY DEF RowInv
<1>2. Everywhere(stack, Len(stack)) \in Readings(st, stack, Len(stack))
  BY DEF Readings
<1>3. SoundFor(Everywhere(stack, Len(stack)), st, Len(stack))
  BY <1>2 DEF Sound
<1>4. \A l \in Nat : s \in Everywhere(stack, Len(stack))[l]
  BY <1>1 DEF Everywhere, FollowersOf, Agrees
<1>5. /\ st.lower[x].level \in Nat /\ st.upper[x].level \in Nat
      /\ st.lower[x].val \in Int /\ st.upper[x].val \in Int
  BY <1>3 DEF SoundFor, State, Bound
<1>6. s[x] \in Int
  BY <1>1, SolutionFacts
<1> QED BY <1>3, <1>4, <1>5, <1>6 DEF SoundFor, JustifiedBy

\* So no solution follows the decisions if sound bounds contradict each other.
LEMMA SoundRefutes ==
  ASSUME RowInv, NEW st, Sound(st, stack, Len(stack)), NEW x \in Var,
         ~BoundInvariantHolds(st, x)
  PROVE  Refuted(Len(stack))
<1> SUFFICES ASSUME NEW s \in solutions, Agrees(s, Len(stack)) PROVE FALSE
  BY DEF Refuted
<1> QED BY SoundHolds DEF BoundInvariantHolds

\* An update that lowers an upper bound splits the pair of its variable or none.
LEMMA UpperSplits ==
  ASSUME NEW st \in State, NEW x \in Var, NEW v \in Int, NEW l \in Nat
  PROVE  LET new == UpdateUpperBound(st, x, v, l).state
         IN  \/ new.dissolved = st.dissolved
             \/ \E f \in F :
                  /\ x \in {f, B[f]} /\ st.dissolved[f] = Active
                  /\ new.dissolved = [st.dissolved EXCEPT ![f] = "SPLIT"]
                  /\ new.upper[B[f]].val <= 0
<1>1. CASE ~ActiveReluVariable(st, x) \/ (v < 0 /\ x \in F)
  BY <1>1, OutcomeState DEF UpdateUpperBound, WithUpper
<1>2. CASE ActiveReluVariable(st, x) /\ ~(v < 0 /\ x \in F) /\ v > 0
  BY <1>2, OutcomeState DEF UpdateUpperBound, WithUpper
<1>3. CASE ActiveReluVariable(st, x) /\ ~(v < 0 /\ x \in F) /\ ~(v > 0)
  <2>1. PICK f \in F : f = PairOf(x) /\ x \in {f, B[f]} /\ st.dissolved[f] = Active
    BY <1>3, PairFacts DEF ActiveReluVariable, IsB
  <2> DEFINE u == WithUpper(WithUpper(st, {f}, 0, l), {B[f]}, v, l)
  <2>2. UpdateUpperBound(st, x, v, l).state = Dissolve(u, f, "SPLIT")
    BY <1>3, <2>1, OutcomeState DEF UpdateUpperBound
  <2>3. u.dissolved = st.dissolved /\ u.upper[B[f]].val = v
    BY PairFacts DEF WithUpper
  <2> HIDE DEF u
  <2>4. /\ UpdateUpperBound(st, x, v, l).state.dissolved = [st.dissolved EXCEPT ![f] = "SPLIT"]
        /\ UpdateUpperBound(st, x, v, l).state.upper[B[f]].val <= 0
    BY <1>3, <2>2, <2>3 DEF Dissolve
  <2> QED BY <2>1, <2>4
<1> QED BY <1>1, <1>2, <1>3

\* Both bounds of a variable are updated: at most one pair is dissolved.
LEMMA SecondDissolves ==
  ASSUME NEW st \in State, NEW x \in Var, NEW v \in Int, NEW l \in Nat, NEW w \in Int,
         NEW m \in Nat, NEW o, o = UpdateUpperBound(st, x, v, l), o.state \in State
  PROVE  Dissolves(st, UpdateLowerBound(o.state, x, w, m))
<1> DEFINE o2 == UpdateLowerBound(o.state, x, w, m)
<1>1. CASE o.state.dissolved = st.dissolved
  <2>1. Dissolves(o.state, o2)
    BY LowerDissolves
  <2> QED BY <1>1, <2>1 DEF Dissolves
<1>2. ASSUME NEW f \in F, x \in {f, B[f]}, st.dissolved[f] = Active,
             o.state.dissolved = [st.dissolved EXCEPT ![f] = "SPLIT"],
             o.state.upper[B[f]].val <= 0
      PROVE  Dissolves(st, o2)
  <2>1. PairOf(x) = f
    BY <1>2, PairFacts
  <2>2. o.state.dissolved[f] = "SPLIT"
    BY <1>2 DEF State
  <2>3. ~ActiveReluVariable(o.state, x)
    BY <2>1, <2>2 DEF ActiveReluVariable, Active
  <2>4. o2.state = WithLower(o.state, {x}, w, m)
    BY <2>3, OutcomeState DEF UpdateLowerBound
  <2>5. o2.state.dissolved = [st.dissolved EXCEPT ![f] = "SPLIT"] /\ o2.state.upper[B[f]].val <= 0
    BY <1>2, <2>4 DEF WithLower
  <2> HIDE DEF o2
  <2> QED BY <1>2, <2>5 DEF Dissolves
<1> QED BY <1>1, <1>2, UpperSplits

-----------------------------------------------------------------------------
(***************************************************************************)
(* Updates with bounds from rows.                                          *)
(***************************************************************************)
\* A state that the updates may start from, while the stack is stk.
Fit(st, stk) == Shape(st, preprocessed) /\ Kept(stk, st, preprocessed, Len(stk))

\* An improved lower bound of a variable that was not merged before the main loop.
LEMMA LowerFit ==
  ASSUME Typed, NEW st, Fit(st, stack), NEW x \in Var, Seen(preprocessed, x),
         NEW v \in Int, NEW l \in Nat, v > st.lower[x].val
  PROVE  /\ ShapeSoFar(UpdateLowerBound(st, x, v, l))
         /\ Kept(stack, UpdateLowerBound(st, x, v, l).state, preprocessed, Len(stack))
         /\ Dissolves(st, UpdateLowerBound(st, x, v, l))
<1> DEFINE o == UpdateLowerBound(st, x, v, l)
<1>1. PICK n \in Nat : n = Len(stack)
  BY TypedFacts
<1>2. /\ st \in State /\ preprocessed \in State /\ stack \in Seq(Entry)
      /\ \A i \in 1..n : stack[i] \in Entry
  BY <1>1, TypedFacts, ElementOfSeq DEF Fit, Shape
<1>3. v >= st.lower[x].val
  BY <1>2 DEF State, Bound
<1>4. ShapeSoFar(o)
  BY <1>2, <1>3, ShapeLower DEF Fit, ShapeSoFar
<1>5. Dissolves(st, o) /\ MergedLeft(st, o.state, x)
  BY <1>2, LowerDissolves
<1> HIDE DEF o
<1>6. Kept(stack, o.state, preprocessed, n)
  BY <1>1, <1>2, <1>5, DissolvesKeeps DEF Fit
<1> QED BY <1>1, <1>4, <1>5, <1>6 DEF o

\* The same for an upper bound.
LEMMA UpperFit ==
  ASSUME Typed, NEW st, Fit(st, stack), NEW x \in Var, Seen(preprocessed, x),
         NEW v \in Int, NEW l \in Nat, v < st.upper[x].val
  PROVE  /\ ShapeSoFar(UpdateUpperBound(st, x, v, l))
         /\ Kept(stack, UpdateUpperBound(st, x, v, l).state, preprocessed, Len(stack))
         /\ Dissolves(st, UpdateUpperBound(st, x, v, l))
<1> DEFINE o == UpdateUpperBound(st, x, v, l)
<1>1. PICK n \in Nat : n = Len(stack)
  BY TypedFacts
<1>2. /\ st \in State /\ preprocessed \in State /\ stack \in Seq(Entry)
      /\ \A i \in 1..n : stack[i] \in Entry
  BY <1>1, TypedFacts, ElementOfSeq DEF Fit, Shape
<1>4. ShapeSoFar(o)
  BY <1>2, ShapeUpper DEF Fit, ShapeSoFar
<1>5. Dissolves(st, o) /\ MergedLeft(st, o.state, x)
  BY <1>2, UpperDissolves
<1> HIDE DEF o
<1>6. Kept(stack, o.state, preprocessed, n)
  BY <1>1, <1>2, <1>5, DissolvesKeeps DEF Fit
<1> QED BY <1>1, <1>4, <1>5, <1>6 DEF o

\* What an update of the bounds in force leaves.
SearchOutcome(o) ==
  /\ ShapeSoFar(o)
  /\ Kept(stack, o.state, preprocessed, Len(stack))
  /\ Dissolves(current, o)

\* The bounds in force are fit for updates, outside of pops.
LEMMA CurrentFit ==
  ASSUME RowSearchInv, pc \notin {"popping", "done"}
  PROVE  Fit(current, stack) /\ SearchOutcome(Unchanged) /\ Typed
<1>1. Fit(current, stack)
  BY DEF RowSearchInv, ShapeInv, FollowInv, Fit
<1> QED BY <1>1, RowTyped DEF RowSearchInv, SearchOutcome, ShapeSoFar, Dissolves, Unchanged, Fit

\* The variables that rows mention, and whose stored bounds differ.
LEMMA StoredSeen ==
  ASSUME RowSearchInv, pc = "learning", NEW x \in Var,
         Raises(current, x, backup.lower[x]) \/ Lowers(current, x, backup.upper[x])
  PROVE  Seen(preprocessed, x)
<1> SUFFICES ASSUME NEW f \in F, x = B[f], preprocessed.dissolved[f] = "MERGE" PROVE FALSE
  BY DEF Seen
<1>1. Frozen(current, preprocessed) /\ Frozen(backup, preprocessed)
  BY DEF RowSearchInv, FollowInv, Kept
<1>2. current.lower[x] = backup.lower[x] /\ current.upper[x] = backup.upper[x]
  BY <1>1 DEF Frozen
<1>3. current \in State
  BY RowTyped DEF RowSearchInv, Typed
<1>4. current.lower[x].val \in Int /\ current.upper[x].val \in Int
  BY <1>3 DEF State, Bound
<1> QED BY <1>2, <1>4 DEF Raises, Lowers

\* Rows mention no merged b.
LEMMA RowSeen ==
  ASSUME RowSearchInv, pc \notin {"popping", "done"}, NEW S \in SUBSET F,
         MergedPairs(current) \cap S = {}, NEW r \in RowsOf[<<MergedPairs(current), S>>],
         NEW x \in Var \cap Support(r)
  PROVE  Seen(preprocessed, x) /\ ~MergedB(current, x)
<1>1. ~MergedB(current, x)
  <2>1. \A f \in MergedPairs(current) : B[f] # x
    BY RowColumns DEF MergedPairs
  <2> QED BY <2>1, SeenIsNotMerged DEF Seen, MergedPairs
<1>2. Frozen(current, preprocessed)
  BY DEF RowSearchInv, FollowInv, Kept
<1> QED BY <1>1, <1>2, FollowingIsSeen

\* performGlpkBoundTightening, one bound.
LEMMA StoredOutcome ==
  ASSUME RowSearchInv, ApplyStored
  PROVE  \E o : Apply(o, "learning") /\ SearchOutcome(o)
<1> DEFINE x == index % NumVariables
           lower == backup.lower[x]
           upper == backup.upper[x]
           o == IF index < NumVariables /\ Raises(current, x, lower)
                THEN UpdateLowerBound(current, x, lower.val, lower.level)
                ELSE IF index >= NumVariables /\ Lowers(current, x, upper)
                THEN UpdateUpperBound(current, x, upper.val, upper.level)
                ELSE Unchanged
<1>1. x \in Var
  <2>1. NumVariables \in Nat /\ index \in Nat /\ index < 2 * NumVariables
    BY ColumnFacts DEF ApplyStored, RowSearchInv, RowInv
  <2>2. NumVariables > 0
    BY <2>1
  <2>3. index % NumVariables \in 0..NumVariables - 1
    BY <2>1, <2>2
  <2> QED BY <2>3 DEF Var
<1>2. Apply(o, "learning") /\ pc = "learning"
  BY DEF ApplyStored
<1> HIDE DEF x
<1>3. Fit(current, stack) /\ SearchOutcome(Unchanged) /\ Typed
  BY <1>2, CurrentFit
<1>4. lower.val \in Int /\ lower.level \in Nat /\ upper.val \in Int /\ upper.level \in Nat
  BY <1>1, <1>3, TypedFacts DEF State, Bound
<1> HIDE DEF lower, upper
<1>5. SearchOutcome(o)
  <2>1. CASE index < NumVariables /\ Raises(current, x, lower)
    <3>1. Seen(preprocessed, x) /\ lower.val > current.lower[x].val
      BY <1>1, <1>2, <2>1, StoredSeen DEF lower, Raises
    <3> QED BY <1>1, <1>3, <1>4, <2>1, <3>1, LowerFit DEF SearchOutcome
  <2>2. CASE ~(index < NumVariables /\ Raises(current, x, lower))
             /\ index >= NumVariables /\ Lowers(current, x, upper)
    <3>1. Seen(preprocessed, x) /\ upper.val < current.upper[x].val
      BY <1>1, <1>2, <2>2, StoredSeen DEF upper, Lowers
    <3> QED BY <1>1, <1>3, <1>4, <2>2, <3>1, UpperFit DEF SearchOutcome
  <2>3. CASE o = Unchanged
    BY <1>3, <2>3
  <2> QED BY <2>1, <2>2, <2>3
<1> HIDE DEF o
<1> QED BY <1>2, <1>5

\* tightenBoundsOnRow, one variable.
LEMMA TightenOutcome ==
  ASSUME RowSearchInv, NEW r \in TableauRows(current), NEW x \in Var, TightenBoundsOnRow(r, x)
  PROVE  \E o : Apply(o, "tightening") /\ SearchOutcome(o)
<1> DEFINE up == RowUpper(current, r, x)
           lo == RowLower(current, r, x)
           k == Len(stack)
           first == IF Lowers(current, x, up)
                    THEN UpdateUpperBound(current, x, up.val, up.level)
                    ELSE Unchanged
           o == IF first.conflict = NoConflict /\ Raises(first.state, x, lo)
                THEN UpdateLowerBound(first.state, x, lo.val, lo.level)
                ELSE first
<1>1. Apply(o, "tightening") /\ pc = "tightening" /\ x \in Support(r)
  BY DEF TightenBoundsOnRow
<1>2. /\ {} \in SUBSET F /\ MergedPairs(current) \cap {} = {} /\ Slacks({}) = {}
      /\ r \in RowsOf[<<MergedPairs(current), {}>>]
  BY DEF Slacks, TableauRows
<1>3. Fit(current, stack) /\ SearchOutcome(Unchanged) /\ Typed /\ Seen(preprocessed, x)
  BY <1>1, <1>2, CurrentFit, RowSeen
<1>4. /\ up.val \in Int /\ up.level \in Nat /\ lo.val \in Int /\ lo.level \in Nat
  <2>1. k \in Nat /\ QueryInv /\ Sound(current, stack, k)
    BY DEF RowSearchInv, RowInv
  <2>2. \A G \in Readings(current, stack, k) : BoundsIn(G, current, k, Var)
    BY <2>1, ReadingsProper, JustifiedColumns DEF Sound
  <2>3. \A G \in Readings(current, stack, k) : BoundsIn(G, current, k, Var \cup Slacks({}))
    BY <1>2, <2>2
  <2>4. LowerSure(current, stack, k, x, lo) /\ UpperSure(current, stack, k, x, up)
    BY <1>1, <1>2, <2>1, <2>3, RowBoundsSure
  <2>5. Everywhere(stack, k) \in Readings(current, stack, k)
    BY DEF Readings
  <2> HIDE DEF lo, up
  <2>6. LowerHolds(Everywhere(stack, k), x, lo, k) /\ UpperHolds(Everywhere(stack, k), x, up, k)
    BY <2>4, <2>5 DEF LowerSure, UpperSure
  <2> QED BY <2>6 DEF LowerHolds, UpperHolds, Bound
<1>5. current \in State
  BY <1>3, TypedFacts
<1> HIDE DEF lo, up
<1>6. SearchOutcome(first)
  BY <1>3, <1>4, UpperFit DEF SearchOutcome, Lowers
<1>7. SearchOutcome(o)
  <2>1. CASE first.conflict = NoConflict /\ Raises(first.state, x, lo)
    <3>1. Fit(first.state, stack) /\ first.state \in State /\ lo.val > first.state.lower[x].val
      BY <1>6, <2>1 DEF SearchOutcome, ShapeSoFar, Fit, Shape, Raises
    <3>2. /\ ShapeSoFar(o) /\ Kept(stack, o.state, preprocessed, Len(stack))
          /\ Dissolves(first.state, o)
      BY <1>3, <1>4, <2>1, <3>1, LowerFit
    <3>3. Dissolves(current, o)
      <4>1. CASE Lowers(current, x, up)
        BY <1>4, <1>5, <2>1, <3>1, <4>1, SecondDissolves
      <4>2. CASE ~Lowers(current, x, up)
        BY <3>2, <4>2 DEF Unchanged
      <4> QED BY <4>1, <4>2
    <3> QED BY <3>2, <3>3 DEF SearchOutcome
  <2>2. CASE ~(first.conflict = NoConflict /\ Raises(first.state, x, lo))
    BY <1>6, <2>2
  <2> QED BY <2>1, <2>2
<1> HIDE DEF o
<1> QED BY <1>1, <1>7


-----------------------------------------------------------------------------
(***************************************************************************)
(* A contradiction of bounds refutes the decisions up to its level while   *)
(* no pair has been merged since the preprocessing.                        *)
(***************************************************************************)
LEMMA LevelRefutes ==
  ASSUME RowInv, NEW D, NEW st, NEW x \in D, ~BoundInvariantHolds(st, x),
         BoundsIn(Everywhere(stack, Len(stack)), st, Len(stack), D),
         \A s \in solutions : Extended(s)[x] \in Int
  PROVE  /\ ViolatingLevel(st, x) \in 0..Len(stack) /\ Refuted(Len(stack))
         /\ BoundsIn(FollowersOf(solutions, stack), st, Len(stack), D)
              => Refuted(ViolatingLevel(st, x))
<1> DEFINE lo == st.lower[x]
           up == st.upper[x]
           k == Len(stack)
           v == ViolatingLevel(st, x)
<1>1. /\ lo.val \in Int /\ up.val \in Int /\ lo.val > up.val
      /\ lo.level \in Nat /\ up.level \in Nat /\ lo.level <= k /\ up.level <= k
      /\ k \in Nat
  BY DEF BoundsIn, Bound, BoundInvariantHolds, RowInv
<1>2. v \in 0..k /\ lo.level <= v /\ up.level <= v
  BY <1>1 DEF ViolatingLevel
<1>3. ASSUME NEW G, BoundsIn(G, st, k, D), NEW s \in solutions,
             s \in G[lo.level], s \in G[up.level]
      PROVE  FALSE
  <2>1. lo.val <= Extended(s)[x] /\ Extended(s)[x] <= up.val
    BY <1>3 DEF BoundsIn
  <2>2. Extended(s)[x] \in Int
    OBVIOUS
  <2> HIDE DEF lo, up
  <2> QED BY <1>1, <2>1, <2>2
<1> HIDE DEF lo, up, k, v
<1>4. Refuted(k)
  <2> SUFFICES ASSUME NEW s \in solutions, Agrees(s, k) PROVE FALSE
    BY DEF Refuted
  <2>1. \A l \in Nat : s \in Everywhere(stack, k)[l]
    BY <1>1 DEF Everywhere, FollowersOf, Agrees
  <2> QED BY <1>1, <1>3, <2>1 DEF k
<1>5. ASSUME BoundsIn(FollowersOf(solutions, stack), st, k, D)
      PROVE  Refuted(v)
  <2> SUFFICES ASSUME NEW s \in solutions, Agrees(s, v) PROVE FALSE
    BY DEF Refuted
  <2>1. \A l \in Nat : l <= v => s \in FollowersOf(solutions, stack)[l]
    BY <1>2 DEF FollowersOf, Agrees
  <2> QED BY <1>1, <1>2, <1>3, <1>5, <2>1
<1> QED BY <1>2, <1>4, <1>5 DEF k, v

\* The same for a state whose bounds are sound.
LEMMA SoundLevelRefutes ==
  ASSUME RowInv, NEW st, Sound(st, stack, Len(stack)), NEW x \in Var,
         ~BoundInvariantHolds(st, x)
  PROVE  /\ ViolatingLevel(st, x) \in 0..Len(stack) /\ Refuted(Len(stack))
         /\ SplitOnly(st) => Refuted(ViolatingLevel(st, x))
<1>1. Len(stack) \in Nat /\ QueryInv
  BY DEF RowInv
<1>2. ASSUME NEW G \in Readings(st, stack, Len(stack))
      PROVE  BoundsIn(G, st, Len(stack), Var)
  BY <1>1, ReadingsProper, JustifiedColumns DEF RowInv, Sound
<1>3. \A s \in solutions : Extended(s)[x] \in Int
  BY <1>1, SolutionFacts, ExtendedFacts DEF IntOn
<1>4. BoundsIn(Everywhere(stack, Len(stack)), st, Len(stack), Var)
  BY <1>2 DEF Readings
<1>5. SplitOnly(st) => BoundsIn(FollowersOf(solutions, stack), st, Len(stack), Var)
  BY <1>2 DEF Readings
<1> QED BY <1>3, <1>4, <1>5, LevelRefutes

(***************************************************************************)
(* One step at a time: what it preserves, and the step of the search that  *)
(* it is, if any, unless it is a conflict thrown to a level that is too    *)
(* low.                                                                    *)
(***************************************************************************)
SearchStep ==
  /\ Search!Next \/ MisjudgedConflict \/ UNCHANGED Search!vars
  /\ RefuteInv => RefuteInv' \/ MisjudgedConflict

RowStep == RowSearchInv' /\ SearchStep

\* Without conflict analysis the level of a conflict is ignored.
LEMMA AnyLevel ==
  ASSUME ~UseConflictAnalysis, NEW v, StartPop(v), NEW w
  PROVE  StartPop(w)
BY DEF StartPop

\* A pop starts at a level.
LEMMA PopLevel ==
  ASSUME NEW v \in Nat, StartPop(v), violatingLevel \in Nat, Len(stack') \in Nat
  PROVE  violatingLevel' \in Nat /\ pc' \in {"popping", "done"}
BY StartPopPc DEF StartPop

\* What stays when neither the query nor the stack nor the pairs change.
LEMMA SearchInvNext ==
  ASSUME RowSearchInv, RowInv', UNCHANGED <<preprocessed, stack, currentStackDepth>>,
         violatingLevel' \in Nat, pc' # "restoring",
         pc' \notin {"popping", "done"} =>
           /\ Shape(current', preprocessed)
           /\ Kept(stack, current', preprocessed, Len(stack)),
         pc' \notin {"popping", "done", "loop"} =>
           Kept(stack, backup', preprocessed, Len(stack))
  PROVE  RowSearchInv'
<1>1. ShapeInv'
  BY DEF RowSearchInv, ShapeInv
<1>2. FollowInv'
  BY DEF RowSearchInv, FollowInv
<1> QED BY <1>1, <1>2 DEF RowSearchInv

(***************************************************************************)
(* A conflict between bounds, as an update leaves them: a step of the      *)
(* search if the decisions up to its level are refuted, and misjudged      *)
(* otherwise.                                                              *)
(***************************************************************************)
LEMMA ConflictStep ==
  ASSUME RowSearchInv, pc \in {"solving", "learning", "tightening"},
         NEW o, Dissolves(current, o), current' = o.state, o.conflict # NoConflict,
         Sound(o.state, stack, Len(stack)),
         o.conflict \in 0..Len(stack), StartPop(o.conflict), Refuted(Len(stack)),
         SplitOnly(current) => Refuted(o.conflict),
         UNCHANGED <<solutions, preprocessed, stack, currentStackDepth>>
  PROVE  SearchStep
<1>1. Typed /\ Len(stack) \in Nat /\ Len(stack) \in 0..Len(stack) /\ RowInv
  BY RowTyped, TypedFacts DEF RowSearchInv
<1>2. ASSUME NEW k \in 0..Len(stack), Refuted(k), StartPop(k)
      PROVE  SearchStep
  <2>1. RefuteInv => RefuteInv'
    BY <1>1, <1>2, PopStartsJustified
  <2>2. \A s \in solutions : Agrees(s, Len(stack)) => \A x \in Var :
          /\ s[x] \in Int /\ o.state.lower[x].val \in Int /\ o.state.upper[x].val \in Int
          /\ o.state.lower[x].val <= s[x] /\ s[x] <= o.state.upper[x].val
    BY <1>1, SoundHolds
  <2>3. Search!Next \/ UNCHANGED Search!vars
    BY <1>1, <1>2, <2>2, UpdateSimulated
  <2> QED BY <2>1, <2>3 DEF SearchStep
<1>3. CASE ~UseConflictAnalysis
  BY <1>1, <1>2, <1>3, AnyLevel
<1>4. CASE Refuted(o.conflict)
  BY <1>2, <1>4
<1>5. CASE UseConflictAnalysis /\ ~Refuted(o.conflict)
  <2>1. MergedSince # {}
    BY <1>5 DEF SplitOnly, MergedSince
  <2>2. NoneAgrees(Len(stack)) /\ \E v \in 0..Len(stack) : ~NoneAgrees(v) /\ StartPop(v)
    BY <1>5 DEF NoneAgrees, Refuted
  <2>3. \/ current'.dissolved = current.dissolved
        \/ \E f \in ActivePairs(current) :
             current'.dissolved = [current.dissolved EXCEPT ![f] = "SPLIT"]
    BY DEF Dissolves, ActivePairs
  <2> QED BY <1>5, <2>1, <2>2, <2>3 DEF SearchStep, MisjudgedConflict
<1> QED BY <1>3, <1>4, <1>5

\* The same for a conflict that changes no bound in force.
LEMMA PopStep ==
  ASSUME RowSearchInv, RowInv', pc = "solving",
         NEW v \in 0..Len(stack), StartPop(v), Refuted(Len(stack)),
         SplitOnly(current) => Refuted(v),
         UNCHANGED <<solutions, preprocessed, current, stack, currentStackDepth>>
  PROVE  RowStep
<1>1. Typed /\ Len(stack) \in Nat /\ Sound(current, stack, Len(stack))
  BY RowTyped, TypedFacts DEF RowSearchInv, RowInv
<1>2. violatingLevel' \in Nat /\ pc' \in {"popping", "done"}
  BY <1>1, PopLevel DEF RowSearchInv
<1>3. RowSearchInv'
  BY <1>2, SearchInvNext
<1>4. PICK o : o = [state |-> current, conflict |-> v]
  OBVIOUS
<1>5. o.state = current /\ o.conflict = v /\ v # NoConflict
  BY <1>1, <1>4 DEF NoConflict
<1>6. Dissolves(current, o)
  BY <1>5 DEF Dissolves
<1>7. SearchStep
  BY <1>1, <1>5, <1>6, ConflictStep
<1> QED BY <1>3, <1>7 DEF RowStep

\* An update of the bounds in force.
LEMMA UpdateStep ==
  ASSUME RowSearchInv, RowInv', pc \in {"learning", "tightening"}, NEW o, Apply(o, pc),
         SearchOutcome(o),
         UNCHANGED <<solutions, preprocessed, stack, currentStackDepth>>
  PROVE  RowStep
<1>1. Typed /\ Len(stack) \in Nat /\ RowInv
  BY RowTyped, TypedFacts DEF RowSearchInv
<1>2. current' = o.state /\ Dissolves(current, o)
  BY DEF Apply, SearchOutcome
<1>3. Sound(o.state, stack, Len(stack))
  <2>1. Sound(current', stack, Len(stack))
    BY DEF RowInv, Sound, Readings, Everywhere, SplitOnly
  <2> QED BY <1>2, <2>1
<1>4. CASE o.conflict = NoConflict
  <2>1. pc' = pc /\ backup' = backup /\ UNCHANGED <<violatingLevel, status>>
    BY <1>4 DEF Apply
  <2>2. Shape(current', preprocessed) /\ Kept(stack, current', preprocessed, Len(stack))
    BY <1>2, <1>4 DEF SearchOutcome, ShapeSoFar
  <2>3. Kept(stack, backup', preprocessed, Len(stack))
    BY <2>1 DEF RowSearchInv, FollowInv
  <2>4. RowSearchInv'
    BY <2>1, <2>2, <2>3, SearchInvNext DEF RowSearchInv
  <2>5. RefuteInv => RefuteInv'
    BY <2>1, RefuteUnchanged
  <2>6. \A s \in solutions : Agrees(s, Len(stack)) => \A x \in Var :
          /\ s[x] \in Int /\ o.state.lower[x].val \in Int /\ o.state.upper[x].val \in Int
          /\ o.state.lower[x].val <= s[x] /\ s[x] <= o.state.upper[x].val
    BY <1>1, <1>3, SoundHolds
  <2>7. Search!Next \/ UNCHANGED Search!vars
    BY <1>1, <1>2, <1>4, <2>1, <2>6, UpdateSimulated
  <2> QED BY <2>4, <2>5, <2>7 DEF RowStep, SearchStep
<1>5. CASE o.conflict # NoConflict
  <2>1. PICK z \in Var : /\ ~BoundInvariantHolds(o.state, z)
                         /\ o.conflict = ViolatingLevel(o.state, z)
    BY <1>5 DEF SearchOutcome, ShapeSoFar, Contradiction
  <2>2. /\ o.conflict \in 0..Len(stack) /\ Refuted(Len(stack))
        /\ SplitOnly(o.state) => Refuted(o.conflict)
    BY <1>1, <1>3, <2>1, SoundLevelRefutes
  <2>3. SplitOnly(current) => SplitOnly(o.state)
    <3>1. current.dissolved \in [F -> Phase \cup {Active}]
      BY <1>1, TypedFacts DEF State
    <3> QED BY <1>2, <1>5, <3>1 DEF Dissolves, SplitOnly, MergedPairs
  <2>4. StartPop(o.conflict)
    BY <1>5 DEF Apply
  <2>5. SearchStep
    BY <1>2, <1>3, <1>5, <2>2, <2>3, <2>4, ConflictStep
  <2>6. violatingLevel' \in Nat /\ pc' \in {"popping", "done"}
    BY <1>1, <2>2, <2>4, PopLevel DEF RowSearchInv
  <2>7. RowSearchInv'
    BY <2>6, SearchInvNext
  <2> QED BY <2>5, <2>7 DEF RowStep
<1> QED BY <1>4, <1>5

\* A step that shows neither in the search nor in its bounds.
LEMMA HiddenStep ==
  ASSUME RowSearchInv, RowInv', pc \notin {"popping", "done"},
         pc' \notin {"popping", "done", "restoring"},
         pc' # "loop" => Kept(stack, backup', preprocessed, Len(stack)),
         UNCHANGED <<solutions, preprocessed, current, stack, currentStackDepth,
                     violatingLevel, status>>
  PROVE  RowStep
<1>1. RowSearchInv'
  BY SearchInvNext DEF RowSearchInv, ShapeInv, FollowInv
<1>2. SearchPc' = SearchPc /\ DissolvedSeen' = DissolvedSeen
  BY DEF SearchPc, DissolvedSeen, RowSearchInv
<1>3. RefuteInv => RefuteInv'
  BY RefuteUnchanged
<1> QED BY <1>1, <1>2, <1>3, SearchStutters DEF RowStep, SearchStep

\* Steps of the LP solver's run but for its verdict, and steps that only move on.
LEMMA MovingStep ==
  ASSUME RowSearchInv, RowInv',
         FixOutOfBounds \/ LpSolutionFound \/ StoredApplied \/ TightenDone
  PROVE  RowStep
<1>1. /\ pc \notin {"popping", "done"} /\ pc' \notin {"popping", "done", "restoring"}
      /\ UNCHANGED <<solutions, preprocessed, current, stack, currentStackDepth,
                     violatingLevel, status>>
      /\ backup' = current \/ (backup' = backup /\ pc # "loop")
  BY DEF FixOutOfBounds, LpSolutionFound, StoredApplied, TightenDone
<1>2. Kept(stack, backup', preprocessed, Len(stack))
  BY <1>1 DEF RowSearchInv, FollowInv
<1> QED BY <1>1, <1>2, HiddenStep

\* Bounds that are stored leave merged b's alone, and a conflict refutes.
LEMMA StoreStep ==
  ASSUME RowSearchInv, RowInv', NEW r \in LpRows, NEW x \in Column, StoreGlpkBound(r, x)
  PROVE  RowStep
<1> DEFINE stored == Stored(r, x)
           k == Len(stack)
<1>1. PICK S \in SUBSET ActivePairs(current) : SlacksSound(current, stack, S)
  BY DEF RowSearchInv, RowInv, SlackInv
<1>2. LpPairs = S /\ S \in SUBSET F /\ MergedPairs(current) \cap S = {}
  BY <1>1, ColumnFacts DEF SlacksSound, LpPairs, Slacks, ActivePairs, MergedPairs, Active
<1>3. r \in RowsOf[<<MergedPairs(current), S>>] /\ x \in Support(r) /\ pc = "solving"
  BY <1>2 DEF LpRows, StoreGlpkBound
<1>4. /\ k \in Nat /\ QueryInv /\ RowInv
      /\ UNCHANGED <<solutions, preprocessed, current, stack, currentStackDepth>>
  BY DEF StoreGlpkBound, RowSearchInv, RowInv
<1>5. CASE BoundInvariantHolds(stored, x)
  <2>1. /\ backup' = [lower |-> Part(stored.lower, Var), upper |-> Part(stored.upper, Var),
                      dissolved |-> current.dissolved]
        /\ pc' = "solving" /\ UNCHANGED <<violatingLevel, status>>
    BY <1>1, <1>3, <1>5 DEF StoreGlpkBound
  <2>3. Kept(stack, current, preprocessed, k) /\ Kept(stack, backup, preprocessed, k)
    BY <1>3 DEF RowSearchInv, FollowInv
  <2>4. ASSUME NEW f \in F, preprocessed.dissolved[f] = "MERGE"
        PROVE  backup'.lower[B[f]] = backup.lower[B[f]] /\ backup'.upper[B[f]] = backup.upper[B[f]]
    <3>1. f \in MergedPairs(current) /\ B[f] \in Var
      BY <2>3, <2>4, PairFacts DEF Kept, Frozen, MergedPairs
    <3>2. B[f] # x
      <4>1. MergedPairs(current) \in SUBSET F
        BY DEF MergedPairs
      <4> QED BY <1>2, <1>3, <3>1, <4>1, RowColumns
    <3>3. /\ DOMAIN Used.lower = Var \cup Slacks(S) /\ DOMAIN Used.upper = Var \cup Slacks(S)
          /\ Used.lower[B[f]] = backup.lower[B[f]] /\ Used.upper[B[f]] = backup.upper[B[f]]
      <4>1. PICK G : G \in Readings(current, stack, k)
        BY DEF Readings
      <4> QED BY <1>1, <1>3, <1>4, <3>1, <4>1, UsedSound
    <3>4. stored.lower[B[f]] = Used.lower[B[f]] /\ stored.upper[B[f]] = Used.upper[B[f]]
      BY <3>1, <3>2, <3>3 DEF Stored
    <3> HIDE DEF stored
    <3> QED BY <2>1, <3>1, <3>3, <3>4 DEF Part
  <2>5. backup'.dissolved = current.dissolved
    BY <2>1
  <2>6. Kept(stack, backup', preprocessed, k)
    BY <2>3, <2>4, <2>5 DEF Kept, Follows, Frozen
  <2> QED BY <1>3, <1>4, <2>1, <2>6, HiddenStep
<1>6. CASE ~BoundInvariantHolds(stored, x)
  <2> DEFINE D == Var \cup Slacks(S)
  <2>1. StartPop(ViolatingLevel(stored, x))
    BY <1>6 DEF StoreGlpkBound
  <2>2. x \in D
    <3>1. MergedPairs(current) \in SUBSET F
      BY DEF MergedPairs
    <3> QED BY <1>2, <1>3, <3>1, RowColumns
  <2>3. ASSUME NEW G \in Readings(current, stack, k)
        PROVE  BoundsIn(G, stored, k, D)
    BY <1>1, <1>3, <1>4, StoredSound
  <2>4. /\ BoundsIn(Everywhere(stack, k), stored, k, D)
        /\ SplitOnly(current) => BoundsIn(FollowersOf(solutions, stack), stored, k, D)
    BY <2>3 DEF Readings
  <2>5. \A s \in solutions : Extended(s)[x] \in Int
    BY <1>4, SolutionFacts, ExtendedFacts DEF IntOn, StoreGlpkBound
  <2> HIDE DEF stored, D
  <2>6. /\ ViolatingLevel(stored, x) \in 0..k /\ Refuted(k)
        /\ SplitOnly(current) => Refuted(ViolatingLevel(stored, x))
    BY <1>4, <1>6, <2>2, <2>4, <2>5, LevelRefutes
  <2> QED BY <1>3, <1>4, <2>1, <2>6, PopStep
<1> QED BY <1>5, <1>6

\* The solutions that follow the decisions are among those of the LP.
LEMMA FollowersInLp ==
  ASSUME RowInv, NEW s \in solutions, Agrees(s, Len(stack))
  PROVE  s \in LpAssignments
<1>1. PICK S \in SUBSET ActivePairs(current) : SlacksSound(current, stack, S)
  BY DEF RowInv, SlackInv
<1>2. LpPairs = S /\ S \in SUBSET F
  BY <1>1, ColumnFacts DEF SlacksSound, LpPairs, Slacks, ActivePairs
<1>3. Len(stack) \in Nat /\ QueryInv /\ Sound(current, stack, Len(stack))
  BY DEF RowInv
<1>4. /\ s \in Assignments /\ Linear(s) /\ s \in [Var -> Int]
      /\ \A f \in F : ReluHolds(s, f)
  BY <1>3, SolutionFacts
<1>5. s \in LinearAssignments
  BY <1>4 DEF LinearAssignments, Linear
<1>6. \A x \in Var : /\ s[x] \in Int
                     /\ current.lower[x].val \in Int /\ current.upper[x].val \in Int
                     /\ current.lower[x].val <= s[x] /\ s[x] <= current.upper[x].val
  BY <1>3, SoundHolds
<1>7. ASSUME NEW f \in MergedPairs(current)
      PROVE  s[B[f]] = s[f]
  <2> DEFINE G == Everywhere(stack, Len(stack))
  <2>1. G \in Readings(current, stack, Len(stack))
    BY DEF Readings
  <2>2. 0 \in 0..Len(stack) /\ s \in G[0]
    BY <1>3 DEF Everywhere, FollowersOf, Agrees
  <2> HIDE DEF G
  <2> QED BY <1>3, <2>1, <2>2, MergesHold
<1>8. ASSUME NEW f \in LpPairs
      PROVE  s[f] - s[B[f]] \in 0..SlackUpper(current, f).val
  <2>1. f \in F /\ f \in Var /\ B[f] \in Var
    BY <1>2, PairFacts
  <2>2. SlackUpper(current, f).val = current.upper[f].val - current.lower[B[f]].val
    BY DEF SlackUpper
  <2>3. ReluHolds(s, f)
    BY <1>4, <2>1
  <2> QED BY <1>6, <2>1, <2>2, <2>3 DEF ReluHolds
<1> QED BY <1>5, <1>6, <1>7, <1>8 DEF LpAssignments

\* An LP without solutions refutes the decisions, and that is the level it pops.
LEMMA VerdictStep ==
  ASSUME RowSearchInv, RowInv', LpNoSolution
  PROVE  RowStep
<1>1. Typed /\ Len(stack) \in Nat
  BY RowTyped, TypedFacts DEF RowSearchInv
<1>2. Refuted(Len(stack))
  BY FollowersInLp DEF LpNoSolution, Refuted, RowSearchInv
<1>3. /\ pc \notin {"popping", "done"} /\ StartPop(currentStackDepth)
      /\ UNCHANGED <<solutions, preprocessed, current, stack, currentStackDepth>>
  BY DEF LpNoSolution
<1>4. violatingLevel' \in Nat /\ pc' \in {"popping", "done"}
  BY <1>1, <1>3, PopLevel DEF RowSearchInv
<1>5. RowSearchInv'
  BY <1>3, <1>4, SearchInvNext
<1>6. DissolvedSeen' = DissolvedSeen
  BY <1>3, <1>4 DEF DissolvedSeen, RowSearchInv
<1>7. Search!Next
  BY <1>1, <1>2, <1>3, <1>6, VerdictSimulated
<1>8. ASSUME RefuteInv PROVE RefuteInv'
  <2>1. currentStackDepth = Len(stack) /\ Len(stack) \in 0..Len(stack)
    BY <1>1, <1>8 DEF RefuteInv
  <2> QED BY <1>1, <1>2, <1>3, <1>8, <2>1, PopStartsJustified
<1> QED BY <1>5, <1>7, <1>8 DEF RowStep, SearchStep

\* A solution of the LP that satisfies the active pairs is one of the query.
LEMMA SatIsFound ==
  ASSUME RowSearchInv, SatFound
  PROVE  FoundSolution
<1>1. PICK a \in LpAssignments : RelusHold(a)
  BY DEF SatFound
<1>2. Typed /\ QueryInv
  BY RowTyped DEF RowSearchInv
<1>3. AcceptedSound
  BY <1>2, ShapeAccepts DEF RowSearchInv
<1>4. Accepted(a)
  BY <1>1 DEF LpAssignments, RelusHold, Accepted, MergedPairs
<1>5. a \in LinearAssignments /\ a \in Assignments
  BY <1>1 DEF LpAssignments, LinearAssignments
<1>6. IsSolution(a, preprocessed)
  BY <1>3, <1>4, <1>5 DEF AcceptedSound, SatFound
<1>7. a \in solutions
  BY <1>2, <1>5, <1>6 DEF QueryInv, SolutionsOf
<1> QED BY <1>4, <1>7 DEF SatFound, FoundSolution

\* The answer SAT.
LEMMA SatStep ==
  ASSUME RowSearchInv, RowInv', SatFound
  PROVE  RowStep
<1>1. Typed /\ FoundSolution
  BY SatIsFound, RowTyped DEF RowSearchInv
<1>2. /\ UNCHANGED <<solutions, preprocessed, stack, currentStackDepth, violatingLevel>>
      /\ pc' = "done" /\ status' = "SAT"
  BY DEF SatFound, Stop
<1>3. RowSearchInv'
  BY <1>2, SearchInvNext DEF RowSearchInv
<1>4. RefuteInv => RefuteInv'
  BY <1>2, RefuteUnchanged
<1>5. Search!Next
  BY <1>1, FoundSimulated DEF RowSearchInv
<1> QED BY <1>3, <1>4, <1>5 DEF RowStep, SearchStep

\* Decisions and pops are those of Bounds.
LEMMA DecisionStep ==
  ASSUME RowSearchInv, RowInv', NEW f \in F, NEW p \in Phase, DissolveReluOnVar(f, p)
  PROVE  RowStep
<1>1. Typed /\ ShapeInv /\ FollowInv /\ Len(stack) \in Nat
  BY RowTyped, TypedFacts DEF RowSearchInv
<1>2. ShapeInv' /\ FollowInv' /\ Search!Next /\ (RefuteInv => RefuteInv')
  BY <1>1, DissolveKeepsShape, DecisionFollows, DissolveSimulated, DissolveRefutes
<1>3. /\ pc' = "loop" /\ currentStackDepth' = Len(stack') /\ violatingLevel' = violatingLevel
  BY <1>1, DissolveKeepsShape DEF DissolveReluOnVar, Apply
<1>4. RowSearchInv'
  BY <1>2, <1>3 DEF RowSearchInv, RowInv
<1> QED BY <1>2, <1>4 DEF RowStep, SearchStep

\* A flip, a discarded decision, and the end of a pop with nothing left.
LEMMA PopsStep ==
  ASSUME RowSearchInv, RowInv', PopFlip \/ PopDiscard \/ PopEmpty
  PROVE  RowStep
<1>1. Typed /\ ShapeInv /\ FollowInv /\ Len(stack) \in Nat
  BY RowTyped, TypedFacts DEF RowSearchInv
<1>2. CASE PopFlip
  <2>1. ShapeInv' /\ FollowInv' /\ Search!Next /\ (RefuteInv => RefuteInv')
    BY <1>1, <1>2, FlipKeepsShape, PopFollows, FlipSimulated, FlipRefutes
  <2>2. pc' # "restoring" /\ UNCHANGED <<currentStackDepth, violatingLevel>>
    BY <1>2 DEF PopFlip, Stop
  <2> QED BY <2>1, <2>2 DEF RowSearchInv, RowStep, SearchStep
<1>3. CASE PopDiscard
  <2>1. ShapeInv' /\ FollowInv' /\ Search!Next /\ (RefuteInv => RefuteInv')
    BY <1>1, <1>3, DiscardKeepsShape, PopFollows, DiscardSimulated, DiscardRefutes
  <2>2. pc' = pc /\ violatingLevel' = violatingLevel
    BY <1>3 DEF PopDiscard
  <2>3. currentStackDepth' \in Nat
    <3>1. stack # <<>> /\ currentStackDepth' = Len(stack) - 1 /\ stack \in Seq(Entry)
      BY <1>1, <1>3, TypedFacts DEF PopDiscard
    <3> QED BY <1>1, <3>1, EmptySeq
  <2> QED BY <2>1, <2>2, <2>3 DEF RowSearchInv, RowStep, SearchStep
<1>4. CASE PopEmpty
  <2>1. Search!Next /\ (RefuteInv => RefuteInv')
    BY <1>1, <1>4, EmptySimulated, EmptyRefutes
  <2>2. /\ pc' = "done"
        /\ UNCHANGED <<solutions, preprocessed, current, stack, currentStackDepth, violatingLevel>>
    BY <1>4 DEF PopEmpty, Stop
  <2>3. RowSearchInv'
    BY <2>2, SearchInvNext DEF RowSearchInv
  <2> QED BY <2>1, <2>3 DEF RowStep, SearchStep
<1> QED BY <1>2, <1>3, <1>4

\* A step that changes nothing.
LEMMA NothingStep ==
  ASSUME RowSearchInv, UNCHANGED rowVars
  PROVE  RowStep
<1>1. RowInv'
  BY RowNextInv DEF RowSearchInv
<1>2. UNCHANGED <<solutions, preprocessed, current, stack, currentStackDepth, pc,
                  violatingLevel, status, backup>>
  BY DEF rowVars, vars
<1>3. RowSearchInv'
  BY <1>1, <1>2, SearchInvNext DEF RowSearchInv, ShapeInv, FollowInv
<1>4. RefuteInv => RefuteInv'
  BY <1>2, RefuteUnchanged
<1>5. UNCHANGED Search!vars
  BY <1>2, SearchStutters DEF SearchPc, DissolvedSeen
<1> QED BY <1>3, <1>4, <1>5 DEF RowStep, SearchStep

\* Every step keeps the invariant and is one of the search, or shows nothing.
LEMMA RowSteps == RowSearchInv /\ [RowNext]_rowVars => RowStep
<1> SUFFICES ASSUME RowSearchInv, [RowNext]_rowVars PROVE RowStep
  OBVIOUS
<1>0. RowInv'
  BY RowNextInv DEF RowSearchInv
<1>1. CASE FixOutOfBounds \/ LpSolutionFound \/ StoredApplied \/ TightenDone
  BY <1>0, <1>1, MovingStep
<1>2. CASE LpNoSolution
  BY <1>0, <1>2, VerdictStep
<1>3. CASE ApplyStored
  <2>1. PICK o : Apply(o, "learning") /\ SearchOutcome(o)
    BY <1>3, StoredOutcome
  <2>2. pc = "learning" /\ UNCHANGED <<solutions, preprocessed, stack, currentStackDepth>>
    BY <1>3 DEF ApplyStored
  <2> QED BY <1>0, <2>1, <2>2, UpdateStep
<1>4. CASE SatFound
  BY <1>0, <1>4, SatStep
<1>5. CASE \E r \in LpRows, x \in Column : StoreGlpkBound(r, x)
  BY <1>0, <1>5, StoreStep
<1>6. CASE \E r \in TableauRows(current), x \in Var : TightenBoundsOnRow(r, x)
  <2>1. PICK r \in TableauRows(current), x \in Var : TightenBoundsOnRow(r, x)
    BY <1>6
  <2>2. PICK o : Apply(o, "tightening") /\ SearchOutcome(o)
    BY <2>1, TightenOutcome
  <2>3. pc = "tightening" /\ UNCHANGED <<solutions, preprocessed, stack, currentStackDepth>>
    BY <2>1 DEF TightenBoundsOnRow
  <2> QED BY <1>0, <2>2, <2>3, UpdateStep
<1>7. CASE \E f \in F, p \in Phase : DissolveReluOnVar(f, p)
  BY <1>0, <1>7, DecisionStep
<1>8. CASE PopFlip \/ PopDiscard \/ PopEmpty
  BY <1>0, <1>8, PopsStep
<1>9. CASE UNCHANGED rowVars
  BY <1>9, NothingStep
<1>10. Terminated /\ UNCHANGED slacks => UNCHANGED rowVars
  BY DEF Terminated, rowVars
<1> QED BY <1>1, <1>2, <1>3, <1>4, <1>5, <1>6, <1>7, <1>8, <1>9, <1>10 DEF RowNext

\* The initial states.
LEMMA RowSearchInit == RowInit => RowSearchInv /\ RefuteInv /\ Search!Init
<1> SUFFICES ASSUME RowInit PROVE RowSearchInv /\ RefuteInv /\ Search!Init
  OBVIOUS
<1>1. Init /\ RowInv
  BY RowInitInv DEF RowInit
<1>2. ShapeInv /\ FollowInv /\ RefuteInv /\ Search!Init
  BY <1>1, ShapeInitially, FollowInitially, RefuteInitially, InitSimulated
<1>3. pc = "loop" /\ violatingLevel = 0 /\ currentStackDepth = 0
  BY <1>1 DEF Init
<1> QED BY <1>1, <1>2, <1>3 DEF RowSearchInv

(***************************************************************************)
(* The inductive invariant of the search over the bounds that rows give.   *)
(***************************************************************************)
THEOREM RowSearchInvariant == RowSpec => []RowSearchInv
<1>1. RowSearchInv /\ [RowNext]_rowVars => RowSearchInv'
  BY RowSteps DEF RowStep
<1> QED BY <1>1, RowSearchInit, PTL DEF RowSpec

(***************************************************************************)
(* progress() answers SAT only with a solution of the query when bounds    *)
(* come from rows, with and without conflict analysis.                     *)
(***************************************************************************)
THEOREM RowAcceptedIsSolution == RowSpec => []AcceptedSound
<1>1. RowSearchInv => AcceptedSound
  BY RowTyped, ShapeAccepts DEF RowSearchInv
<1> QED BY <1>1, RowSearchInvariant, PTL

(***************************************************************************)
(* Refinement, whatever the level of a conflict: the search over the bounds*)
(* that rows give is that of SmtCore but for misjudged conflicts, which    *)
(* need a merge since the preprocessing and still refute all decisions.    *)
(***************************************************************************)
THEOREM RowTighteningImplementsSearch == RowSpec => SearchUnlessMisjudged
<1>1. RowSearchInv /\ [RowNext]_rowVars
        => RowSearchInv' /\ [Search!Next \/ MisjudgedConflict]_(Search!vars)
  BY RowSteps DEF RowStep, SearchStep
<1>2. RowSpec => [][Search!Next \/ MisjudgedConflict]_(Search!vars)
  BY <1>1, RowSearchInit, PTL DEF RowSpec
<1>3. RowSpec => Search!Init
  BY RowSearchInit DEF RowSpec
<1> QED BY <1>2, <1>3 DEF SearchUnlessMisjudged

(***************************************************************************)
(* Misjudged conflicts are the only way to a wrong answer UNSAT: it is     *)
(* right in every run of solve() in which none is found, so in particular  *)
(* where bounds contradict each other only while no pair is merged that    *)
(* the preprocessing left alone.                                           *)
(***************************************************************************)
THEOREM RowUnsatUnlessMisjudged ==
  RowSpec /\ [][~MisjudgedConflict]_rowVars => []UnsatSound
<1>1. RowSearchInv /\ RefuteInv /\ [RowNext]_rowVars /\ [~MisjudgedConflict]_rowVars
        => (RowSearchInv /\ RefuteInv)'
  <2> SUFFICES ASSUME RowSearchInv, RefuteInv, [RowNext]_rowVars, [~MisjudgedConflict]_rowVars
               PROVE  (RowSearchInv /\ RefuteInv)'
    OBVIOUS
  <2>1. RowStep
    BY RowSteps
  <2>2. CASE UNCHANGED rowVars
    BY <2>1, <2>2, RefuteUnchanged DEF RowStep, rowVars, vars
  <2>3. CASE ~MisjudgedConflict
    BY <2>1, <2>3 DEF RowStep, SearchStep
  <2> QED BY <2>2, <2>3
<1>2. RefuteInv => UnsatSound
  BY DEF RefuteInv, UnsatSound
<1> QED BY <1>1, <1>2, RowSearchInit, PTL DEF RowSpec
=============================================================================
