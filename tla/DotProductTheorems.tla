------------------------- MODULE DotProductTheorems -------------------------
(***************************************************************************)
(* Facts about the values of rows: what a sum over a finite set is, how an *)
(* element is taken out of it, and that it is linear in its terms.         *)
(***************************************************************************)
EXTENDS DotProduct, FiniteSetTheorems, TLAPS

-----------------------------------------------------------------------------
(*************************************************************************)
(* Sums.  A sum over a set is a fold of the community modules, a function *)
(* defined by recursion on subsets.  What is needed of it is proved here by *)
(* taking a minimal subset for which it fails.                           *)
(*************************************************************************)
\* A non-empty set of finite sets has a minimal one.
LEMMA MinimalSubset ==
  ASSUME NEW S, IsFiniteSet(S), NEW T, T \subseteq SUBSET S, T # {}
  PROVE  \E X \in T : \A Y \in T : Y \subseteq X => Y = X
<1>1. IsWellFoundedOn(StrictSubsetOrdering(S), SUBSET S)
  BY FS_StrictSubsetOrderingWellFounded, FS_FiniteSubsetsOfFinite
<1>2. \E X \in T : \A Y \in T : ~(<<Y, X>> \in StrictSubsetOrdering(S))
  BY <1>1, WFMin
<1> QED BY <1>2 DEF StrictSubsetOrdering

\* A recursion over the subsets of a finite set, which takes one element away
\* each time: its function exists and is unique.
IsFold(g, S, c, base, step) ==
  g = [T \in SUBSET S |-> IF T = {} THEN base ELSE step[<<c[T], g[T \ {c[T]}]>>]]

\* The value of a recursion at a subset.
LEMMA FoldAt ==
  ASSUME NEW g, NEW S, NEW c, NEW base, NEW step, IsFold(g, S, c, base, step),
         NEW T \in SUBSET S
  PROVE  g[T] = IF T = {} THEN base ELSE step[<<c[T], g[T \ {c[T]}]>>]
BY DEF IsFold

\* Two recursions agree on the subsets that both are defined on.
LEMMA FoldUnique ==
  ASSUME NEW S, IsFiniteSet(S), NEW c, \A T \in SUBSET S : T # {} => c[T] \in T,
         NEW base, NEW step, NEW g, IsFold(g, S, c, base, step),
         NEW U \in SUBSET S, NEW h, IsFold(h, U, c, base, step)
  PROVE  \A T \in SUBSET U : h[T] = g[T]
<1> DEFINE bad == {T \in SUBSET U : h[T] # g[T]}
<1> SUFFICES ASSUME bad # {} PROVE FALSE
  OBVIOUS
<1>1. PICK X \in bad : \A Y \in bad : Y \subseteq X => Y = X
  <2>1. bad \subseteq SUBSET S OBVIOUS
  <2> HIDE DEF bad
  <2> QED BY <2>1, MinimalSubset
<1>2. h[X] = IF X = {} THEN base ELSE step[<<c[X], h[X \ {c[X]}]>>]
  BY DEF IsFold
<1>3. g[X] = IF X = {} THEN base ELSE step[<<c[X], g[X \ {c[X]}]>>]
  BY DEF IsFold
<1>4. X # {} => c[X] \in X
  OBVIOUS
<1>5. X # {} => h[X \ {c[X]}] = g[X \ {c[X]}]
  BY <1>1, <1>4
<1> QED BY <1>2, <1>3, <1>5

\* Every such recursion has a function.
LEMMA FoldExists ==
  ASSUME NEW S, IsFiniteSet(S), NEW c, \A T \in SUBSET S : T # {} => c[T] \in T,
         NEW base, NEW step
  PROVE  \E g : IsFold(g, S, c, base, step)
<1> DEFINE bad == {X \in SUBSET S : ~\E g : IsFold(g, X, c, base, step)}
<1> SUFFICES ASSUME bad # {} PROVE FALSE
  OBVIOUS
<1>1. PICK X \in bad : \A Y \in bad : Y \subseteq X => Y = X
  <2>1. bad \subseteq SUBSET S OBVIOUS
  <2> HIDE DEF bad
  <2> QED BY <2>1, MinimalSubset
<1> DEFINE G == [Y \in SUBSET X |-> CHOOSE g : IsFold(g, Y, c, base, step)]
           below == [Y \in SUBSET X |-> G[Y][Y]]
           all == [Y \in SUBSET X |->
                     IF Y = X THEN IF X = {} THEN base ELSE step[<<c[X], below[X \ {c[X]}]>>]
                     ELSE below[Y]]
<1>2. \A Y \in SUBSET X : Y # X => IsFold(G[Y], Y, c, base, step)
  <2> TAKE Y \in SUBSET X
  <2> HAVE Y # X
  <2>1. \E g : IsFold(g, Y, c, base, step)
    BY <1>1
  <2> QED BY <2>1
<1> HIDE DEF G
<1>3. \A Y \in SUBSET X : Y # X =>
        below[Y] = IF Y = {} THEN base ELSE step[<<c[Y], below[Y \ {c[Y]}]>>]
  <2> SUFFICES ASSUME NEW Y \in SUBSET X, Y # X
               PROVE below[Y] = IF Y = {} THEN base ELSE step[<<c[Y], below[Y \ {c[Y]}]>>]
    OBVIOUS
  <2>1. G[Y][Y] = IF Y = {} THEN base ELSE step[<<c[Y], G[Y][Y \ {c[Y]}]>>]
    BY <1>2, FoldAt
  <2>2. Y # {} => c[Y] \in Y /\ Y \ {c[Y]} # X
    OBVIOUS
  <2>3. Y # {} => G[Y \ {c[Y]}][Y \ {c[Y]}] = G[Y][Y \ {c[Y]}]
    <3> SUFFICES ASSUME Y # {} PROVE G[Y \ {c[Y]}][Y \ {c[Y]}] = G[Y][Y \ {c[Y]}]
      OBVIOUS
    <3> DEFINE Z == Y \ {c[Y]}
    <3>1. IsFold(G[Y], Y, c, base, step) /\ IsFold(G[Z], Z, c, base, step)
      BY <1>2, <2>2
    <3>2. IsFiniteSet(Y) /\ (\A T \in SUBSET Y : T # {} => c[T] \in T) /\ Z \in SUBSET Y
      BY FS_Subset
    <3> HIDE DEF Z
    <3> DEFINE gY == G[Y]
               gZ == G[Z]
    <3>3. IsFold(gY, Y, c, base, step) /\ IsFold(gZ, Z, c, base, step)
      BY <3>1
    <3> HIDE DEF gY, gZ
    <3>4. \A T \in SUBSET Z : gZ[T] = gY[T]
      BY <3>2, <3>3, FoldUnique
    <3>5. gZ[Z] = gY[Z]
      BY <3>4
    <3> QED BY <3>5 DEF Z, gY, gZ
  <2> QED BY <2>1, <2>2, <2>3
<1> HIDE DEF below
<1>4. \A Y \in SUBSET X :
        all[Y] = IF Y = {} THEN base ELSE step[<<c[Y], all[Y \ {c[Y]}]>>]
  <2> SUFFICES ASSUME NEW Y \in SUBSET X
               PROVE all[Y] = IF Y = {} THEN base ELSE step[<<c[Y], all[Y \ {c[Y]}]>>]
    OBVIOUS
  <2>1. Y # {} => c[Y] \in Y
    OBVIOUS
  <2>2. Y # {} => all[Y \ {c[Y]}] = below[Y \ {c[Y]}]
    BY <2>1
  <2> QED BY <1>3, <2>2
<1>5. all = [Y \in SUBSET X |-> IF Y = {} THEN base ELSE step[<<c[Y], all[Y \ {c[Y]}]>>]]
  <2>1. all = [Y \in SUBSET X |-> all[Y]]
    OBVIOUS
  <2> HIDE DEF all
  <2> QED BY <1>4, <2>1
<1> HIDE DEF all
<1>6. IsFold(all, X, c, base, step)
  BY <1>5 DEF IsFold
<1> QED BY <1>1, <1>6

-----------------------------------------------------------------------------
Choice(T) == CHOOSE x \in T : TRUE
IsDot(g, r, a, S) ==
  g = [T \in SUBSET S |-> IF T = {} THEN 0
                          ELSE r[Choice(T)] * a[Choice(T)] + g[T \ {Choice(T)}]]
IntOn(r, S) == \A x \in S : r[x] \in Int

Sums(g, r, a, S) ==
  /\ g \in [SUBSET S -> Int]
  /\ IsDot(g, r, a, S)
  /\ \A T \in SUBSET S : g[T] = Dot(r, a, T)

\* A sum as the community module defines it: the recursion takes the
\* elements in an order that CHOOSE fixes.
LEMMA DotChosen ==
  ASSUME NEW r, NEW a, NEW S
  PROVE  Dot(r, a, S) = (CHOOSE g : IsDot(g, r, a, S))[S]
BY DEF Dot, MapThenSumSet, MapThenFoldSet, IsDot, Choice

\* One step of the recursion of a sum.
LEMMA DotAt ==
  ASSUME NEW g, NEW r, NEW a, NEW S, IsDot(g, r, a, S), NEW T \in SUBSET S
  PROVE  g[T] = IF T = {} THEN 0
                ELSE r[Choice(T)] * a[Choice(T)] + g[T \ {Choice(T)}]
BY DEF IsDot

\* The element taken next is one of those left.
LEMMA ChoiceIn == \A T : T # {} => Choice(T) \in T
BY DEF Choice

\* The sums over the subsets of a finite set, all of them by one function.
LEMMA DotFunction ==
  ASSUME NEW S, IsFiniteSet(S), NEW r, NEW a, IntOn(r, S), IntOn(a, S)
  PROVE  \E g : Sums(g, r, a, S)
<1> DEFINE c == [T \in SUBSET S |-> Choice(T)]
           step == [p \in S \X Int |-> r[p[1]] * a[p[1]] + p[2]]
<1>1. \A T \in SUBSET S : T # {} => c[T] \in T
  BY ChoiceIn
<1>2. \A x \in S, n \in Int : step[<<x, n>>] = r[x] * a[x] + n /\ step[<<x, n>>] \in Int
  BY DEF IntOn
<1>3. \A T \in SUBSET S : c[T] = Choice(T)
  OBVIOUS
<1> HIDE DEF c, step
<1>4. PICK g : IsFold(g, S, c, 0, step)
  BY <1>1, FoldExists
<1>5. \A T \in SUBSET S : g[T] = IF T = {} THEN 0 ELSE step[<<c[T], g[T \ {c[T]}]>>]
  BY <1>4, FoldAt
<1>6. \A T \in SUBSET S : g[T] \in Int
  <2> DEFINE bad == {T \in SUBSET S : g[T] \notin Int}
  <2> SUFFICES ASSUME bad # {} PROVE FALSE
    OBVIOUS
  <2>1. PICK X \in bad : \A Y \in bad : Y \subseteq X => Y = X
    <3>1. bad \subseteq SUBSET S OBVIOUS
    <3> HIDE DEF bad
    <3> QED BY <3>1, MinimalSubset
  <2>2. X # {} => c[X] \in X /\ g[X \ {c[X]}] \in Int
    BY <2>1, <1>1
  <2>3. X # {} => step[<<c[X], g[X \ {c[X]}]>>] \in Int
    BY <1>2, <2>2
  <2> QED BY <1>5, <2>3
<1>7. \A T \in SUBSET S : g[T] = IF T = {} THEN 0
                                 ELSE r[Choice(T)] * a[Choice(T)] + g[T \ {Choice(T)}]
  <2> SUFFICES ASSUME NEW T \in SUBSET S, T # {}
               PROVE g[T] = r[Choice(T)] * a[Choice(T)] + g[T \ {Choice(T)}]
    BY <1>5
  <2>1. c[T] = Choice(T) /\ c[T] \in S /\ g[T \ {c[T]}] \in Int
    BY <1>1, <1>3, <1>6
  <2> QED BY <1>2, <1>5, <2>1
<1>8. g \in [SUBSET S -> Int]
  BY <1>4, <1>6 DEF IsFold
<1>9. IsDot(g, r, a, S)
  BY <1>7, <1>8 DEF IsDot
<1>10. ASSUME NEW T \in SUBSET S PROVE g[T] = Dot(r, a, T)
  <2> DEFINE h == CHOOSE f : IsDot(f, r, a, T)
             low == [U \in SUBSET T |-> g[U]]
  <2>1. IsDot(low, r, a, T)
    <3>1. \A U \in SUBSET T : U # {} => U \ {Choice(U)} \in SUBSET T
      OBVIOUS
    <3> QED BY <1>7, <3>1 DEF IsDot
  <2>2. IsDot(h, r, a, T)
    BY <2>1
  <2> HIDE DEF h, low
  <2>3. \A U \in SUBSET T : h[U] = g[U]
    <3> DEFINE bad == {U \in SUBSET T : h[U] # g[U]}
    <3> SUFFICES ASSUME bad # {} PROVE FALSE
      OBVIOUS
    <3>1. PICK X \in bad : \A Y \in bad : Y \subseteq X => Y = X
      <4>1. bad \subseteq SUBSET S OBVIOUS
      <4> HIDE DEF bad
      <4> QED BY <4>1, MinimalSubset
    <3>2. h[X] = IF X = {} THEN 0 ELSE r[Choice(X)] * a[Choice(X)] + h[X \ {Choice(X)}]
      BY <2>2, DotAt
    <3>3. X # {} => h[X \ {Choice(X)}] = g[X \ {Choice(X)}]
      BY <3>1, ChoiceIn
    <3> QED BY <1>7, <3>2, <3>3
  <2>4. Dot(r, a, T) = h[T]
    BY DotChosen DEF h
  <2> QED BY <2>3, <2>4
<1> QED BY <1>8, <1>9, <1>10 DEF Sums

\* A sum of integers is an integer.
LEMMA DotInt ==
  ASSUME NEW S, IsFiniteSet(S), NEW r, NEW a, IntOn(r, S), IntOn(a, S)
  PROVE  Dot(r, a, S) \in Int
<1>1. PICK g : Sums(g, r, a, S)
  BY DotFunction
<1>2. S \in SUBSET S
  OBVIOUS
<1> QED BY <1>1, <1>2 DEF Sums

\* The sum of nothing.
LEMMA DotEmpty == \A r, a : Dot(r, a, {}) = 0
<1> TAKE r, a
<1>1. IsFiniteSet({}) /\ IntOn(r, {}) /\ IntOn(a, {})
  BY FS_EmptySet DEF IntOn
<1>2. PICK g : Sums(g, r, a, {})
  BY <1>1, DotFunction
<1>3. {} \in SUBSET {}
  OBVIOUS
<1>4. g[{}] = 0
  BY <1>2, <1>3, DotAt DEF Sums
<1> QED BY <1>2, <1>3, <1>4 DEF Sums

\* Any element may be taken out of a sum.
LEMMA DotRemove ==
  ASSUME NEW S, IsFiniteSet(S), NEW r, NEW a, IntOn(r, S), IntOn(a, S), NEW x \in S
  PROVE  /\ Dot(r, a, S) = r[x] * a[x] + Dot(r, a, S \ {x})
         /\ Dot(r, a, S \ {x}) \in Int
<1>1. PICK g : Sums(g, r, a, S)
  BY DotFunction
<1> DEFINE bad == {T \in SUBSET S : \E y \in T : g[T] # r[y] * a[y] + g[T \ {y}]}
<1>2. SUFFICES bad = {}
  <2>1. S \in SUBSET S /\ S \ {x} \in SUBSET S OBVIOUS
  <2>2. g[S] = r[x] * a[x] + g[S \ {x}]
    BY <1>2
  <2> HIDE DEF bad
  <2> QED BY <1>1, <2>1, <2>2 DEF Sums
<1> SUFFICES ASSUME bad # {} PROVE FALSE
  OBVIOUS
<1>3. PICK X \in bad : \A Y \in bad : Y \subseteq X => Y = X
  <2>1. bad \subseteq SUBSET S OBVIOUS
  <2> HIDE DEF bad
  <2> QED BY <2>1, MinimalSubset
<1>4. PICK y \in X : g[X] # r[y] * a[y] + g[X \ {y}]
  OBVIOUS
<1> DEFINE z == Choice(X)
<1>5. z \in X
  BY ChoiceIn
<1>6. g[X] = r[z] * a[z] + g[X \ {z}]
  BY <1>1, <1>4, DotAt DEF Sums
<1>7. y # z
  BY <1>4, <1>6
<1>8. X \ {z} \notin bad /\ X \ {y} \notin bad
  BY <1>3, <1>5
<1> HIDE DEF z
<1>9. /\ g[X \ {z}] = r[y] * a[y] + g[(X \ {z}) \ {y}]
      /\ g[X \ {y}] = r[z] * a[z] + g[(X \ {y}) \ {z}]
  BY <1>5, <1>7, <1>8
<1>10. (X \ {z}) \ {y} = (X \ {y}) \ {z} /\ (X \ {y}) \ {z} \in SUBSET S
  OBVIOUS
<1>11. r[y] * a[y] \in Int /\ r[z] * a[z] \in Int /\ g[(X \ {y}) \ {z}] \in Int
  BY <1>1, <1>5, <1>10 DEF IntOn, Sums
<1>12. PICK l \in Int, m \in Int, n \in Int :
         l = r[z] * a[z] /\ m = r[y] * a[y] /\ n = g[(X \ {y}) \ {z}]
  BY <1>11
<1>13. g[X] = l + (m + n) /\ g[X \ {y}] = l + n
  BY <1>6, <1>9, <1>10, <1>12
<1>14. g[X] = m + g[X \ {y}]
  BY <1>13
<1> QED BY <1>4, <1>12, <1>14

\* A sum is linear in its terms.
LEMMA DotCombines ==
  ASSUME NEW S, IsFiniteSet(S),
         NEW r, NEW a, IntOn(r, S), IntOn(a, S),
         NEW q, NEW b, IntOn(q, S), IntOn(b, S),
         NEW p, NEW c, IntOn(p, S), IntOn(c, S), NEW k \in Int,
         \A x \in S : p[x] * c[x] = r[x] * a[x] + k * (q[x] * b[x])
  PROVE  Dot(p, c, S) = Dot(r, a, S) + k * Dot(q, b, S)
<1> DEFINE bad == {T \in SUBSET S : Dot(p, c, T) # Dot(r, a, T) + k * Dot(q, b, T)}
<1> SUFFICES ASSUME bad # {} PROVE FALSE
  OBVIOUS
<1>1. PICK X \in bad : \A Y \in bad : Y \subseteq X => Y = X
  <2>1. bad \subseteq SUBSET S OBVIOUS
  <2> HIDE DEF bad
  <2> QED BY <2>1, MinimalSubset
<1>2. X # {}
  <2> SUFFICES ASSUME X = {} PROVE FALSE
    OBVIOUS
  <2>1. Dot(p, c, X) = 0 /\ Dot(r, a, X) = 0 /\ Dot(q, b, X) = 0
    BY DotEmpty
  <2> QED BY <2>1
<1>3. PICK x \in X : TRUE
  BY <1>2
<1> DEFINE Y == X \ {x}
<1>4. Dot(p, c, Y) = Dot(r, a, Y) + k * Dot(q, b, Y)
  BY <1>1
<1>5. IsFiniteSet(X) /\ IntOn(p, X) /\ IntOn(c, X) /\ IntOn(r, X) /\ IntOn(a, X)
        /\ IntOn(q, X) /\ IntOn(b, X)
  BY FS_Subset DEF IntOn
<1>6. /\ Dot(p, c, X) = p[x] * c[x] + Dot(p, c, Y) /\ Dot(p, c, Y) \in Int
      /\ Dot(r, a, X) = r[x] * a[x] + Dot(r, a, Y) /\ Dot(r, a, Y) \in Int
      /\ Dot(q, b, X) = q[x] * b[x] + Dot(q, b, Y) /\ Dot(q, b, Y) \in Int
  BY <1>5, DotRemove
<1>7. p[x] * c[x] = r[x] * a[x] + k * (q[x] * b[x])
  OBVIOUS
<1>8. r[x] * a[x] \in Int /\ q[x] * b[x] \in Int
  BY DEF IntOn
<1>9. \A l, m, n, o \in Int : l + k * m + (n + k * o) = l + n + k * (m + o)
  OBVIOUS
<1> HIDE DEF Y
<1>10. Dot(p, c, X) = Dot(r, a, X) + k * Dot(q, b, X)
  BY <1>4, <1>6, <1>7, <1>8, <1>9
<1> QED BY <1>10

\* Equal terms have equal sums.
LEMMA DotEqual ==
  ASSUME NEW S, IsFiniteSet(S),
         NEW r, NEW a, IntOn(r, S), IntOn(a, S), NEW q, NEW b, IntOn(q, S), IntOn(b, S),
         \A x \in S : q[x] * b[x] = r[x] * a[x]
  PROVE  Dot(q, b, S) = Dot(r, a, S)
<1>1. \A x \in S : q[x] * b[x] = r[x] * a[x] + 0 * (r[x] * a[x])
  BY DEF IntOn
<1>2. Dot(q, b, S) = Dot(r, a, S) + 0 * Dot(r, a, S)
  BY <1>1, DotCombines
<1> QED BY <1>2, DotInt

\* Terms that are zero may be left out.
LEMMA DotSupport ==
  ASSUME NEW S, IsFiniteSet(S), NEW r, NEW a, IntOn(r, S), IntOn(a, S),
         NEW T \in SUBSET S, \A x \in S \ T : r[x] * a[x] = 0
  PROVE  Dot(r, a, S) = Dot(r, a, T)
<1> DEFINE bad == {U \in SUBSET (S \ T) : Dot(r, a, T \cup U) # Dot(r, a, T)}
<1>1. SUFFICES bad = {}
  <2>1. S = T \cup (S \ T) /\ S \ T \in SUBSET (S \ T)
    OBVIOUS
  <2>2. S \ T \notin bad
    BY <1>1
  <2>3. Dot(r, a, T \cup (S \ T)) = Dot(r, a, T)
    BY <2>1, <2>2
  <2> QED BY <2>1, <2>3
<1> SUFFICES ASSUME bad # {} PROVE FALSE
  OBVIOUS
<1>2. PICK X \in bad : \A Y \in bad : Y \subseteq X => Y = X
  <2>1. bad \subseteq SUBSET S OBVIOUS
  <2> HIDE DEF bad
  <2> QED BY <2>1, MinimalSubset
<1>3. X # {}
  <2> SUFFICES ASSUME X = {} PROVE FALSE
    OBVIOUS
  <2>1. T \cup X = T OBVIOUS
  <2> QED BY <2>1, <1>2
<1>4. PICK x \in X : TRUE
  BY <1>3
<1>5. (T \cup X) \ {x} = T \cup (X \ {x}) /\ x \in T \cup X /\ r[x] * a[x] = 0
  OBVIOUS
<1>6. X \ {x} \notin bad /\ X \ {x} \in SUBSET (S \ T)
  BY <1>2, <1>4
<1>7. Dot(r, a, T \cup (X \ {x})) = Dot(r, a, T)
  BY <1>6
<1>8. IsFiniteSet(T \cup X) /\ IntOn(r, T \cup X) /\ IntOn(a, T \cup X)
  <2>1. T \cup X \in SUBSET S OBVIOUS
  <2> QED BY <2>1, FS_Subset DEF IntOn
<1>9. Dot(r, a, T \cup X) = r[x] * a[x] + Dot(r, a, (T \cup X) \ {x})
        /\ Dot(r, a, (T \cup X) \ {x}) \in Int
  BY <1>5, <1>8, DotRemove
<1>10. Dot(r, a, T \cup X) = Dot(r, a, T)
  <2>1. \A n \in Int : 0 + n = n
    OBVIOUS
  <2> QED BY <1>5, <1>7, <1>9, <2>1
<1> QED BY <1>2, <1>10

\* A sum is at least as large as one whose terms are not larger.
LEMMA DotMonotone ==
  ASSUME NEW S, IsFiniteSet(S),
         NEW r, NEW a, IntOn(r, S), IntOn(a, S), NEW q, NEW b, IntOn(q, S), IntOn(b, S),
         \A x \in S : r[x] * a[x] <= q[x] * b[x]
  PROVE  Dot(r, a, S) <= Dot(q, b, S)
<1> DEFINE bad == {T \in SUBSET S : ~(Dot(r, a, T) <= Dot(q, b, T))}
<1> SUFFICES ASSUME bad # {} PROVE FALSE
  OBVIOUS
<1>1. PICK X \in bad : \A Y \in bad : Y \subseteq X => Y = X
  <2>1. bad \subseteq SUBSET S OBVIOUS
  <2> HIDE DEF bad
  <2> QED BY <2>1, MinimalSubset
<1>2. X # {}
  BY DotEmpty
<1>3. PICK x \in X : TRUE
  BY <1>2
<1>4. X \ {x} \in SUBSET S /\ X \ {x} \notin bad
  BY <1>1, <1>3
<1>5. Dot(r, a, X \ {x}) <= Dot(q, b, X \ {x})
  BY <1>4
<1>6. IsFiniteSet(X) /\ IntOn(r, X) /\ IntOn(a, X) /\ IntOn(q, X) /\ IntOn(b, X)
  BY FS_Subset DEF IntOn
<1>7. /\ Dot(r, a, X) = r[x] * a[x] + Dot(r, a, X \ {x}) /\ Dot(r, a, X \ {x}) \in Int
      /\ Dot(q, b, X) = q[x] * b[x] + Dot(q, b, X \ {x}) /\ Dot(q, b, X \ {x}) \in Int
  BY <1>6, DotRemove
<1>8. r[x] * a[x] \in Int /\ q[x] * b[x] \in Int /\ r[x] * a[x] <= q[x] * b[x]
  BY <1>6 DEF IntOn
<1>9. Dot(r, a, X) <= Dot(q, b, X)
  BY <1>5, <1>7, <1>8
<1> QED BY <1>9

\* A sum without terms that differ from zero.
LEMMA DotZero ==
  ASSUME NEW S, IsFiniteSet(S), NEW r, NEW a, IntOn(r, S), IntOn(a, S),
         \A x \in S : r[x] * a[x] = 0
  PROVE  Dot(r, a, S) = 0
<1>1. {} \in SUBSET S /\ \A x \in S \ {} : r[x] * a[x] = 0
  OBVIOUS
<1> QED BY <1>1, DotSupport, DotEmpty

\* A sum of multiples of vectors.
Combination(w, R, T, C) == [z \in C |-> Dot(w, [q \in R |-> q[z]], T)]

\* If vectors have the value zero, so have the sums of their multiples.
LEMMA CombinationZero ==
  ASSUME NEW C, IsFiniteSet(C), NEW e, IntOn(e, C), NEW R, IsFiniteSet(R),
         \A q \in R : IntOn(q, C) /\ Dot(q, e, C) = 0, NEW w, IntOn(w, R)
  PROVE  /\ IntOn(Combination(w, R, R, C), C)
         /\ Dot(Combination(w, R, R, C), e, C) = 0
<1>1. ASSUME NEW T \in SUBSET R, NEW z \in C
      PROVE  /\ IsFiniteSet(T) /\ IntOn(w, T) /\ IntOn([q \in R |-> q[z]], T)
             /\ Combination(w, R, T, C)[z] = Dot(w, [q \in R |-> q[z]], T)
             /\ Combination(w, R, T, C)[z] \in Int
  <2>1. IsFiniteSet(T) /\ IntOn(w, T) /\ IntOn([q \in R |-> q[z]], T)
    BY FS_Subset DEF IntOn
  <2>2. Combination(w, R, T, C)[z] = Dot(w, [q \in R |-> q[z]], T)
    BY DEF Combination
  <2> QED BY <2>1, <2>2, DotInt
<1>2. \A T \in SUBSET R : IntOn(Combination(w, R, T, C), C)
  BY <1>1 DEF IntOn
<1> DEFINE bad == {T \in SUBSET R : Dot(Combination(w, R, T, C), e, C) # 0}
<1>3. SUFFICES ASSUME bad # {} PROVE FALSE
  BY <1>2
<1>4. PICK X \in bad : \A Y \in bad : Y \subseteq X => Y = X
  <2>1. bad \subseteq SUBSET R OBVIOUS
  <2> HIDE DEF bad
  <2> QED BY <2>1, <1>3, MinimalSubset
<1>5. X \in SUBSET R /\ Dot(Combination(w, R, X, C), e, C) # 0
  OBVIOUS
<1>6. X # {}
  <2> SUFFICES ASSUME X = {} PROVE FALSE
    OBVIOUS
  <2>1. \A z \in C : Combination(w, R, X, C)[z] = 0
    BY DotEmpty DEF Combination
  <2>2. \A z \in C : Combination(w, R, X, C)[z] * e[z] = 0
    BY <2>1 DEF IntOn
  <2> QED BY <1>2, <1>5, <2>2, DotZero
<1>7. PICK q \in X : TRUE
  BY <1>6
<1> DEFINE Y == X \ {q}
<1>8. Y \in SUBSET R /\ Dot(Combination(w, R, Y, C), e, C) = 0 /\ q \in R
  BY <1>4, <1>7
<1> HIDE DEF bad
<1>9. ASSUME NEW z \in C
      PROVE  Combination(w, R, X, C)[z] * e[z]
               = Combination(w, R, Y, C)[z] * e[z] + w[q] * (q[z] * e[z])
  <2>1. Combination(w, R, X, C)[z] = w[q] * q[z] + Combination(w, R, Y, C)[z]
    <3>1. [p \in R |-> p[z]][q] = q[z]
      BY <1>8
    <3>2. Dot(w, [p \in R |-> p[z]], X)
            = w[q] * [p \in R |-> p[z]][q] + Dot(w, [p \in R |-> p[z]], X \ {q})
      BY <1>1, <1>5, <1>7, DotRemove
    <3> QED BY <1>1, <1>5, <1>8, <3>1, <3>2
  <2>2. /\ w[q] \in Int /\ q[z] \in Int /\ e[z] \in Int
        /\ Combination(w, R, Y, C)[z] \in Int
    BY <1>1, <1>8 DEF IntOn
  <2>3. \A i, j, k, l \in Int : (i * j + k) * l = k * l + i * (j * l)
    OBVIOUS
  <2> HIDE DEF Y
  <2> QED BY <2>1, <2>2, <2>3
<1>10. w[q] \in Int /\ IntOn(q, C) /\ Dot(q, e, C) = 0
  BY <1>8 DEF IntOn
<1>11. Dot(Combination(w, R, X, C), e, C)
         = Dot(Combination(w, R, Y, C), e, C) + w[q] * Dot(q, e, C)
  <2> HIDE DEF Y
  <2> QED BY <1>2, <1>5, <1>8, <1>9, <1>10, DotCombines
<1> QED BY <1>5, <1>8, <1>10, <1>11
=============================================================================
