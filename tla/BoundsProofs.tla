---------------------------- MODULE BoundsProofs ----------------------------
(***************************************************************************)
(* Proofs about Bounds: every bound in force, saved by a decision or kept  *)
(* for a restoration holds in the solutions that follow the decisions it   *)
(* depends on, whatever the variables, pairs, values and queries; and what *)
(* Bounds answers is right.                                                *)
(***************************************************************************)
EXTENDS Bounds, SequenceTheorems, TLAPS

-----------------------------------------------------------------------------
(***************************************************************************)
(* Variables of pairs and their partners.                                  *)
(***************************************************************************)
LEMMA PairFacts ==
  ASSUME NEW f \in F
  PROVE  /\ f \in Var /\ B[f] \in Var /\ B[f] \notin F
         /\ PairOf(f) = f /\ PairOf(B[f]) = f
         /\ Partner(f) = B[f] /\ Partner(B[f]) = f
<1>1. f \in Var /\ B[f] \in Var /\ B[f] \notin F
  BY BoundsAssumption
<1>2. PairOf(f) = f
  BY DEF PairOf
<1>3. PairOf(B[f]) = f
  <2>1. \A g \in F : B[g] = B[f] => g = f
    BY BoundsAssumption
  <2>2. PairOf(B[f]) = CHOOSE g \in F : B[g] = B[f]
    BY <1>1 DEF PairOf
  <2>3. QED
    BY <2>1, <2>2
<1>4. QED
  BY <1>1, <1>2, <1>3 DEF Partner

LEMMA ActivePair ==
  ASSUME NEW st, NEW x \in Var, ActiveReluVariable(st, x)
  PROVE  \E f \in F : /\ PairOf(x) = f /\ st.dissolved[f] = Active
                      /\ \/ x = f /\ Partner(x) = B[f]
                         \/ x = B[f] /\ Partner(x) = f
<1>1. CASE x \in F
  BY <1>1, PairFacts DEF ActiveReluVariable
<1>2. CASE IsB(x)
  BY <1>2, PairFacts DEF ActiveReluVariable, IsB
<1>3. QED
  BY <1>1, <1>2 DEF ActiveReluVariable

-----------------------------------------------------------------------------
(***************************************************************************)
(* Updates, relative to the solutions G[l] that follow l decisions.        *)
(***************************************************************************)
JustifiedBy(G, st, k) ==
  \A x \in Var :
    /\ st.lower[x].level <= k /\ st.upper[x].level <= k
    /\ \A s \in G[st.lower[x].level] : st.lower[x].val <= s[x]
    /\ \A s \in G[st.upper[x].level] : s[x] <= st.upper[x].val

\* The lower bound of an f is never negative, and a split f is at most zero.
PairBounds(st) ==
  \A f \in F :
    /\ st.lower[f].val >= 0
    /\ st.dissolved[f] = "SPLIT" => st.upper[f].val <= 0

\* Members of G are assignments in which the pairs hold.
Relus(S) == \A s \in S : s \in [Var -> Int] /\ \A f \in F : ReluHolds(s, f)

LEMMA RaisedLower ==
  ASSUME NEW G, NEW k \in Nat, NEW st \in State, JustifiedBy(G, st, k),
         NEW S, NEW v \in Int, NEW l \in 0..k,
         \A s \in G[l] : \A y \in S : v <= s[y],
         PairBounds(st), \A f \in F : f \in S => v >= 0
  PROVE  /\ WithLower(st, S, v, l) \in State
         /\ JustifiedBy(G, WithLower(st, S, v, l), k)
         /\ PairBounds(WithLower(st, S, v, l))
<1> DEFINE new == WithLower(st, S, v, l)
<1>1. /\ new.upper = st.upper /\ new.dissolved = st.dissolved
      /\ new.lower = [x \in Var |-> IF x \in S THEN [val |-> v, level |-> l]
                                               ELSE st.lower[x]]
  BY DEF WithLower
<1>2. l \in Nat
  OBVIOUS
<1>3. new \in State
  BY <1>2 DEF WithLower, State, Bound
<1>4. ASSUME NEW x \in Var
      PROVE /\ x \in S => new.lower[x].val = v /\ new.lower[x].level = l
            /\ x \notin S => new.lower[x] = st.lower[x]
  BY <1>1
<1> HIDE DEF new
<1>5. JustifiedBy(G, new, k)
  BY <1>1, <1>4 DEF JustifiedBy
<1>6. ASSUME NEW f \in F
      PROVE  /\ new.lower[f].val >= 0
             /\ new.dissolved[f] = "SPLIT" => new.upper[f].val <= 0
  <2>1. f \in Var
    BY PairFacts
  <2>2. /\ st.lower[f].val >= 0
        /\ st.dissolved[f] = "SPLIT" => st.upper[f].val <= 0
    BY DEF PairBounds
  <2>3. QED
    BY <1>1, <1>4, <2>1, <2>2
<1>7. QED
  BY <1>3, <1>5, <1>6 DEF new, PairBounds

LEMMA LoweredUpper ==
  ASSUME NEW G, NEW k \in Nat, NEW st \in State, JustifiedBy(G, st, k),
         NEW S, NEW v \in Int, NEW l \in 0..k,
         \A s \in G[l] : \A y \in S : s[y] <= v, PairBounds(st),
         \A f \in F : f \in S /\ st.dissolved[f] = "SPLIT" => v <= 0
  PROVE  /\ WithUpper(st, S, v, l) \in State
         /\ JustifiedBy(G, WithUpper(st, S, v, l), k)
         /\ PairBounds(WithUpper(st, S, v, l))
<1> DEFINE new == WithUpper(st, S, v, l)
<1>1. /\ new.lower = st.lower /\ new.dissolved = st.dissolved
      /\ new.upper = [x \in Var |-> IF x \in S THEN [val |-> v, level |-> l]
                                               ELSE st.upper[x]]
  BY DEF WithUpper
<1>2. l \in Nat
  OBVIOUS
<1>3. new \in State
  BY <1>2 DEF WithUpper, State, Bound
<1>4. ASSUME NEW x \in Var
      PROVE /\ x \in S => new.upper[x].val = v /\ new.upper[x].level = l
            /\ x \notin S => new.upper[x] = st.upper[x]
  BY <1>1
<1> HIDE DEF new
<1>5. JustifiedBy(G, new, k)
  BY <1>1, <1>4 DEF JustifiedBy
<1>6. ASSUME NEW f \in F
      PROVE  /\ new.lower[f].val >= 0
             /\ new.dissolved[f] = "SPLIT" => new.upper[f].val <= 0
  <2>1. f \in Var
    BY PairFacts
  <2>2. /\ st.lower[f].val >= 0
        /\ st.dissolved[f] = "SPLIT" => st.upper[f].val <= 0
    BY DEF PairBounds
  <2>3. QED
    BY <1>1, <1>4, <2>1, <2>2
<1>7. QED
  BY <1>3, <1>5, <1>6 DEF new, PairBounds

LEMMA DissolvedState ==
  ASSUME NEW G, NEW k, NEW st \in State, JustifiedBy(G, st, k), PairBounds(st),
         NEW f \in F, NEW p \in Phase, p = "SPLIT" => st.upper[f].val <= 0
  PROVE  /\ Dissolve(st, f, p) \in State
         /\ JustifiedBy(G, Dissolve(st, f, p), k)
         /\ PairBounds(Dissolve(st, f, p))
<1>1. /\ Dissolve(st, f, p).lower = st.lower
      /\ Dissolve(st, f, p).upper = st.upper
  BY DEF Dissolve
<1>2. Dissolve(st, f, p) \in State
  BY DEF Dissolve, State
<1>3. \A g \in F : Dissolve(st, f, p).dissolved[g]
                     = IF g = f THEN p ELSE st.dissolved[g]
  BY DEF Dissolve, State
<1>4. QED
  BY <1>1, <1>2, <1>3 DEF JustifiedBy, PairBounds

(***************************************************************************)
(* The state of an outcome is the state that was checked.                  *)
(***************************************************************************)
LEMMA OutcomeState ==
  ASSUME NEW st, NEW x, NEW y
  PROVE  Outcome(st, x, y).state = st
BY DEF Outcome

(***************************************************************************)
(* A sound upper bound leaves justified bounds: a bound of b or f that is  *)
(* positive bounds the other one too, and one that is not fixes f at zero. *)
(***************************************************************************)
LEMMA UpperUpdated ==
  ASSUME NEW G, NEW k \in Nat, NEW st \in State, JustifiedBy(G, st, k),
         PairBounds(st), NEW x \in Var, NEW v \in Int, NEW l \in 0..k,
         Relus(G[l]), \A s \in G[l] : s[x] <= v,
         x \in F /\ st.dissolved[x] = "SPLIT" => v <= 0
  PROVE  /\ UpdateUpperBound(st, x, v, l).state \in State
         /\ JustifiedBy(G, UpdateUpperBound(st, x, v, l).state, k)
         /\ PairBounds(UpdateUpperBound(st, x, v, l).state)
<1>1. CASE ~ActiveReluVariable(st, x) \/ (v < 0 /\ x \in F)
  <2>1. UpdateUpperBound(st, x, v, l).state = WithUpper(st, {x}, v, l)
    BY <1>1, OutcomeState DEF UpdateUpperBound
  <2>2. QED
    BY <2>1, LoweredUpper
<1>2. CASE ActiveReluVariable(st, x) /\ ~(v < 0 /\ x \in F)
  <2>1. PICK f \in F : /\ PairOf(x) = f /\ st.dissolved[f] = Active
                       /\ \/ x = f /\ Partner(x) = B[f]
                          \/ x = B[f] /\ Partner(x) = f
    BY <1>2, ActivePair
  <2>2. f \in Var /\ B[f] \in Var /\ B[f] \notin F
    BY PairFacts
  <2>3. ASSUME NEW s \in G[l]
        PROVE  /\ s[f] \in Int /\ s[B[f]] \in Int
               /\ s[f] = IF s[B[f]] > 0 THEN s[B[f]] ELSE 0
    BY <2>2 DEF Relus, ReluHolds
  <2>4. CASE v > 0
    <3>1. UpdateUpperBound(st, x, v, l).state = WithUpper(st, {x, Partner(x)}, v, l)
      BY <1>2, <2>4, OutcomeState DEF UpdateUpperBound
    <3>2. \A s \in G[l] : \A y \in {x, Partner(x)} : s[y] <= v
      BY <2>1, <2>3, <2>4
    <3>3. \A g \in F : g \in {x, Partner(x)} => st.dissolved[g] # "SPLIT"
      BY <2>1, <2>2 DEF Active
    <3>4. QED
      BY <3>1, <3>2, <3>3, LoweredUpper
  <2>5. CASE ~(v > 0)
    <3> DEFINE zero == WithUpper(st, {f}, 0, l)
               both == WithUpper(zero, {B[f]}, v, l)
    <3>1. UpdateUpperBound(st, x, v, l).state = Dissolve(both, f, "SPLIT")
      BY <1>2, <2>1, <2>5, OutcomeState DEF UpdateUpperBound
    <3>2. \A s \in G[l] : s[f] <= 0 /\ s[B[f]] <= v
      BY <1>2, <2>1, <2>2, <2>3, <2>5
    <3>3. zero \in State /\ JustifiedBy(G, zero, k) /\ PairBounds(zero)
      BY <3>2, LoweredUpper
    <3>4. zero.upper[f].val = 0
      BY <2>2 DEF WithUpper
    <3> HIDE DEF zero
    <3>5. both \in State /\ JustifiedBy(G, both, k) /\ PairBounds(both)
      <4>1. \A g \in F : g \notin {B[f]}
        BY <2>2
      <4>2. QED
        BY <2>2, <3>2, <3>3, <4>1, LoweredUpper
    <3>6. both.upper[f].val <= 0
      BY <2>2, <3>4 DEF WithUpper
    <3> HIDE DEF both
    <3>7. QED
      BY <3>1, <3>5, <3>6, DissolvedState DEF Phase
  <2>6. QED
    BY <2>4, <2>5
<1>3. QED
  BY <1>1, <1>2

(***************************************************************************)
(* The same for a lower bound, except that f >= 0 says nothing about b: a  *)
(* lower bound of zero must hold for the partner as well.                  *)
(***************************************************************************)
LEMMA LowerUpdated ==
  ASSUME NEW G, NEW k \in Nat, NEW st \in State, JustifiedBy(G, st, k),
         PairBounds(st), NEW x \in Var, NEW v \in Int, NEW l \in 0..k,
         Relus(G[l]), \A s \in G[l] : v <= s[x],
         x \in F => v >= 0 /\ (v = 0 => \A s \in G[l] : 0 <= s[B[x]])
  PROVE  /\ UpdateLowerBound(st, x, v, l).state \in State
         /\ JustifiedBy(G, UpdateLowerBound(st, x, v, l).state, k)
         /\ PairBounds(UpdateLowerBound(st, x, v, l).state)
<1>1. CASE ~ActiveReluVariable(st, x) \/ v < 0
  <2>1. UpdateLowerBound(st, x, v, l).state = WithLower(st, {x}, v, l)
    BY <1>1, OutcomeState DEF UpdateLowerBound
  <2>2. QED
    BY <2>1, RaisedLower
<1>2. CASE ActiveReluVariable(st, x) /\ ~(v < 0)
  <2>1. PICK f \in F : /\ PairOf(x) = f
                       /\ \/ x = f /\ Partner(x) = B[f]
                          \/ x = B[f] /\ Partner(x) = f
    BY <1>2, ActivePair
  <2>2. f \in Var /\ B[f] \in Var /\ B[f] \notin F
    BY PairFacts
  <2>3. ASSUME NEW s \in G[l]
        PROVE  /\ s[f] \in Int /\ s[B[f]] \in Int
               /\ s[f] = IF s[B[f]] > 0 THEN s[B[f]] ELSE 0
    BY <2>2 DEF Relus, ReluHolds
  <2> DEFINE raised == WithLower(st, {x, Partner(x)}, v, l)
  <2>4. \A s \in G[l] : \A y \in {x, Partner(x)} : v <= s[y]
    BY <1>2, <2>1, <2>3
  <2>5. raised \in State /\ JustifiedBy(G, raised, k) /\ PairBounds(raised)
    BY <1>2, <2>4, RaisedLower
  <2>6. UpdateLowerBound(st, x, v, l).state \in {raised, Dissolve(raised, f, "MERGE")}
    BY <1>2, <2>1, OutcomeState DEF UpdateLowerBound
  <2> HIDE DEF raised
  <2>7. QED
    BY <2>5, <2>6, DissolvedState DEF Phase
<1>3. QED
  BY <1>1, <1>2

(***************************************************************************)
(* The update of a decision on f is sound for the solutions that follow it.*)
(***************************************************************************)
LEMMA DecisionUpdated ==
  ASSUME NEW G, NEW k \in Nat, NEW st \in State, JustifiedBy(G, st, k),
         PairBounds(st), NEW f \in F, NEW p \in Phase, NEW l \in 0..k,
         Relus(G[l]), \A s \in G[l] : Fits(s, f, p)
  PROVE  /\ Decided(st, f, p, l).state \in State
         /\ JustifiedBy(G, Decided(st, f, p, l).state, k)
         /\ PairBounds(Decided(st, f, p, l).state)
<1>1. f \in Var /\ B[f] \in Var /\ 0 \in Int
  BY PairFacts
<1>2. ASSUME NEW s \in G[l]
      PROVE  /\ s[f] \in Int /\ s[B[f]] \in Int
             /\ s[f] = IF s[B[f]] > 0 THEN s[B[f]] ELSE 0
  BY <1>1 DEF Relus, ReluHolds
<1>3. CASE p = "SPLIT"
  <2>1. \A s \in G[l] : s[f] <= 0
    BY <1>2, <1>3 DEF Fits
  <2>2. QED
    BY <1>1, <1>3, <2>1, UpperUpdated DEF Decided
<1>4. CASE p = "MERGE"
  <2>1. \A s \in G[l] : 0 <= s[f] /\ 0 <= s[B[f]]
    BY <1>2, <1>4 DEF Fits
  <2>2. QED
    BY <1>1, <1>4, <2>1, LowerUpdated DEF Decided
<1>5. QED
  BY <1>3, <1>4 DEF Phase
-----------------------------------------------------------------------------
(***************************************************************************)
(* Conflicts have levels.                                                  *)
(***************************************************************************)
Conflicts == Nat \cup {NoConflict}

LEMMA OutcomeConflict ==
  ASSUME NEW st \in State, NEW x \in Var, NEW y \in Var
  PROVE  Outcome(st, x, y).conflict \in Conflicts
BY DEF Outcome, Conflicts, State, Bound, ViolatingLevel

LEMMA UpdateConflict ==
  ASSUME NEW st \in State, NEW x \in Var, NEW v \in Int, NEW l \in Nat
  PROVE  /\ UpdateUpperBound(st, x, v, l).conflict \in Conflicts
         /\ UpdateLowerBound(st, x, v, l).conflict \in Conflicts
<1>1. ASSUME NEW s0 \in State, NEW S, NEW w \in Int
      PROVE  WithUpper(s0, S, w, l) \in State /\ WithLower(s0, S, w, l) \in State
  BY DEF WithUpper, WithLower, State, Bound
<1>2. ASSUME NEW s0 \in State, NEW f \in F
      PROVE  Dissolve(s0, f, "SPLIT") \in State
  BY DEF Dissolve, State, Phase
<1>3. ASSUME ActiveReluVariable(st, x)
      PROVE  /\ PairOf(x) \in F /\ Partner(x) \in Var
             /\ PairOf(x) \in Var /\ B[PairOf(x)] \in Var
  BY <1>3, ActivePair, PairFacts
<1>4. UpdateUpperBound(st, x, v, l).conflict \in Conflicts
  <2>1. CASE ~ActiveReluVariable(st, x) \/ (v < 0 /\ x \in F)
    BY <2>1, <1>1, OutcomeConflict DEF UpdateUpperBound
  <2>2. CASE ActiveReluVariable(st, x) /\ ~(v < 0 /\ x \in F) /\ v > 0
    BY <2>2, <1>1, <1>3, OutcomeConflict DEF UpdateUpperBound
  <2>3. CASE ActiveReluVariable(st, x) /\ ~(v < 0 /\ x \in F) /\ ~(v > 0)
    <3> DEFINE f == PairOf(x)
               both == WithUpper(WithUpper(st, {f}, 0, l), {B[f]}, v, l)
    <3>1. UpdateUpperBound(st, x, v, l) = Outcome(Dissolve(both, f, "SPLIT"), B[f], f)
      BY <2>3 DEF UpdateUpperBound
    <3>2. both \in State
      BY <1>1
    <3> HIDE DEF both
    <3>3. QED
      BY <2>3, <3>1, <3>2, <1>2, <1>3, OutcomeConflict
  <2>4. QED
    BY <2>1, <2>2, <2>3
<1>5. UpdateLowerBound(st, x, v, l).conflict \in Conflicts
  <2>1. CASE ~ActiveReluVariable(st, x) \/ v < 0
    BY <2>1, <1>1, OutcomeConflict DEF UpdateLowerBound
  <2>2. CASE ActiveReluVariable(st, x) /\ ~(v < 0)
    <3> DEFINE raised == Outcome(WithLower(st, {x, Partner(x)}, v, l), x, Partner(x))
    <3>1. raised.conflict \in Conflicts
      BY <2>2, <1>1, <1>3, OutcomeConflict
    <3>2. UpdateLowerBound(st, x, v, l).conflict \in {raised.conflict, NoConflict}
      BY <2>2 DEF UpdateLowerBound
    <3>3. QED
      BY <3>1, <3>2 DEF Conflicts
  <2>3. QED
    BY <2>1, <2>2
<1>6. QED
  BY <1>4, <1>5

-----------------------------------------------------------------------------
(***************************************************************************)
(* The solutions in S that follow the first l decisions of stk, and states *)
(* whose bounds are justified by k decisions.                              *)
(***************************************************************************)
FollowersOf(S, stk) ==
  [l \in Nat |-> {s \in S : \A i \in 1..l : Fits(s, stk[i].var, stk[i].type)}]

Good(S, stk, st, k) ==
  st \in State /\ JustifiedBy(FollowersOf(S, stk), st, k) /\ PairBounds(st)

GoodOutcome(S, stk, o, k) ==
  Good(S, stk, o.state, k) /\ o.conflict \in Conflicts

\* The members of S are solutions as far as the pairs are concerned.
InPairs(S) == S \subseteq Assignments /\ \A s \in S : \A f \in F : ReluHolds(s, f)

LEMMA FollowersRelus ==
  ASSUME NEW S, InPairs(S), NEW stk, NEW l \in Nat
  PROVE  Relus(FollowersOf(S, stk)[l])
<1>1. \A s \in S : s \in [Var -> Int]
  <2>1. Values \subseteq Int
    BY BoundsAssumption
  <2>2. \A s \in S : s \in [Var -> Values]
    BY DEF InPairs, Assignments
  <2>3. QED
    BY <2>1, <2>2
<1>2. FollowersOf(S, stk)[l] \subseteq S
  BY DEF FollowersOf
<1>3. QED
  BY <1>1, <1>2 DEF InPairs, Relus

(***************************************************************************)
(* Decisions above the k-th do not matter, and more decisions do no harm.  *)
(***************************************************************************)
LEMMA GoodPrefix ==
  ASSUME NEW S, NEW stk, NEW stk2, NEW k \in Nat, NEW m \in Nat, k <= m,
         \A i \in 1..k : stk2[i].var = stk[i].var /\ stk2[i].type = stk[i].type,
         NEW st, Good(S, stk, st, k)
  PROVE  Good(S, stk2, st, m)
<1>1. ASSUME NEW l \in 0..k
      PROVE  FollowersOf(S, stk2)[l] = FollowersOf(S, stk)[l]
  <2>1. l \in Nat /\ \A i \in 1..l : i \in 1..k
    OBVIOUS
  <2>2. QED
    BY <2>1 DEF FollowersOf
<1>2. ASSUME NEW x \in Var
      PROVE  /\ st.lower[x].level \in 0..k /\ st.upper[x].level \in 0..k
             /\ st.lower[x].level <= m /\ st.upper[x].level <= m
  BY DEF Good, JustifiedBy, State, Bound
<1>3. JustifiedBy(FollowersOf(S, stk2), st, m)
  BY <1>1, <1>2 DEF Good, JustifiedBy
<1>4. QED
  BY <1>3 DEF Good

(***************************************************************************)
(* A solution that follows l decisions obeys the bounds of levels up to l. *)
(***************************************************************************)
LEMMA FollowersObey ==
  ASSUME NEW S, NEW stk, NEW k \in Nat, NEW st, Good(S, stk, st, k),
         NEW l \in 0..k, NEW s \in FollowersOf(S, stk)[l]
  PROVE  s \in S /\ Obeys(s, st, l)
<1>1. l \in Nat /\ s \in S /\ \A i \in 1..l : Fits(s, stk[i].var, stk[i].type)
  BY DEF FollowersOf
<1>2. ASSUME NEW j \in Nat, j <= l
      PROVE  s \in FollowersOf(S, stk)[j]
  <2>1. \A i \in 1..j : i \in 1..l
    BY <1>2
  <2>2. QED
    BY <1>1, <2>1 DEF FollowersOf
<1>3. ASSUME NEW x \in Var
      PROVE  /\ st.lower[x].level \in Nat /\ st.upper[x].level \in Nat
             /\ s \in FollowersOf(S, stk)[st.lower[x].level] => st.lower[x].val <= s[x]
             /\ s \in FollowersOf(S, stk)[st.upper[x].level] => s[x] <= st.upper[x].val
  BY DEF Good, JustifiedBy, State, Bound
<1>4. QED
  BY <1>1, <1>2, <1>3 DEF Obeys

(***************************************************************************)
(* A bound learned from st0 is good for st, which may have changed since.  *)
(***************************************************************************)
LEMMA LowerLearned ==
  ASSUME NEW S, InPairs(S), NEW stk, NEW k \in Nat,
         NEW st0, Good(S, stk, st0, k), NEW st, Good(S, stk, st, k),
         NEW x \in Var, NEW v \in Int, NEW l \in 0..k,
         \A s \in S : Obeys(s, st0, l) => v <= s[x],
         v > st.lower[x].val
  PROVE  GoodOutcome(S, stk, UpdateLowerBound(st, x, v, l), k)
<1> DEFINE G == FollowersOf(S, stk)
<1>1. l \in Nat
  OBVIOUS
<1>2. st \in State /\ JustifiedBy(G, st, k) /\ PairBounds(st)
  BY DEF Good
<1>3. \A s \in G[l] : v <= s[x]
  BY FollowersObey
<1>4. x \in F => v > 0
  BY <1>2 DEF PairBounds, State, Bound
<1>5. Relus(G[l])
  BY <1>1, FollowersRelus
<1> HIDE DEF G
<1>6. /\ UpdateLowerBound(st, x, v, l).state \in State
      /\ JustifiedBy(G, UpdateLowerBound(st, x, v, l).state, k)
      /\ PairBounds(UpdateLowerBound(st, x, v, l).state)
  BY <1>2, <1>3, <1>4, <1>5, LowerUpdated
<1>7. QED
  BY <1>1, <1>2, <1>6, UpdateConflict DEF GoodOutcome, Good, G

LEMMA UpperLearned ==
  ASSUME NEW S, InPairs(S), NEW stk, NEW k \in Nat,
         NEW st0, Good(S, stk, st0, k), NEW st, Good(S, stk, st, k),
         NEW x \in Var, NEW v \in Int, NEW l \in 0..k,
         \A s \in S : Obeys(s, st0, l) => s[x] <= v,
         v < st.upper[x].val
  PROVE  GoodOutcome(S, stk, UpdateUpperBound(st, x, v, l), k)
<1> DEFINE G == FollowersOf(S, stk)
<1>1. l \in Nat
  OBVIOUS
<1>2. st \in State /\ JustifiedBy(G, st, k) /\ PairBounds(st)
  BY DEF Good
<1>3. \A s \in G[l] : s[x] <= v
  BY FollowersObey
<1>4. x \in F /\ st.dissolved[x] = "SPLIT" => v <= 0
  BY <1>2 DEF PairBounds, State, Bound
<1>5. Relus(G[l])
  BY <1>1, FollowersRelus
<1> HIDE DEF G
<1>6. /\ UpdateUpperBound(st, x, v, l).state \in State
      /\ JustifiedBy(G, UpdateUpperBound(st, x, v, l).state, k)
      /\ PairBounds(UpdateUpperBound(st, x, v, l).state)
  BY <1>2, <1>3, <1>4, <1>5, UpperUpdated
<1>7. QED
  BY <1>1, <1>2, <1>6, UpdateConflict DEF GoodOutcome, Good, G

(***************************************************************************)
(* A decision on f, whatever the phase, from a state that was good for the *)
(* decisions below it.                                                     *)
(***************************************************************************)
LEMMA DecisionGood ==
  ASSUME NEW S, InPairs(S), NEW stk, NEW n \in Nat, n > 0,
         NEW st, Good(S, stk, st, n), NEW f \in F, NEW p \in Phase,
         stk[n].var = f, stk[n].type = p
  PROVE  GoodOutcome(S, stk, Decided(st, f, p, n), n)
<1> DEFINE G == FollowersOf(S, stk)
<1>1. n \in 1..n /\ n \in 0..n
  OBVIOUS
<1>2. st \in State /\ JustifiedBy(G, st, n) /\ PairBounds(st)
  BY DEF Good
<1>3. \A s \in G[n] : Fits(s, f, p)
  BY <1>1 DEF FollowersOf
<1>4. Relus(G[n])
  BY FollowersRelus
<1>5. Decided(st, f, p, n).conflict \in Conflicts
  BY <1>2, PairFacts, UpdateConflict DEF Decided
<1> HIDE DEF G
<1>6. /\ Decided(st, f, p, n).state \in State
      /\ JustifiedBy(G, Decided(st, f, p, n).state, n)
      /\ PairBounds(Decided(st, f, p, n).state)
  BY <1>1, <1>2, <1>3, <1>4, DecisionUpdated
<1>7. QED
  BY <1>5, <1>6 DEF GoodOutcome, Good, G

(***************************************************************************)
(* The bounds before the main loop depend on no decision.                  *)
(***************************************************************************)
LEMMA PreprocessedGood ==
  ASSUME NEW S, NEW stk, NEW k \in Nat, NEW st \in Preprocessed,
         \A s \in S : IsSolution(s, st)
  PROVE  /\ Good(S, stk, st, k)
         /\ \A f \in F : st.upper[f].val >= 0
<1>1. st \in State
  BY BoundsAssumption
<1>2. ASSUME NEW x \in Var
      PROVE  /\ st.lower[x].level = 0 /\ st.upper[x].level = 0
             /\ st.lower[x].val <= st.upper[x].val
             /\ st.lower[x].val \in Int /\ st.upper[x].val \in Int
  BY <1>1, BoundsAssumption DEF State, Bound
<1>3. FollowersOf(S, stk)[0] \subseteq S
  BY DEF FollowersOf
<1>4. JustifiedBy(FollowersOf(S, stk), st, k)
  BY <1>2, <1>3 DEF JustifiedBy, IsSolution
<1>5. PairBounds(st)
  BY BoundsAssumption DEF PairBounds
<1>6. QED
  BY <1>1, <1>2, <1>4, <1>5, PairFacts DEF Good, PairBounds

-----------------------------------------------------------------------------
(***************************************************************************)
(* Asserting the bounds again.  While no conflict has been met, no upper   *)
(* bound of an f is negative; so the bound that a split f is given back    *)
(* may keep the level it had.                                              *)
(***************************************************************************)
GoodSoFar(o) ==
  /\ GoodOutcome(solutions, stack, o, Len(stack))
  /\ o.conflict = NoConflict => \A f \in F : o.state.upper[f].val >= 0

LEMMA UppersKept ==
  ASSUME NEW st \in State, NEW x \in Var, NEW v \in Int, NEW l \in Nat,
         PairBounds(st), \A f \in F : st.upper[f].val >= 0
  PROVE  /\ UpdateUpperBound(st, x, v, l).conflict = NoConflict
              => \A f \in F : UpdateUpperBound(st, x, v, l).state.upper[f].val >= 0
         /\ \A f \in F : UpdateLowerBound(st, x, v, l).state.upper[f].val >= 0
<1>2. \A f \in F : UpdateLowerBound(st, x, v, l).state.upper[f].val >= 0
  <2>1. UpdateLowerBound(st, x, v, l).state.upper = st.upper
    BY DEF UpdateLowerBound, Outcome, WithLower, Dissolve
  <2>2. QED
    BY <2>1
<1>3. CASE ~ActiveReluVariable(st, x) \/ (v < 0 /\ x \in F)
  <2> DEFINE new == WithUpper(st, {x}, v, l)
  <2>1. UpdateUpperBound(st, x, v, l) = Outcome(new, x, x)
    BY <1>3 DEF UpdateUpperBound
  <2>2. /\ new.lower = st.lower
        /\ new.upper[x].val = v /\ new.upper[x].level = l
        /\ \A f \in Var : f # x => new.upper[f] = st.upper[f]
    BY DEF WithUpper
  <2> HIDE DEF new
  <2>3. Outcome(new, x, x).conflict = NoConflict => st.lower[x].val <= v
    <3>1. st.lower[x].level \in Nat /\ new.upper[x].level \in Nat
      BY <2>2 DEF State, Bound
    <3>2. ViolatingLevel(new, x) # NoConflict
      BY <2>2, <3>1 DEF ViolatingLevel, NoConflict
    <3>3. QED
      BY <2>2, <3>2 DEF Outcome, BoundInvariantHolds
  <2>4. x \in F /\ st.lower[x].val <= v => v >= 0
    BY DEF PairBounds, State, Bound
  <2>5. QED
    BY <1>2, <2>1, <2>2, <2>3, <2>4, OutcomeState, PairFacts
<1>4. CASE ActiveReluVariable(st, x) /\ ~(v < 0 /\ x \in F) /\ v > 0
  <2>1. UpdateUpperBound(st, x, v, l).state = WithUpper(st, {x, Partner(x)}, v, l)
    BY <1>4, OutcomeState DEF UpdateUpperBound
  <2>2. \A f \in F : f \in Var
    BY PairFacts
  <2>3. \A f \in F : WithUpper(st, {x, Partner(x)}, v, l).upper[f].val >= 0
    BY <1>4, <2>2 DEF WithUpper
  <2>4. QED
    BY <1>2, <2>1, <2>3
<1>5. CASE ActiveReluVariable(st, x) /\ ~(v < 0 /\ x \in F) /\ ~(v > 0)
  <2> DEFINE f == PairOf(x)
             zero == WithUpper(st, {f}, 0, l)
             both == WithUpper(zero, {B[f]}, v, l)
  <2>1. UpdateUpperBound(st, x, v, l).state.upper = both.upper
    <3>1. UpdateUpperBound(st, x, v, l).state = Dissolve(both, f, "SPLIT")
      BY <1>5, OutcomeState DEF UpdateUpperBound
    <3>2. QED
      BY <3>1 DEF Dissolve
  <2>2. f \in F
    BY <1>5, ActivePair
  <2>3. ASSUME NEW g \in F
        PROVE  both.upper[g] = zero.upper[g] /\ zero.upper[g].val >= 0
    <3>1. g \in Var /\ g # B[f]
      BY <2>2, PairFacts
    <3>2. both.upper[g] = zero.upper[g]
      BY <3>1 DEF WithUpper
    <3>3. zero.upper[g].val >= 0
      BY <3>1 DEF WithUpper
    <3>4. QED
      BY <3>2, <3>3
  <2> HIDE DEF zero, both
  <2>4. QED
    BY <1>2, <2>1, <2>3
<1>6. QED
  BY <1>3, <1>4, <1>5

-----------------------------------------------------------------------------
(***************************************************************************)
(* The inductive invariant.  Besides the bounds in force it covers those   *)
(* that a step may bring back: the saved ones, each relative to the        *)
(* decisions below it, and the ones kept while the LP solver runs or while *)
(* the bounds are asserted again.                                          *)
(***************************************************************************)
BoundsInv ==
  /\ TypeOK
  /\ preprocessed \in Preprocessed
  /\ \A s \in solutions : IsSolution(s, preprocessed)
  /\ Good(solutions, stack, current, Len(stack))
  /\ Good(solutions, stack, backup, Len(stack))
  /\ \A i \in 1..Len(stack) : Good(solutions, stack, stack[i].saved, i - 1)
  /\ pc = "restoring" => \A f \in F : current.upper[f].val >= 0

LEMMA InvFacts ==
  ASSUME BoundsInv
  PROVE  /\ Len(stack) \in Nat
         /\ InPairs(solutions)
         /\ current \in State /\ backup \in State
BY DEF BoundsInv, TypeOK, InPairs, IsSolution

LEMMA ThenLowerGood ==
  ASSUME BoundsInv, NEW o, GoodSoFar(o), NEW x \in Var
  PROVE  GoodSoFar(ThenLower(o, x))
<1> DEFINE v == backup.lower[x].val
           l == backup.lower[x].level
<1>1. CASE o.conflict # NoConflict \/ v <= o.state.lower[x].val
  BY <1>1 DEF ThenLower
<1>2. CASE o.conflict = NoConflict /\ ~(v <= o.state.lower[x].val)
  <2>1. ThenLower(o, x) = UpdateLowerBound(o.state, x, v, l)
    BY <1>2 DEF ThenLower
  <2>2. /\ o.state \in State /\ PairBounds(o.state)
        /\ Good(solutions, stack, o.state, Len(stack))
        /\ \A f \in F : o.state.upper[f].val >= 0
    BY <1>2 DEF GoodSoFar, GoodOutcome, Good
  <2>3. v \in Int /\ l \in Nat /\ l \in 0..Len(stack) /\ v > o.state.lower[x].val
    BY <1>2, <2>2, InvFacts DEF BoundsInv, Good, JustifiedBy, State, Bound
  <2>4. \A s \in solutions : Obeys(s, backup, l) => v <= s[x]
    <3>1. backup.lower[x].level <= l
      BY <2>3
    <3>2. QED
      BY <3>1 DEF Obeys
  <2> HIDE DEF v, l
  <2>5. GoodOutcome(solutions, stack, UpdateLowerBound(o.state, x, v, l), Len(stack))
    BY <2>2, <2>3, <2>4, InvFacts, LowerLearned DEF BoundsInv
  <2>6. \A f \in F : UpdateLowerBound(o.state, x, v, l).state.upper[f].val >= 0
    BY <2>2, <2>3, UppersKept
  <2>7. QED
    BY <2>1, <2>5, <2>6 DEF GoodSoFar
<1>3. QED
  BY <1>1, <1>2

LEMMA ThenUpperGood ==
  ASSUME BoundsInv, NEW o, GoodSoFar(o), NEW x \in Var
  PROVE  GoodSoFar(ThenUpper(o, x))
<1> DEFINE v == backup.upper[x].val
           l == backup.upper[x].level
<1>1. CASE o.conflict # NoConflict \/ v >= o.state.upper[x].val
  BY <1>1 DEF ThenUpper
<1>2. CASE o.conflict = NoConflict /\ ~(v >= o.state.upper[x].val)
  <2>1. ThenUpper(o, x) = UpdateUpperBound(o.state, x, v, l)
    BY <1>2 DEF ThenUpper
  <2>2. /\ o.state \in State /\ PairBounds(o.state)
        /\ Good(solutions, stack, o.state, Len(stack))
        /\ \A f \in F : o.state.upper[f].val >= 0
    BY <1>2 DEF GoodSoFar, GoodOutcome, Good
  <2>3. v \in Int /\ l \in Nat /\ l \in 0..Len(stack) /\ v < o.state.upper[x].val
    BY <1>2, <2>2, InvFacts DEF BoundsInv, Good, JustifiedBy, State, Bound
  <2>4. \A s \in solutions : Obeys(s, backup, l) => s[x] <= v
    <3>1. backup.upper[x].level <= l
      BY <2>3
    <3>2. QED
      BY <3>1 DEF Obeys
  <2> HIDE DEF v, l
  <2>5. GoodOutcome(solutions, stack, UpdateUpperBound(o.state, x, v, l), Len(stack))
    BY <2>2, <2>3, <2>4, InvFacts, UpperLearned DEF BoundsInv
  <2>6. UpdateUpperBound(o.state, x, v, l).conflict = NoConflict
          => \A f \in F : UpdateUpperBound(o.state, x, v, l).state.upper[f].val >= 0
    BY <2>2, <2>3, UppersKept
  <2>7. QED
    BY <2>1, <2>5, <2>6 DEF GoodSoFar
<1>3. QED
  BY <1>1, <1>2

(***************************************************************************)
(* The level that a split f had is right for whatever bound it has now:    *)
(* the bound is not negative, and f was at most zero.                      *)
(***************************************************************************)
LEMMA ThenUpperLevelGood ==
  ASSUME BoundsInv, NEW o, GoodSoFar(o), NEW f \in F,
         backup.dissolved[f] = "SPLIT"
  PROVE  GoodSoFar(ThenUpperLevel(o, f))
<1>1. CASE o.conflict # NoConflict
  BY <1>1 DEF ThenUpperLevel
<1>2. CASE o.conflict = NoConflict
  <2> DEFINE G == FollowersOf(solutions, stack)
             v == o.state.upper[f].val
             l == backup.upper[f].level
             new == WithUpper(o.state, {f}, v, l)
  <2>1. /\ o.state \in State /\ JustifiedBy(G, o.state, Len(stack))
        /\ PairBounds(o.state)
        /\ \A g \in F : o.state.upper[g].val >= 0
    BY <1>2 DEF GoodSoFar, GoodOutcome, Good
  <2>2. f \in Var
    BY PairFacts
  <2>3. /\ backup.upper[f].val \in Int /\ l \in Nat /\ l \in 0..Len(stack)
        /\ backup.upper[f].val <= 0
        /\ \A s \in G[l] : s[f] <= backup.upper[f].val
    BY <2>2, InvFacts DEF BoundsInv, Good, JustifiedBy, State, Bound, PairBounds
  <2>4. v \in Int /\ v >= 0 /\ (o.state.dissolved[f] = "SPLIT" => v <= 0)
    BY <2>1, <2>2 DEF State, Bound, PairBounds
  <2>5. \A s \in G[l] : \A y \in {f} : s[y] <= v
    <3>1. Relus(G[l])
      BY <2>3, InvFacts, FollowersRelus
    <3>2. \A s \in G[l] : s[f] \in Int
      BY <3>1, <2>2 DEF Relus
    <3>3. QED
      BY <2>3, <2>4, <3>2
  <2>6. ThenUpperLevel(o, f) = [state |-> new, conflict |-> NoConflict]
    BY <1>2 DEF ThenUpperLevel
  <2>7. Len(stack) \in Nat
    BY InvFacts
  <2>8. \A g \in F : new.upper[g].val >= 0
    <3>1. \A g \in F : g \in Var
      BY PairFacts
    <3>2. QED
      BY <2>1, <2>4, <3>1 DEF WithUpper
  <2> HIDE DEF v, l, G
  <2>9. new \in State /\ JustifiedBy(G, new, Len(stack)) /\ PairBounds(new)
    BY <2>1, <2>3, <2>4, <2>5, <2>7, LoweredUpper
  <2> HIDE DEF new
  <2>10. QED
    BY <2>6, <2>8, <2>9 DEF GoodSoFar, GoodOutcome, Good, Conflicts, NoConflict, G
<1>3. QED
  BY <1>1, <1>2

LEMMA ReassertedGood ==
  ASSUME BoundsInv, pc = "restoring", NEW x \in Var
  PROVE  GoodSoFar(Reasserted(x))
<1> DEFINE o == [state |-> current, conflict |-> NoConflict]
<1>1. GoodSoFar(o)
  BY DEF BoundsInv, GoodSoFar, GoodOutcome, Conflicts, NoConflict
<1>2. x \in F => B[x] \in Var
  BY PairFacts
<1>3. GoodSoFar(ThenUpper(ThenLower(o, x), x))
  BY <1>1, ThenLowerGood, ThenUpperGood
<1>4. x \in F => GoodSoFar(ThenLower(ThenUpper(o, x), B[x]))
  BY <1>1, <1>2, ThenLowerGood, ThenUpperGood
<1>5. x \in F /\ backup.dissolved[x] = "SPLIT"
        => GoodSoFar(ThenLower(ThenUpperLevel(ThenUpper(o, B[x]), x), B[x]))
  BY <1>1, <1>2, ThenLowerGood, ThenUpperGood, ThenUpperLevelGood
<1>6. x \in F => GoodSoFar(ThenUpper(ThenLower(ThenLower(o, B[x]), x), x))
  BY <1>1, <1>2, ThenLowerGood, ThenUpperGood
<1>7. QED
  BY <1>1, <1>3, <1>4, <1>5, <1>6 DEF Reasserted, o

-----------------------------------------------------------------------------
(***************************************************************************)
(* The invariant holds initially and is preserved by every step.  A step   *)
(* that leaves stack and solutions alone has only to show that the new     *)
(* bounds are good.                                                        *)
(***************************************************************************)
LEMMA InitInv == Init => BoundsInv
<1> SUFFICES ASSUME Init
             PROVE  BoundsInv
  OBVIOUS
<1>1. /\ preprocessed \in Preprocessed /\ current = preprocessed
      /\ backup = preprocessed /\ stack = <<>> /\ pc = "loop"
      /\ \A s \in solutions : IsSolution(s, preprocessed)
  BY DEF Init
<1>2. solutions \subseteq Assignments /\ preprocessed \in State
  BY BoundsAssumption DEF Init
<1>3. stack \in Seq(Entry) /\ Len(stack) = 0 /\ 0 \in Nat
  BY <1>1, EmptySeq
<1>4. TypeOK
  BY <1>1, <1>2, <1>3 DEF Init, TypeOK
<1>5. Good(solutions, stack, preprocessed, 0)
  BY <1>1, PreprocessedGood
<1>6. QED
  BY <1>1, <1>3, <1>4, <1>5 DEF BoundsInv

LEMMA StartPopFacts ==
  ASSUME NEW v \in Nat, StartPop(v), violatingLevel \in Nat, Len(stack') \in Nat,
         status \in {"NONE", "SAT", "UNSAT"}
  PROVE  /\ pc' \in {"popping", "done"}
         /\ violatingLevel' \in Nat
         /\ status' \in {"NONE", "SAT", "UNSAT"}
BY DEF StartPop, Stop

(***************************************************************************)
(* An update that is applied, wherever the code goes on.                   *)
(***************************************************************************)
LEMMA ApplyInv ==
  ASSUME BoundsInv, NEW o, NEW next \in {"loop", "learning", "restoring"},
         Apply(o, next), GoodOutcome(solutions, stack, o, Len(stack)),
         next = "restoring" /\ o.conflict = NoConflict
           => \A f \in F : o.state.upper[f].val >= 0,
         index' \in Nat,
         UNCHANGED <<solutions, preprocessed, stack, currentStackDepth>>
  PROVE  BoundsInv'
<1>1. /\ current' = o.state
      /\ backup' \in {current', backup}
      /\ pc' \in {next, "popping", "done"}
      /\ pc' = "restoring" => next = "restoring" /\ o.conflict = NoConflict
      /\ violatingLevel' \in Nat
      /\ status' \in {"NONE", "SAT", "UNSAT"}
  <2>1. CASE o.conflict = NoConflict
    BY <2>1 DEF Apply, BoundsInv, TypeOK
  <2>2. CASE o.conflict # NoConflict
    <3>1. o.conflict \in Nat /\ StartPop(o.conflict) /\ backup' = current'
      BY <2>2 DEF Apply, GoodOutcome, Conflicts
    <3>2. QED
      BY <2>2, <3>1, InvFacts, StartPopFacts DEF Apply, BoundsInv, TypeOK
  <2>3. QED
    BY <2>1, <2>2
<1>2. /\ Good(solutions, stack, current', Len(stack))
      /\ Good(solutions, stack, backup', Len(stack))
      /\ current' \in State /\ backup' \in State
  BY <1>1 DEF GoodOutcome, Good, BoundsInv
<1>3. TypeOK'
  BY <1>1, <1>2 DEF TypeOK, BoundsInv
<1>4. QED
  BY <1>1, <1>2, <1>3 DEF BoundsInv

LEMMA TightenInv ==
  ASSUME BoundsInv, Tighten
  PROVE  BoundsInv'
<1>1. PICK x \in Var, v \in Values, l \in Levels :
        \/ TightenLower(x, v, l)
        \/ TightenUpper(x, v, l)
        \/ ApplyStoredLower(x, v, l)
        \/ ApplyStoredUpper(x, v, l)
  BY DEF Tighten
<1>2. /\ v \in Int /\ l \in 0..Len(stack) /\ x \in Nat /\ NumVariables \in Nat
      /\ InPairs(solutions) /\ Len(stack) \in Nat /\ index \in Nat
      /\ Good(solutions, stack, current, Len(stack))
      /\ Good(solutions, stack, backup, Len(stack))
  BY BoundsAssumption, InvFacts DEF Levels, Var, BoundsInv, TypeOK
<1>3. CASE TightenLower(x, v, l)
  <2>1. GoodOutcome(solutions, stack, UpdateLowerBound(current, x, v, l), Len(stack))
    BY <1>2, <1>3, LowerLearned DEF TightenLower, LowerFollows
  <2>2. QED
    BY <1>2, <1>3, <2>1, ApplyInv DEF TightenLower
<1>4. CASE TightenUpper(x, v, l)
  <2>1. GoodOutcome(solutions, stack, UpdateUpperBound(current, x, v, l), Len(stack))
    BY <1>2, <1>4, UpperLearned DEF TightenUpper, UpperFollows
  <2>2. QED
    BY <1>2, <1>4, <2>1, ApplyInv DEF TightenUpper
<1>5. CASE ApplyStoredLower(x, v, l)
  <2>1. GoodOutcome(solutions, stack, UpdateLowerBound(current, x, v, l), Len(stack))
    BY <1>2, <1>5, LowerLearned DEF ApplyStoredLower, LowerFollows
  <2>2. index' \in Nat
    BY <1>2, <1>5 DEF ApplyStoredLower
  <2>3. QED
    BY <1>5, <2>1, <2>2, ApplyInv DEF ApplyStoredLower
<1>6. CASE ApplyStoredUpper(x, v, l)
  <2>1. GoodOutcome(solutions, stack, UpdateUpperBound(current, x, v, l), Len(stack))
    BY <1>2, <1>6, UpperLearned DEF ApplyStoredUpper, UpperFollows
  <2>2. index' \in Nat
    BY <1>2, <1>6 DEF ApplyStoredUpper
  <2>3. QED
    BY <1>6, <2>1, <2>2, ApplyInv DEF ApplyStoredUpper
<1>7. QED
  BY <1>1, <1>3, <1>4, <1>5, <1>6

LEMMA RestoreInv ==
  ASSUME BoundsInv, RestoreStart \/ RestoreVariable \/ RestoreDone
  PROVE  BoundsInv'
<1>1. CASE RestoreStart
  <2>1. /\ Good(solutions, stack, preprocessed, Len(stack))
        /\ \A f \in F : preprocessed.upper[f].val >= 0
    BY InvFacts, PreprocessedGood DEF BoundsInv
  <2>2. TypeOK'
    BY <1>1 DEF RestoreStart, BoundsInv, TypeOK
  <2>3. QED
    BY <1>1, <2>1, <2>2 DEF RestoreStart, BoundsInv
<1>2. CASE RestoreVariable
  <2>1. index \in Var /\ index + 1 \in Nat
    <3>1. NumVariables \in Nat /\ index \in Nat /\ index < NumVariables
      BY <1>2, BoundsAssumption DEF RestoreVariable, BoundsInv, TypeOK
    <3>2. QED
      BY <3>1 DEF Var
  <2>2. GoodSoFar(Reasserted(index))
    BY <1>2, <2>1, ReassertedGood DEF RestoreVariable
  <2>3. QED
    BY <1>2, <2>1, <2>2, ApplyInv DEF RestoreVariable, GoodSoFar
<1>3. CASE RestoreDone
  <2>1. TypeOK'
    BY <1>3 DEF RestoreDone, BoundsInv, TypeOK
  <2>2. QED
    BY <1>3, <2>1 DEF RestoreDone, BoundsInv
<1>4. QED
  BY <1>1, <1>2, <1>3

(***************************************************************************)
(* Decisions and pops change the stack: what was good for the decisions    *)
(* that stay is still good.                                                *)
(***************************************************************************)
LEMMA DissolveInv ==
  ASSUME BoundsInv, NEW f \in F, NEW p \in Phase, DissolveReluOnVar(f, p)
  PROVE  BoundsInv'
<1> DEFINE e == [var |-> f, type |-> p, first |-> TRUE, saved |-> current]
<1>1. PICK n \in Nat : n = Len(stack)
  BY InvFacts
<1>2. PICK o : o = Decided(current, f, p, n + 1)
  OBVIOUS
<1>3. /\ stack' = Append(stack, e) /\ Apply(o, "loop")
      /\ currentStackDepth' \in {Len(stack'), currentStackDepth}
      /\ UNCHANGED <<solutions, preprocessed, index>>
  BY <1>1, <1>2 DEF DissolveReluOnVar
<1>4. e \in Entry /\ stack \in Seq(Entry)
  BY InvFacts DEF Entry, BoundsInv, TypeOK
<1>5. /\ stack' \in Seq(Entry) /\ Len(stack') = n + 1
      /\ stack'[n + 1] = e /\ \A i \in 1..n : stack'[i] = stack[i]
  BY <1>1, <1>3, <1>4
<1>6. ASSUME NEW m \in Nat, n <= m, NEW k \in 0..n,
             NEW st, Good(solutions, stack, st, k)
      PROVE  Good(solutions, stack', st, m)
  <2>1. \A i \in 1..k : stack'[i].var = stack[i].var /\ stack'[i].type = stack[i].type
    BY <1>5
  <2>2. k \in Nat /\ k <= m
    BY <1>6
  <2>3. QED
    BY <1>6, <2>1, <2>2, GoodPrefix
<1>7. ASSUME NEW k \in 0..n, NEW st, Good(solutions, stack, st, k)
      PROVE  Good(solutions, stack', st, k)
  <2>1. \A i \in 1..k : stack'[i].var = stack[i].var /\ stack'[i].type = stack[i].type
    BY <1>5
  <2>2. QED
    BY <1>7, <2>1, GoodPrefix
<1>8. GoodOutcome(solutions, stack', o, n + 1)
  <2>1. Good(solutions, stack', current, n + 1)
    BY <1>1, <1>6 DEF BoundsInv
  <2>2. n + 1 \in Nat /\ n + 1 > 0
    OBVIOUS
  <2>3. stack'[n + 1].var = f /\ stack'[n + 1].type = p
    BY <1>5
  <2>4. QED
    BY <1>2, <2>1, <2>2, <2>3, DecisionGood, InvFacts
<1>9. /\ current' = o.state /\ backup' = current'
      /\ pc' \in {"loop", "popping", "done"}
      /\ violatingLevel' \in Nat /\ status' \in {"NONE", "SAT", "UNSAT"}
  <2>1. CASE o.conflict = NoConflict
    BY <1>3, <2>1 DEF Apply, BoundsInv, TypeOK
  <2>2. CASE o.conflict # NoConflict
    <3>1. o.conflict \in Nat /\ StartPop(o.conflict) /\ backup' = current'
      BY <1>3, <1>8, <2>2 DEF Apply, GoodOutcome, Conflicts
    <3>2. QED
      BY <1>3, <1>5, <3>1, StartPopFacts DEF Apply, BoundsInv, TypeOK
  <2>3. QED
    BY <2>1, <2>2
<1>10. Good(solutions, stack', current', n + 1) /\ current' \in State
  BY <1>8, <1>9 DEF GoodOutcome, Good
<1>11. ASSUME NEW i \in 1..n + 1
       PROVE  Good(solutions, stack', stack'[i].saved, i - 1)
  <2>1. CASE i = n + 1
    <3>1. stack'[i].saved = current /\ i - 1 = n
      BY <1>5, <2>1
    <3>2. n \in 0..n /\ Good(solutions, stack, current, n)
      BY <1>1 DEF BoundsInv
    <3>3. QED
      BY <1>7, <3>1, <3>2
  <2>2. CASE i # n + 1
    <3>1. i \in 1..n /\ i - 1 \in 0..n
      BY <2>2
    <3>2. Good(solutions, stack, stack[i].saved, i - 1)
      BY <1>1, <3>1 DEF BoundsInv
    <3>3. QED
      BY <1>5, <1>7, <3>1, <3>2
  <2>3. QED
    BY <2>1, <2>2
<1> HIDE DEF e
<1>12. TypeOK'
  BY <1>3, <1>5, <1>9, <1>10 DEF TypeOK, BoundsInv
<1>13. QED
  BY <1>3, <1>5, <1>9, <1>10, <1>11, <1>12 DEF BoundsInv

LEMMA PopInv ==
  ASSUME BoundsInv, PopFlip \/ PopDiscard
  PROVE  BoundsInv'
<1>1. PICK n \in Nat : n = Len(stack)
  BY InvFacts
<1>2. stack \in Seq(Entry) /\ stack # <<>>
  BY DEF PopFlip, PopDiscard, BoundsInv, TypeOK
<1>3. /\ n > 0 /\ n \in 1..n /\ n - 1 \in Nat
      /\ Top = stack[n] /\ stack[n] \in Entry
  BY <1>1, <1>2, EmptySeq, ElementOfSeq DEF Top
<1>4. ASSUME \A i \in 1..n - 1 : stack'[i] = stack[i],
             NEW k \in 0..n - 1, NEW m \in Nat, k <= m,
             NEW st, Good(solutions, stack, st, k)
      PROVE  Good(solutions, stack', st, m)
  <2>1. \A i \in 1..k : stack'[i].var = stack[i].var /\ stack'[i].type = stack[i].type
    BY <1>3, <1>4
  <2>2. k \in Nat
    BY <1>3
  <2>3. QED
    BY <1>4, <2>1, <2>2, GoodPrefix
<1>5. Good(solutions, stack, stack[n].saved, n - 1)
  BY <1>1, <1>3 DEF BoundsInv
<1>6. CASE PopFlip
  <2> DEFINE e == [var |-> Top.var, type |-> Opposite(Top.type), first |-> FALSE,
                   saved |-> Top.saved]
  <2>1. PICK o : o = Decided(Top.saved, Top.var, Opposite(Top.type), n)
    OBVIOUS
  <2>2. /\ stack' = [stack EXCEPT ![n] = e]
        /\ current' = o.state /\ backup' = o.state
        /\ pc' \in {"popping", "loop", "done"}
        /\ status' \in {"UNSAT", status}
        /\ index' = 0
        /\ UNCHANGED <<solutions, preprocessed, currentStackDepth, violatingLevel>>
    BY <1>1, <1>6, <2>1 DEF PopFlip, Stop
  <2>3. e \in Entry /\ Top.var \in F /\ Opposite(Top.type) \in Phase
    BY <1>3 DEF Entry, Opposite, Phase
  <2>4. /\ stack' \in Seq(Entry) /\ Len(stack') = n /\ stack'[n] = e
        /\ \A i \in 1..n - 1 : stack'[i] = stack[i]
    <3> HIDE DEF e
    <3>1. stack \in [1..n -> Entry]
      BY <1>1, <1>2
    <3>2. stack' \in [1..n -> Entry]
      BY <2>2, <2>3, <3>1
    <3>3. QED
      BY <1>3, <2>2, <3>1, <3>2
  <2>5. GoodOutcome(solutions, stack', o, n)
    <3>1. Good(solutions, stack', Top.saved, n)
      <4>1. n - 1 \in 0..n - 1 /\ n - 1 <= n
        BY <1>3
      <4>2. QED
        BY <1>3, <1>4, <1>5, <2>4, <4>1
    <3>2. stack'[n].var = Top.var /\ stack'[n].type = Opposite(Top.type)
      BY <2>4
    <3>3. QED
      BY <1>3, <2>1, <2>3, <3>1, <3>2, DecisionGood, InvFacts
  <2>6. Good(solutions, stack', current', n) /\ current' \in State
    BY <2>2, <2>5 DEF GoodOutcome, Good
  <2>7. ASSUME NEW i \in 1..n
        PROVE  Good(solutions, stack', stack'[i].saved, i - 1)
    <3>1. stack'[i].saved = stack[i].saved
      BY <1>3, <2>4
    <3>2. i - 1 \in 0..n - 1 /\ i - 1 \in Nat /\ i - 1 <= i - 1
      OBVIOUS
    <3>3. Good(solutions, stack, stack[i].saved, i - 1)
      BY <1>1 DEF BoundsInv
    <3>4. QED
      BY <1>4, <2>4, <3>1, <3>2, <3>3
  <2> HIDE DEF e
  <2>8. TypeOK'
    BY <2>2, <2>4, <2>6 DEF TypeOK, BoundsInv
  <2>9. pc' # "restoring"
    BY <2>2
  <2>10. QED
    BY <2>2, <2>4, <2>6, <2>7, <2>8, <2>9 DEF BoundsInv
<1>7. CASE PopDiscard
  <2>1. /\ stack' = SubSeq(stack, 1, n - 1)
        /\ current' = Top.saved /\ backup' = Top.saved
        /\ currentStackDepth' = n - 1 /\ index' = 0 /\ pc = "popping"
        /\ UNCHANGED <<solutions, preprocessed, pc, violatingLevel, status>>
    BY <1>1, <1>7 DEF PopDiscard
  <2>2. /\ stack' \in Seq(Entry) /\ Len(stack') = n - 1
        /\ \A i \in 1..n - 1 : stack'[i] = stack[i]
    BY <1>1, <1>2, <1>3, <2>1, SubSeqProperties
  <2>3. Good(solutions, stack', Top.saved, n - 1) /\ Top.saved \in State
    <3>1. n - 1 \in 0..n - 1
      BY <1>3
    <3>2. QED
      BY <1>3, <1>4, <1>5, <2>2, <3>1 DEF Good
  <2>4. ASSUME NEW i \in 1..n - 1
        PROVE  Good(solutions, stack', stack'[i].saved, i - 1)
    <3>1. i \in 1..n /\ i - 1 \in 0..n - 1 /\ i - 1 \in Nat /\ i - 1 <= i - 1
      BY <1>3
    <3>2. Good(solutions, stack, stack[i].saved, i - 1)
      BY <1>1, <3>1 DEF BoundsInv
    <3>3. QED
      BY <1>4, <2>2, <3>1, <3>2
  <2>5. TypeOK'
    BY <1>3, <2>1, <2>2, <2>3 DEF TypeOK, BoundsInv
  <2>6. QED
    BY <1>3, <2>1, <2>2, <2>3, <2>4, <2>5 DEF BoundsInv
<1>8. QED
  BY <1>6, <1>7

LEMMA NextInv == BoundsInv /\ [Next]_vars => BoundsInv'
<1> SUFFICES ASSUME BoundsInv, [Next]_vars
             PROVE  BoundsInv'
  OBVIOUS
<1>1. CASE SolveLp \/ DoneLearning
  <2>1. TypeOK'
    BY <1>1 DEF SolveLp, DoneLearning, BoundsInv, TypeOK
  <2>2. QED
    BY <1>1, <2>1 DEF SolveLp, DoneLearning, BoundsInv
<1>2. CASE NoSolutionExists
  <2>1. /\ pc' \in {"popping", "done"} /\ violatingLevel' \in Nat
        /\ status' \in {"NONE", "SAT", "UNSAT"}
    BY <1>2, InvFacts, StartPopFacts DEF NoSolutionExists, BoundsInv, TypeOK
  <2>2. TypeOK'
    BY <1>2, <2>1 DEF NoSolutionExists, BoundsInv, TypeOK
  <2>3. QED
    BY <1>2, <2>1, <2>2 DEF NoSolutionExists, BoundsInv
<1>3. CASE FoundSolution \/ PopEmpty
  <2>1. TypeOK'
    BY <1>3 DEF FoundSolution, PopEmpty, Stop, BoundsInv, TypeOK
  <2>2. QED
    BY <1>3, <2>1 DEF FoundSolution, PopEmpty, Stop, BoundsInv
<1>4. CASE Terminated \/ UNCHANGED vars
  <2>1. TypeOK'
    BY <1>4 DEF Terminated, vars, BoundsInv, TypeOK
  <2>2. QED
    BY <1>4, <2>1 DEF Terminated, vars, BoundsInv
<1>5. CASE Tighten
  BY <1>5, TightenInv
<1>6. CASE RestoreStart \/ RestoreVariable \/ RestoreDone
  BY <1>6, RestoreInv
<1>7. CASE \E f \in F, p \in Phase : DissolveReluOnVar(f, p)
  BY <1>7, DissolveInv
<1>8. CASE PopFlip \/ PopDiscard
  BY <1>8, PopInv
<1>9. QED
  BY <1>1, <1>2, <1>3, <1>4, <1>5, <1>6, <1>7, <1>8 DEF Next

LEMMA GoodIsJustified ==
  ASSUME BoundsInv
  PROVE  BoundsJustified
<1>1. ASSUME NEW x \in Var
      PROVE  /\ current.lower[x].level \in Nat /\ current.upper[x].level \in Nat
             /\ current.lower[x].level <= Len(stack)
             /\ current.upper[x].level <= Len(stack)
             /\ \A s \in FollowersOf(solutions, stack)[current.lower[x].level] :
                  current.lower[x].val <= s[x]
             /\ \A s \in FollowersOf(solutions, stack)[current.upper[x].level] :
                  s[x] <= current.upper[x].val
  BY DEF BoundsInv, Good, JustifiedBy, State, Bound
<1>2. ASSUME NEW s \in solutions, NEW l \in Nat, Agrees(s, l)
      PROVE  s \in FollowersOf(solutions, stack)[l]
  BY <1>2 DEF Agrees, FollowersOf
<1>3. QED
  BY <1>1, <1>2 DEF BoundsJustified, Justified

(***************************************************************************)
(* Type correctness, and the meaning of levels: whatever is learned,       *)
(* decided, popped or asserted again, a bound at level l holds in every    *)
(* solution that follows the first l decisions.                            *)
(***************************************************************************)
THEOREM BoundsInvariant == Spec => []BoundsInv
<1>1. QED
  BY InitInv, NextInv, PTL DEF Spec

THEOREM BoundsTypeCorrect == Spec => []TypeOK
<1>1. BoundsInv => TypeOK
  BY DEF BoundsInv
<1>2. QED
  BY <1>1, BoundsInvariant, PTL

THEOREM LevelsAreSound == Spec => []BoundsJustified
<1>1. BoundsInv => BoundsJustified
  BY GoodIsJustified
<1>2. QED
  BY <1>1, BoundsInvariant, PTL

-----------------------------------------------------------------------------
(***************************************************************************)
(* The answers.  An assignment that the main loop accepts is a solution of *)
(* the query, because what is no longer looked at for a dissolved pair     *)
(* follows from its bounds.  UNSAT is answered only to queries without a   *)
(* solution, because the levels of contradicting bounds refute the         *)
(* decisions up to them, and pops lose no branch.                          *)
(***************************************************************************)

(***************************************************************************)
(* The shape of a state st that came from the preprocessed state p: bounds *)
(* are tighter than in p and do not contradict each other.  An active pair *)
(* has one upper bound and the lower bound zero for f; a dissolved one has *)
(* bounds that leave its phase alone.  A merged b occurs nowhere, and f    *)
(* obeys the bounds that b had.                                            *)
(***************************************************************************)
Seen(st, x) == \A f \in F : x = B[f] => st.dissolved[f] # "MERGE"

PairShape(st, p, f) ==
  /\ st.lower[f].val >= 0
  /\ st.dissolved[f] = Active =>
       /\ st.lower[f].val = 0 /\ st.lower[B[f]].val < 0
       /\ st.upper[f].val > 0 /\ st.upper[B[f]].val = st.upper[f].val
  /\ st.dissolved[f] = "SPLIT" => st.upper[f].val <= 0 /\ st.upper[B[f]].val <= 0
  /\ st.dissolved[f] = "MERGE" =>
       p.lower[B[f]].val <= st.lower[f].val /\ st.upper[f].val <= p.upper[B[f]].val

Shape(st, p) ==
  /\ st \in State
  /\ \A x \in Var : Seen(st, x) =>
       /\ p.lower[x].val <= st.lower[x].val
       /\ st.upper[x].val <= p.upper[x].val
       /\ st.lower[x].val <= st.upper[x].val
  /\ \A f \in F : PairShape(st, p, f)

LEMMA SeenIsNotMerged ==
  ASSUME NEW st, NEW x \in Var
  PROVE  Seen(st, x) <=> ~MergedB(st, x)
<1>1. CASE \E f \in F : x = B[f]
  <2>1. PICK f \in F : x = B[f]
    BY <1>1
  <2>2. PairOf(x) = f /\ IsB(x) /\ \A g \in F : x = B[g] => g = f
    BY <2>1, PairFacts, BoundsAssumption DEF IsB
  <2>3. QED
    BY <2>1, <2>2 DEF Seen, MergedB
<1>2. CASE ~\E f \in F : x = B[f]
  BY <1>2 DEF Seen, MergedB, IsB
<1>3. QED
  BY <1>1, <1>2

(***************************************************************************)
(* No conflict means no contradiction; a conflict is the level of one.     *)
(***************************************************************************)
Contradiction(o) ==
  \E z \in Var : /\ ~BoundInvariantHolds(o.state, z)
                 /\ o.conflict = ViolatingLevel(o.state, z)

LEMMA OutcomeConsistent ==
  ASSUME NEW st \in State, NEW x \in Var, NEW y \in Var
  PROVE  /\ Outcome(st, x, y).conflict = NoConflict
              => st.lower[x].val <= st.upper[x].val /\ st.lower[y].val <= st.upper[y].val
         /\ Outcome(st, x, y).conflict # NoConflict => Contradiction(Outcome(st, x, y))
<1>1. \A z \in Var : ViolatingLevel(st, z) \in Nat
  BY DEF ViolatingLevel, State, Bound
<1>2. NoConflict \notin Nat
  BY DEF NoConflict
<1>3. Outcome(st, x, y).state = st
  BY OutcomeState
<1>4. CASE ~BoundInvariantHolds(st, x)
  <2>1. Outcome(st, x, y).conflict = ViolatingLevel(st, x)
    BY <1>4 DEF Outcome
  <2>2. QED
    BY <1>1, <1>2, <1>3, <1>4, <2>1 DEF Contradiction
<1>5. CASE BoundInvariantHolds(st, x) /\ ~BoundInvariantHolds(st, y)
  <2>1. Outcome(st, x, y).conflict = ViolatingLevel(st, y)
    BY <1>5 DEF Outcome
  <2>2. QED
    BY <1>1, <1>2, <1>3, <1>5, <2>1 DEF Contradiction
<1>6. CASE BoundInvariantHolds(st, x) /\ BoundInvariantHolds(st, y)
  BY <1>6 DEF Outcome, BoundInvariantHolds
<1>7. QED
  BY <1>4, <1>5, <1>6

(***************************************************************************)
(* The states that updates make.                                           *)
(***************************************************************************)
LEMMA WithUpperState ==
  ASSUME NEW st \in State, NEW S, NEW v \in Int, NEW l \in Nat
  PROVE  /\ WithUpper(st, S, v, l) \in State
         /\ WithUpper(st, S, v, l).lower = st.lower
         /\ WithUpper(st, S, v, l).dissolved = st.dissolved
         /\ \A x \in Var : WithUpper(st, S, v, l).upper[x]
              = IF x \in S THEN [val |-> v, level |-> l] ELSE st.upper[x]
BY DEF WithUpper, State, Bound

LEMMA WithLowerState ==
  ASSUME NEW st \in State, NEW S, NEW v \in Int, NEW l \in Nat
  PROVE  /\ WithLower(st, S, v, l) \in State
         /\ WithLower(st, S, v, l).upper = st.upper
         /\ WithLower(st, S, v, l).dissolved = st.dissolved
         /\ \A x \in Var : WithLower(st, S, v, l).lower[x]
              = IF x \in S THEN [val |-> v, level |-> l] ELSE st.lower[x]
BY DEF WithLower, State, Bound

LEMMA DissolveState ==
  ASSUME NEW st \in State, NEW f \in F, NEW p \in Phase
  PROVE  /\ Dissolve(st, f, p) \in State
         /\ Dissolve(st, f, p).lower = st.lower
         /\ Dissolve(st, f, p).upper = st.upper
         /\ \A g \in F : Dissolve(st, f, p).dissolved[g]
              = IF g = f THEN p ELSE st.dissolved[g]
BY DEF Dissolve, State

(***************************************************************************)
(* An update that tightens a bound and meets no conflict keeps the shape.  *)
(***************************************************************************)
LEMMA ShapeUpper ==
  ASSUME NEW p \in State, NEW st, Shape(st, p), NEW x \in Var, NEW v \in Int,
         NEW l \in Nat, v < st.upper[x].val
  PROVE  /\ UpdateUpperBound(st, x, v, l).conflict = NoConflict
              => Shape(UpdateUpperBound(st, x, v, l).state, p)
         /\ UpdateUpperBound(st, x, v, l).conflict # NoConflict
              => Contradiction(UpdateUpperBound(st, x, v, l))
<1>0. st \in State
  BY DEF Shape
<1>1. /\ st \in State
      /\ \A y \in Var : /\ st.lower[y].val \in Int /\ st.upper[y].val \in Int
                        /\ p.lower[y].val \in Int /\ p.upper[y].val \in Int
  BY DEF Shape, State, Bound
<1>2. CASE ~ActiveReluVariable(st, x) \/ (v < 0 /\ x \in F)
  <2> DEFINE new == WithUpper(st, {x}, v, l)
  <2>1. UpdateUpperBound(st, x, v, l) = Outcome(new, x, x)
    BY <1>2 DEF UpdateUpperBound
  <2>2. /\ new \in State /\ new.lower = st.lower /\ new.dissolved = st.dissolved
        /\ \A y \in Var : new.upper[y] = IF y \in {x} THEN [val |-> v, level |-> l]
                                         ELSE st.upper[y]
    BY <1>0, WithUpperState
  <2> HIDE DEF new
  <2>3. /\ new.upper[x].val = v
        /\ \A y \in Var \ {x} : new.upper[y] = st.upper[y]
    BY <2>2
  <2>4. ASSUME st.lower[x].val <= v
        PROVE  Shape(new, p)
    <3>1. ASSUME NEW y \in Var, Seen(new, y)
          PROVE  /\ p.lower[y].val <= new.lower[y].val
                 /\ new.upper[y].val <= p.upper[y].val
                 /\ new.lower[y].val <= new.upper[y].val
      <4>1. Seen(st, y)
        BY <2>2, <3>1 DEF Seen
      <4>2. QED
        BY <1>1, <2>2, <2>3, <2>4, <4>1 DEF Shape
    <3>2. ASSUME NEW f \in F
          PROVE  PairShape(new, p, f)
      <4>1. f \in Var /\ B[f] \in Var /\ PairShape(st, p, f)
        BY PairFacts DEF Shape
      <4>2. st.dissolved[f] = Active => x # f /\ x # B[f]
        BY <1>2, <2>4, <4>1, PairFacts DEF ActiveReluVariable, IsB, PairShape
      <4>3. QED
        BY <1>1, <2>2, <2>3, <4>1, <4>2 DEF PairShape, Active
    <3>3. QED
      BY <2>2, <3>1, <3>2 DEF Shape
  <2>5. QED
    BY <2>1, <2>2, <2>3, <2>4, OutcomeConsistent, OutcomeState
<1>3. CASE ActiveReluVariable(st, x) /\ ~(v < 0 /\ x \in F)
  <2>1. PICK f \in F : /\ PairOf(x) = f /\ st.dissolved[f] = Active
                       /\ \/ x = f /\ Partner(x) = B[f]
                          \/ x = B[f] /\ Partner(x) = f
    BY <1>3, ActivePair
  <2>2. f \in Var /\ B[f] \in Var /\ f # B[f] /\ \A g \in F : B[g] = B[f] => g = f
    BY PairFacts, BoundsAssumption
  <2>3. /\ st.lower[f].val = 0 /\ st.lower[B[f]].val < 0
        /\ st.upper[f].val > 0 /\ st.upper[B[f]].val = st.upper[f].val
        /\ v < st.upper[f].val
    BY <2>1, <2>2 DEF Shape, PairShape
  <2>4. Seen(st, f) /\ Seen(st, B[f])
    BY <2>1, <2>2, PairFacts DEF Seen, Active
  <2>5. CASE v > 0
    <3> DEFINE new == WithUpper(st, {x, Partner(x)}, v, l)
    <3>1. UpdateUpperBound(st, x, v, l) = Outcome(new, x, Partner(x))
      BY <1>3, <2>5 DEF UpdateUpperBound
    <3>2. /\ new \in State /\ new.lower = st.lower /\ new.dissolved = st.dissolved
          /\ \A y \in Var : new.upper[y] = IF y \in {x, Partner(x)}
                                           THEN [val |-> v, level |-> l]
                                           ELSE st.upper[y]
      BY <1>0, WithUpperState
    <3> HIDE DEF new
    <3>3. /\ new.upper[f].val = v /\ new.upper[B[f]].val = v
          /\ \A y \in Var \ {f, B[f]} : new.upper[y] = st.upper[y]
      BY <2>1, <2>2, <3>2
    <3>4. Shape(new, p)
      <4>1. ASSUME NEW y \in Var, Seen(new, y)
            PROVE  /\ p.lower[y].val <= new.lower[y].val
                   /\ new.upper[y].val <= p.upper[y].val
                   /\ new.lower[y].val <= new.upper[y].val
        <5>1. Seen(st, y)
          BY <3>2, <4>1 DEF Seen
        <5>2. QED
          BY <1>1, <2>2, <2>3, <2>5, <3>2, <3>3, <5>1 DEF Shape
      <4>2. ASSUME NEW g \in F
            PROVE  PairShape(new, p, g)
        <5>1. g \in Var /\ B[g] \in Var /\ PairShape(st, p, g)
          BY PairFacts DEF Shape
        <5>2. CASE g = f
          BY <2>1, <2>3, <2>5, <3>2, <3>3, <5>2 DEF PairShape, Active
        <5>3. CASE g # f
          <6>1. g # B[f] /\ B[g] # f /\ B[g] # B[f]
            BY <2>2, <5>3, PairFacts
          <6>2. new.upper[g] = st.upper[g] /\ new.upper[B[g]] = st.upper[B[g]]
            BY <3>3, <5>1, <5>3, <6>1
          <6>3. QED
            BY <3>2, <5>1, <6>2 DEF PairShape
        <5>4. QED
          BY <5>2, <5>3
      <4>3. QED
        BY <3>2, <4>1, <4>2 DEF Shape
    <3>5. QED
      BY <2>1, <2>2, <3>1, <3>2, <3>4, OutcomeConsistent, OutcomeState
  <2>6. CASE ~(v > 0)
    <3> DEFINE zero == WithUpper(st, {f}, 0, l)
               both == WithUpper(zero, {B[f]}, v, l)
               new == Dissolve(both, f, "SPLIT")
    <3>1. UpdateUpperBound(st, x, v, l) = Outcome(new, B[f], f)
      BY <1>3, <2>1, <2>6 DEF UpdateUpperBound
    <3>2. /\ zero \in State /\ zero.lower = st.lower /\ zero.dissolved = st.dissolved
          /\ \A y \in Var : zero.upper[y] = IF y \in {f} THEN [val |-> 0, level |-> l]
                                            ELSE st.upper[y]
      BY <1>0, WithUpperState
    <3> HIDE DEF zero
    <3>3. /\ both \in State /\ both.lower = st.lower /\ both.dissolved = st.dissolved
          /\ \A y \in Var : both.upper[y] = IF y \in {B[f]} THEN [val |-> v, level |-> l]
                                            ELSE zero.upper[y]
      BY <3>2, WithUpperState
    <3> HIDE DEF both
    <3>4. /\ new \in State /\ new.lower = st.lower /\ new.upper = both.upper
          /\ \A g \in F : new.dissolved[g] = IF g = f THEN "SPLIT" ELSE st.dissolved[g]
      <4>1. both \in State /\ "SPLIT" \in Phase
        BY <3>3 DEF Phase
      <4>2. QED
        BY <3>3, <4>1, DissolveState
    <3> HIDE DEF new
    <3>5. /\ new.upper[f].val = 0 /\ new.upper[B[f]].val = v
          /\ \A y \in Var \ {f, B[f]} : new.upper[y] = st.upper[y]
      BY <2>2, <3>2, <3>3, <3>4
    <3>6. ASSUME st.lower[B[f]].val <= v
          PROVE  Shape(new, p)
      <4>1. ASSUME NEW y \in Var, Seen(new, y)
            PROVE  /\ p.lower[y].val <= new.lower[y].val
                   /\ new.upper[y].val <= p.upper[y].val
                   /\ new.lower[y].val <= new.upper[y].val
        <5>1. Seen(st, y)
          BY <2>1, <3>4, <4>1 DEF Seen, Active
        <5>2. CASE y \notin {f, B[f]}
          BY <3>4, <3>5, <5>1, <5>2 DEF Shape
        <5>3. CASE y = f
          BY <1>1, <2>2, <2>3, <3>4, <3>5, <5>1, <5>3 DEF Shape
        <5>4. CASE y = B[f]
          BY <1>1, <2>2, <2>3, <2>6, <3>4, <3>5, <3>6, <5>1, <5>4 DEF Shape
        <5>5. QED
          BY <5>2, <5>3, <5>4
      <4>2. ASSUME NEW g \in F
            PROVE  PairShape(new, p, g)
        <5>1. g \in Var /\ B[g] \in Var /\ PairShape(st, p, g)
          BY PairFacts DEF Shape
        <5>2. CASE g = f
          BY <2>3, <2>6, <3>4, <3>5, <5>2 DEF PairShape, Active
        <5>3. CASE g # f
          <6>1. g # B[f] /\ B[g] # f /\ B[g] # B[f]
            BY <2>2, <5>3, PairFacts
          <6>2. new.upper[g] = st.upper[g] /\ new.upper[B[g]] = st.upper[B[g]]
            BY <3>5, <5>1, <5>3, <6>1
          <6>3. QED
            BY <3>4, <5>1, <5>3, <6>2 DEF PairShape
        <5>4. QED
          BY <5>2, <5>3
      <4>3. QED
        BY <3>4, <4>1, <4>2 DEF Shape
    <3>7. QED
      BY <2>2, <3>1, <3>4, <3>5, <3>6, OutcomeConsistent, OutcomeState
  <2>7. QED
    BY <2>5, <2>6
<1>4. QED
  BY <1>2, <1>3

LEMMA ShapeLower ==
  ASSUME NEW p \in State, NEW st, Shape(st, p), NEW x \in Var, NEW v \in Int,
         NEW l \in Nat, v >= st.lower[x].val
  PROVE  /\ UpdateLowerBound(st, x, v, l).conflict = NoConflict
              => Shape(UpdateLowerBound(st, x, v, l).state, p)
         /\ UpdateLowerBound(st, x, v, l).conflict # NoConflict
              => Contradiction(UpdateLowerBound(st, x, v, l))
<1>0. st \in State
  BY DEF Shape
<1>1. \A y \in Var : /\ st.lower[y].val \in Int /\ st.upper[y].val \in Int
                     /\ p.lower[y].val \in Int /\ p.upper[y].val \in Int
  BY <1>0 DEF State, Bound
<1>2. CASE ~ActiveReluVariable(st, x) \/ v < 0
  <2> DEFINE new == WithLower(st, {x}, v, l)
  <2>1. UpdateLowerBound(st, x, v, l) = Outcome(new, x, x)
    BY <1>2 DEF UpdateLowerBound
  <2>2. /\ new \in State /\ new.upper = st.upper /\ new.dissolved = st.dissolved
        /\ \A y \in Var : new.lower[y] = IF y \in {x} THEN [val |-> v, level |-> l]
                                         ELSE st.lower[y]
    BY <1>0, WithLowerState
  <2> HIDE DEF new
  <2>3. /\ new.lower[x].val = v
        /\ \A y \in Var \ {x} : new.lower[y] = st.lower[y]
    BY <2>2
  <2>4. ASSUME v <= st.upper[x].val
        PROVE  Shape(new, p)
    <3>1. ASSUME NEW y \in Var, Seen(new, y)
          PROVE  /\ p.lower[y].val <= new.lower[y].val
                 /\ new.upper[y].val <= p.upper[y].val
                 /\ new.lower[y].val <= new.upper[y].val
      <4>1. Seen(st, y)
        BY <2>2, <3>1 DEF Seen
      <4>2. QED
        BY <1>1, <2>2, <2>3, <2>4, <4>1 DEF Shape
    <3>2. ASSUME NEW f \in F
          PROVE  PairShape(new, p, f)
      <4>1. f \in Var /\ B[f] \in Var /\ f # B[f] /\ PairShape(st, p, f)
        BY PairFacts DEF Shape
      <4>2. CASE x = f
        <5>1. st.dissolved[f] # Active
          BY <1>1, <1>2, <4>1, <4>2, PairFacts DEF ActiveReluVariable, PairShape
        <5>2. new.lower[f].val = v /\ new.lower[B[f]] = st.lower[B[f]]
          BY <2>3, <4>1, <4>2
        <5>3. QED
          BY <1>1, <2>2, <4>1, <4>2, <5>1, <5>2 DEF PairShape
      <4>3. CASE x = B[f]
        <5>1. st.dissolved[f] = Active => v < 0
          BY <1>2, <4>3, PairFacts DEF ActiveReluVariable, IsB
        <5>2. new.lower[f] = st.lower[f] /\ new.lower[B[f]].val = v
          BY <2>3, <4>1, <4>3
        <5>3. QED
          BY <1>1, <2>2, <4>1, <5>1, <5>2 DEF PairShape
      <4>4. CASE x # f /\ x # B[f]
        <5>1. new.lower[f] = st.lower[f] /\ new.lower[B[f]] = st.lower[B[f]]
          BY <2>3, <4>1, <4>4
        <5>2. QED
          BY <2>2, <4>1, <5>1 DEF PairShape
      <4>5. QED
        BY <4>2, <4>3, <4>4
    <3>3. QED
      BY <2>2, <3>1, <3>2 DEF Shape
  <2>5. QED
    BY <2>1, <2>2, <2>3, <2>4, OutcomeConsistent, OutcomeState
<1>3. CASE ActiveReluVariable(st, x) /\ ~(v < 0)
  <2> DEFINE raised == WithLower(st, {x, Partner(x)}, v, l)
             o == Outcome(raised, x, Partner(x))
  <2>1. PICK f \in F : /\ PairOf(x) = f /\ st.dissolved[f] = Active
                       /\ \/ x = f /\ Partner(x) = B[f]
                          \/ x = B[f] /\ Partner(x) = f
    BY <1>3, ActivePair
  <2>2. f \in Var /\ B[f] \in Var /\ f # B[f] /\ \A g \in F : B[g] = B[f] => g = f
    BY PairFacts, BoundsAssumption
  <2>3. /\ st.lower[f].val = 0 /\ st.lower[B[f]].val < 0
        /\ st.upper[B[f]].val = st.upper[f].val
    BY <2>1, <2>2 DEF Shape, PairShape
  <2>4. Seen(st, f) /\ Seen(st, B[f])
    BY <2>1, <2>2, PairFacts DEF Seen, Active
  <2>5. /\ raised \in State /\ raised.upper = st.upper
        /\ raised.dissolved = st.dissolved
        /\ \A y \in Var : raised.lower[y] = IF y \in {x, Partner(x)}
                                            THEN [val |-> v, level |-> l]
                                            ELSE st.lower[y]
    BY <1>0, WithLowerState
  <2>6. UpdateLowerBound(st, x, v, l)
          = IF o.conflict = NoConflict
            THEN [state |-> Dissolve(o.state, f, "MERGE"), conflict |-> NoConflict]
            ELSE o
    BY <1>3, <2>1 DEF UpdateLowerBound
  <2> HIDE DEF raised
  <2>7. o.state = raised
    BY OutcomeState
  <2>8. ASSUME o.conflict = NoConflict
        PROVE  Shape(Dissolve(raised, f, "MERGE"), p)
    <3> DEFINE new == Dissolve(raised, f, "MERGE")
    <3>1. "MERGE" \in Phase
      BY DEF Phase
    <3>2. /\ new \in State /\ new.lower = raised.lower /\ new.upper = raised.upper
          /\ \A g \in F : new.dissolved[g]
               = IF g = f THEN "MERGE" ELSE raised.dissolved[g]
      BY <2>5, <3>1, DissolveState
    <3> HIDE DEF new
    <3>3. /\ new.lower[f].val = v /\ new.lower[B[f]].val = v
          /\ \A y \in Var \ {f, B[f]} : new.lower[y] = st.lower[y]
      BY <2>1, <2>2, <2>5, <3>2
    <3>4. v <= st.upper[f].val
      BY <2>1, <2>2, <2>3, <2>5, <2>8, <3>2, <3>3, OutcomeConsistent
    <3>5. ASSUME NEW y \in Var, Seen(new, y)
          PROVE  /\ p.lower[y].val <= new.lower[y].val
                 /\ new.upper[y].val <= p.upper[y].val
                 /\ new.lower[y].val <= new.upper[y].val
      <4>1. y # B[f]
        BY <3>2, <3>5 DEF Seen
      <4>2. Seen(st, y)
        BY <2>1, <2>5, <3>2, <3>5, <4>1 DEF Seen
      <4>3. CASE y = f
        BY <1>1, <1>3, <2>2, <2>3, <2>5, <3>2, <3>3, <3>4, <4>2, <4>3 DEF Shape
      <4>4. CASE y # f
        BY <2>5, <3>2, <3>3, <4>1, <4>2, <4>4 DEF Shape
      <4>5. QED
        BY <4>3, <4>4
    <3>6. ASSUME NEW g \in F
          PROVE  PairShape(new, p, g)
      <4>1. g \in Var /\ B[g] \in Var /\ PairShape(st, p, g)
        BY PairFacts DEF Shape
      <4>2. CASE g = f
        <5>1. /\ p.lower[B[f]].val <= st.lower[B[f]].val
              /\ st.upper[B[f]].val <= p.upper[B[f]].val
          BY <2>2, <2>4 DEF Shape
        <5>2. QED
          BY <1>1, <1>3, <2>2, <2>3, <2>5, <3>2, <3>3, <4>2, <5>1 DEF PairShape, Active
      <4>3. CASE g # f
        <5>1. g # B[f] /\ B[g] # f /\ B[g] # B[f]
          BY <2>2, <4>3, PairFacts
        <5>2. new.lower[g] = st.lower[g] /\ new.lower[B[g]] = st.lower[B[g]]
          BY <3>3, <4>1, <4>3, <5>1
        <5>3. QED
          BY <2>5, <3>2, <4>1, <4>3, <5>2 DEF PairShape
      <4>4. QED
        BY <4>2, <4>3
    <3>7. QED
      BY <3>2, <3>5, <3>6 DEF Shape, new
  <2>9. QED
    BY <2>1, <2>2, <2>5, <2>6, <2>7, <2>8, OutcomeConsistent
<1>4. QED
  BY <1>2, <1>3

(***************************************************************************)
(* The bounds of an active pair admit both phases: its decision meets no   *)
(* conflict, and neither does the flip of one whose pair was active.       *)
(***************************************************************************)
LEMMA DecisionShape ==
  ASSUME NEW p \in State, NEW st, Shape(st, p), NEW f \in F, NEW phase \in Phase,
         NEW l \in Nat, st.dissolved[f] = Active
  PROVE  /\ Decided(st, f, phase, l).conflict = NoConflict
         /\ Shape(Decided(st, f, phase, l).state, p)
<1>1. /\ f \in Var /\ B[f] \in Var /\ B[f] \notin F /\ 0 \in Int
      /\ PairOf(f) = f /\ Partner(f) = B[f]
  BY PairFacts
<1>2. /\ st \in State /\ st.lower[f].val = 0 /\ st.lower[B[f]].val < 0
      /\ st.upper[f].val > 0 /\ st.upper[B[f]].val = st.upper[f].val
  BY DEF Shape, PairShape
<1>3. ActiveReluVariable(st, f)
  BY <1>1, <1>2 DEF ActiveReluVariable
<1>4. st.lower[B[f]].val \in Int /\ st.upper[f].val \in Int
  BY <1>1, <1>2 DEF State, Bound
<1>5. CASE phase = "SPLIT"
  <2> DEFINE zero == WithUpper(st, {f}, 0, l)
             both == WithUpper(zero, {B[f]}, 0, l)
             new == Dissolve(both, f, "SPLIT")
  <2>1. UpdateUpperBound(st, f, 0, l) = Outcome(new, B[f], f)
    BY <1>1, <1>3 DEF UpdateUpperBound
  <2>2. /\ new.lower = st.lower
        /\ new.upper[f].val = 0 /\ new.upper[B[f]].val = 0
    BY <1>1 DEF Dissolve, WithUpper
  <2> HIDE DEF new
  <2>3. UpdateUpperBound(st, f, 0, l).conflict = NoConflict
    BY <1>2, <1>4, <2>1, <2>2 DEF Outcome, BoundInvariantHolds
  <2>4. Shape(UpdateUpperBound(st, f, 0, l).state, p)
    BY <1>1, <1>2, <2>3, ShapeUpper
  <2>5. QED
    BY <1>5, <2>3, <2>4 DEF Decided
<1>6. CASE phase = "MERGE"
  <2> DEFINE raised == WithLower(st, {f, B[f]}, 0, l)
  <2>1. /\ raised.upper = st.upper
        /\ raised.lower[f].val = 0 /\ raised.lower[B[f]].val = 0
    BY <1>1 DEF WithLower
  <2> HIDE DEF raised
  <2>2. Outcome(raised, f, B[f]).conflict = NoConflict
    BY <1>2, <1>4, <2>1 DEF Outcome, BoundInvariantHolds
  <2>3. UpdateLowerBound(st, f, 0, l).conflict = NoConflict
    BY <1>1, <1>3, <2>2 DEF UpdateLowerBound, raised
  <2>4. Shape(UpdateLowerBound(st, f, 0, l).state, p)
    BY <1>1, <1>2, <2>3, ShapeLower
  <2>5. QED
    BY <1>6, <2>3, <2>4 DEF Decided
<1>7. QED
  BY <1>5, <1>6 DEF Phase


(***************************************************************************)
(* The bounds before the main loop have the shape.                         *)
(***************************************************************************)
LEMMA PreprocessedShape ==
  ASSUME NEW p \in Preprocessed
  PROVE  Shape(p, p)
<1>1. p \in State
  BY BoundsAssumption
<1>2. \A x \in Var : /\ p.lower[x].val \in Int /\ p.upper[x].val \in Int
                     /\ p.lower[x].val <= p.upper[x].val
  BY <1>1, BoundsAssumption DEF State, Bound
<1>3. ASSUME NEW f \in F
      PROVE  PairShape(p, p, f)
  <2>1. /\ p.lower[f].val >= 0
        /\ p.dissolved[f] = "SPLIT" => p.upper[f].val <= 0
    BY BoundsAssumption
  <2>2. /\ p.dissolved[f] = Active =>
             /\ p.lower[f].val = 0 /\ p.lower[B[f]].val < 0
             /\ p.upper[f].val > 0 /\ p.upper[B[f]].val = p.upper[f].val
        /\ p.dissolved[f] = "SPLIT" => p.upper[B[f]].val <= 0
        /\ p.dissolved[f] = "MERGE" => /\ p.lower[B[f]].val <= p.lower[f].val
                                       /\ p.upper[f].val <= p.upper[B[f]].val
    BY InitialPairs
  <2>3. QED
    BY <2>1, <2>2 DEF PairShape
<1>4. QED
  BY <1>1, <1>2, <1>3 DEF Shape

-----------------------------------------------------------------------------
(***************************************************************************)
(* Asserting the bounds of a variable again: the shape is kept until a     *)
(* contradiction is met.                                                   *)
(***************************************************************************)
ShapeSoFar(o) ==
  /\ o.conflict = NoConflict => Shape(o.state, preprocessed)
  /\ o.conflict # NoConflict => Contradiction(o)

LEMMA ThenLowerShape ==
  ASSUME preprocessed \in State, backup \in State, NEW o, ShapeSoFar(o), NEW x \in Var
  PROVE  ShapeSoFar(ThenLower(o, x))
<1> DEFINE v == backup.lower[x].val
           l == backup.lower[x].level
<1>1. CASE o.conflict # NoConflict \/ v <= o.state.lower[x].val
  BY <1>1 DEF ThenLower
<1>2. CASE o.conflict = NoConflict /\ ~(v <= o.state.lower[x].val)
  <2>1. ThenLower(o, x) = UpdateLowerBound(o.state, x, v, l)
    BY <1>2 DEF ThenLower
  <2>2. Shape(o.state, preprocessed)
    BY <1>2 DEF ShapeSoFar
  <2>3. v \in Int /\ l \in Nat /\ v >= o.state.lower[x].val
    BY <1>2, <2>2 DEF Shape, State, Bound
  <2> HIDE DEF v, l
  <2>4. QED
    BY <2>1, <2>2, <2>3, ShapeLower DEF ShapeSoFar
<1>3. QED
  BY <1>1, <1>2

LEMMA ThenUpperShape ==
  ASSUME preprocessed \in State, backup \in State, NEW o, ShapeSoFar(o), NEW x \in Var
  PROVE  ShapeSoFar(ThenUpper(o, x))
<1> DEFINE v == backup.upper[x].val
           l == backup.upper[x].level
<1>1. CASE o.conflict # NoConflict \/ v >= o.state.upper[x].val
  BY <1>1 DEF ThenUpper
<1>2. CASE o.conflict = NoConflict /\ ~(v >= o.state.upper[x].val)
  <2>1. ThenUpper(o, x) = UpdateUpperBound(o.state, x, v, l)
    BY <1>2 DEF ThenUpper
  <2>2. Shape(o.state, preprocessed)
    BY <1>2 DEF ShapeSoFar
  <2>3. v \in Int /\ l \in Nat /\ v < o.state.upper[x].val
    BY <1>2, <2>2 DEF Shape, State, Bound
  <2> HIDE DEF v, l
  <2>4. QED
    BY <2>1, <2>2, <2>3, ShapeUpper DEF ShapeSoFar
<1>3. QED
  BY <1>1, <1>2

\* Only a level changes.
LEMMA ThenUpperLevelShape ==
  ASSUME preprocessed \in State, backup \in State, NEW o, ShapeSoFar(o), NEW f \in F
  PROVE  ShapeSoFar(ThenUpperLevel(o, f))
<1>1. CASE o.conflict # NoConflict
  BY <1>1 DEF ThenUpperLevel
<1>2. CASE o.conflict = NoConflict
  <2> DEFINE v == o.state.upper[f].val
             l == backup.upper[f].level
             new == WithUpper(o.state, {f}, v, l)
  <2>1. Shape(o.state, preprocessed) /\ o.state \in State /\ f \in Var
    BY <1>2, PairFacts DEF ShapeSoFar, Shape
  <2>2. v \in Int /\ l \in Nat
    BY <2>1 DEF State, Bound
  <2>3. ThenUpperLevel(o, f) = [state |-> new, conflict |-> NoConflict]
    BY <1>2 DEF ThenUpperLevel
  <2>4. /\ new \in State /\ new.lower = o.state.lower
        /\ new.dissolved = o.state.dissolved
        /\ \A x \in Var : new.upper[x] = IF x \in {f} THEN [val |-> v, level |-> l]
                                          ELSE o.state.upper[x]
    <3> HIDE DEF v, l
    <3>1. QED
      BY <2>1, <2>2, WithUpperState
  <2>5. \A x \in Var : new.upper[x].val = o.state.upper[x].val
    <3> HIDE DEF new
    <3>1. QED
      BY <2>4
  <2> HIDE DEF new
  <2>6. Shape(new, preprocessed)
    <3>1. \A x \in Var : Seen(new, x) => Seen(o.state, x)
      BY <2>4 DEF Seen
    <3>2. ASSUME NEW g \in F
          PROVE  PairShape(new, preprocessed, g)
      <4>1. g \in Var /\ B[g] \in Var /\ PairShape(o.state, preprocessed, g)
        BY <2>1, PairFacts DEF Shape
      <4>2. QED
        BY <2>4, <2>5, <4>1 DEF PairShape
    <3>3. QED
      BY <2>1, <2>4, <2>5, <3>1, <3>2 DEF Shape
  <2>7. QED
    BY <2>3, <2>6 DEF ShapeSoFar
<1>3. QED
  BY <1>1, <1>2

LEMMA ReassertedShape ==
  ASSUME preprocessed \in State, backup \in State, Shape(current, preprocessed),
         NEW x \in Var
  PROVE  ShapeSoFar(Reasserted(x))
<1> DEFINE o == [state |-> current, conflict |-> NoConflict]
<1>1. ShapeSoFar(o)
  BY DEF ShapeSoFar
<1>2. x \in F => B[x] \in Var
  BY PairFacts
<1>3. ShapeSoFar(ThenUpper(ThenLower(o, x), x))
  BY <1>1, ThenLowerShape, ThenUpperShape
<1>4. x \in F => ShapeSoFar(ThenLower(ThenUpper(o, x), B[x]))
  BY <1>1, <1>2, ThenLowerShape, ThenUpperShape
<1>5. x \in F => ShapeSoFar(ThenLower(ThenUpperLevel(ThenUpper(o, B[x]), x), B[x]))
  BY <1>1, <1>2, ThenLowerShape, ThenUpperShape, ThenUpperLevelShape
<1>6. x \in F => ShapeSoFar(ThenUpper(ThenLower(ThenLower(o, B[x]), x), x))
  BY <1>1, <1>2, ThenLowerShape, ThenUpperShape
<1>7. QED
  BY <1>1, <1>3, <1>4, <1>5, <1>6 DEF Reasserted, o


-----------------------------------------------------------------------------
(***************************************************************************)
(* The shape as an invariant of the bounds in force outside of pops, and   *)
(* of the bounds that a pop brings back; those were saved when their pair  *)
(* was active.                                                             *)
(***************************************************************************)
ShapeInv ==
  /\ pc \notin {"popping", "done"} => Shape(current, preprocessed)
  /\ \A i \in 1..Len(stack) :
       /\ Shape(stack[i].saved, preprocessed)
       /\ stack[i].saved.dissolved[stack[i].var] = Active

(***************************************************************************)
(* What is needed to follow decisions and pops, wherever the bounds come   *)
(* from: the types, and the solutions of the query.                        *)
(***************************************************************************)
Typed ==
  /\ preprocessed \in Preprocessed
  /\ solutions \subseteq Assignments
  /\ \A s \in solutions : IsSolution(s, preprocessed)
  /\ current \in State /\ backup \in State
  /\ stack \in Seq(Entry)
  /\ violatingLevel \in Nat

LEMMA TypedFacts ==
  ASSUME Typed
  PROVE  /\ preprocessed \in State /\ preprocessed \in Preprocessed
         /\ current \in State /\ backup \in State
         /\ stack \in Seq(Entry) /\ Len(stack) \in Nat
BY BoundsAssumption DEF Typed

LEMMA InvTyped == BoundsInv => Typed
BY InvFacts DEF BoundsInv, TypeOK, Typed

LEMMA StateFacts ==
  ASSUME BoundsInv
  PROVE  /\ preprocessed \in State /\ preprocessed \in Preprocessed
         /\ current \in State /\ backup \in State
         /\ stack \in Seq(Entry) /\ Len(stack) \in Nat
BY InvFacts DEF BoundsInv, TypeOK

(***************************************************************************)
(* The outcome of each learned bound and of each reassertion.              *)
(***************************************************************************)
LEMMA LearnedShape ==
  ASSUME BoundsInv, ShapeInv, NEW x \in Var, NEW v \in Values, NEW l \in Levels
  PROVE  /\ TightenLower(x, v, l) \/ ApplyStoredLower(x, v, l)
              => ShapeSoFar(UpdateLowerBound(current, x, v, l))
         /\ TightenUpper(x, v, l) \/ ApplyStoredUpper(x, v, l)
              => ShapeSoFar(UpdateUpperBound(current, x, v, l))
<1>1. v \in Int /\ l \in Nat
  BY BoundsAssumption, StateFacts DEF Levels
<1>2. preprocessed \in State /\ current \in State
  BY StateFacts
<1>3. ASSUME TightenLower(x, v, l) \/ ApplyStoredLower(x, v, l)
      PROVE  ShapeSoFar(UpdateLowerBound(current, x, v, l))
  <2>1. v >= current.lower[x].val
    BY <1>1, <1>2, <1>3 DEF TightenLower, ApplyStoredLower, State, Bound
  <2>2. Shape(current, preprocessed)
    BY <1>3 DEF TightenLower, ApplyStoredLower, ShapeInv
  <2>3. QED
    BY <1>1, <1>2, <2>1, <2>2, ShapeLower DEF ShapeSoFar
<1>4. ASSUME TightenUpper(x, v, l) \/ ApplyStoredUpper(x, v, l)
      PROVE  ShapeSoFar(UpdateUpperBound(current, x, v, l))
  <2>1. v < current.upper[x].val
    BY <1>4 DEF TightenUpper, ApplyStoredUpper
  <2>2. Shape(current, preprocessed)
    BY <1>4 DEF TightenUpper, ApplyStoredUpper, ShapeInv
  <2>3. QED
    BY <1>1, <1>2, <2>1, <2>2, ShapeUpper DEF ShapeSoFar
<1>5. QED
  BY <1>3, <1>4

\* Every step that applies an outcome without touching the stack.
Applied(o, next) ==
  /\ next # "popping" /\ Apply(o, next)
  /\ ShapeSoFar(o)
  /\ UNCHANGED <<solutions, preprocessed, stack, currentStackDepth>>

LEMMA UpdatesApplied ==
  ASSUME BoundsInv, ShapeInv, Tighten \/ RestoreVariable
  PROVE  \E o, next : Applied(o, next)
<1>1. CASE Tighten
  <2>1. PICK x \in Var, v \in Values, l \in Levels :
          \/ TightenLower(x, v, l)
          \/ TightenUpper(x, v, l)
          \/ ApplyStoredLower(x, v, l)
          \/ ApplyStoredUpper(x, v, l)
    BY <1>1 DEF Tighten
  <2>2. CASE TightenLower(x, v, l)
    <3>1. Applied(UpdateLowerBound(current, x, v, l), "loop")
      BY <2>2, LearnedShape DEF TightenLower, Applied
    <3>2. QED
      BY <3>1
  <2>3. CASE TightenUpper(x, v, l)
    <3>1. Applied(UpdateUpperBound(current, x, v, l), "loop")
      BY <2>3, LearnedShape DEF TightenUpper, Applied
    <3>2. QED
      BY <3>1
  <2>4. CASE ApplyStoredLower(x, v, l)
    <3>1. Applied(UpdateLowerBound(current, x, v, l), "learning")
      BY <2>4, LearnedShape DEF ApplyStoredLower, Applied
    <3>2. QED
      BY <3>1
  <2>5. CASE ApplyStoredUpper(x, v, l)
    <3>1. Applied(UpdateUpperBound(current, x, v, l), "learning")
      BY <2>5, LearnedShape DEF ApplyStoredUpper, Applied
    <3>2. QED
      BY <3>1
  <2>6. QED
    BY <2>1, <2>2, <2>3, <2>4, <2>5
<1>2. CASE RestoreVariable
  <2>1. index \in Var
    <3>1. NumVariables \in Nat /\ index \in Nat /\ index < NumVariables
      BY <1>2, BoundsAssumption DEF RestoreVariable, BoundsInv, TypeOK
    <3>2. QED
      BY <3>1 DEF Var
  <2>2. ShapeSoFar(Reasserted(index))
    BY <1>2, <2>1, StateFacts, ReassertedShape DEF RestoreVariable, ShapeInv
  <2>3. Applied(Reasserted(index), "restoring")
    BY <1>2, <2>2 DEF RestoreVariable, Applied
  <2>4. QED
    BY <2>3
<1>3. QED
  BY <1>1, <1>2

LEMMA AppliedKeepsShape ==
  ASSUME ShapeInv, NEW o, NEW next, Applied(o, next)
  PROVE  ShapeInv'
<1>1. CASE o.conflict = NoConflict
  BY <1>1 DEF Applied, Apply, ShapeSoFar, ShapeInv
<1>2. CASE o.conflict # NoConflict
  <2>1. pc' \in {"done", "popping"}
    BY <1>2 DEF Applied, Apply, StartPop, Stop
  <2>2. QED
    BY <2>1 DEF Applied, ShapeInv
<1>3. QED
  BY <1>1, <1>2

LEMMA DissolveKeepsShape ==
  ASSUME Typed, ShapeInv, NEW f \in F, NEW p \in Phase, DissolveReluOnVar(f, p)
  PROVE  /\ ShapeInv'
         /\ stack' = Append(stack, [var |-> f, type |-> p, first |-> TRUE, saved |-> current])
         /\ currentStackDepth' = Len(stack')
         /\ pc' = "loop"
         /\ UNCHANGED <<solutions, preprocessed, violatingLevel, status>>
<1> DEFINE e == [var |-> f, type |-> p, first |-> TRUE, saved |-> current]
<1>1. PICK n \in Nat : n = Len(stack)
  BY TypedFacts
<1>2. PICK o : o = Decided(current, f, p, n + 1)
  OBVIOUS
<1>3. /\ pc = "loop" /\ current.dissolved[f] = Active
      /\ stack' = Append(stack, e) /\ Apply(o, "loop")
      /\ o.conflict = NoConflict => currentStackDepth' = Len(stack')
      /\ UNCHANGED <<solutions, preprocessed>>
  BY <1>1, <1>2 DEF DissolveReluOnVar
<1>4. Shape(current, preprocessed) /\ preprocessed \in State
  BY <1>3, TypedFacts DEF ShapeInv
<1>5. o.conflict = NoConflict /\ Shape(o.state, preprocessed)
  <2>1. n + 1 \in Nat
    OBVIOUS
  <2>2. QED
    BY <1>2, <1>3, <1>4, <2>1, DecisionShape
<1>6. current' = o.state /\ pc' = "loop" /\ UNCHANGED <<violatingLevel, status>>
  BY <1>3, <1>5 DEF Apply
<1>7. e \in Entry /\ stack \in Seq(Entry)
  BY TypedFacts DEF Entry
<1>8. /\ Len(stack') = n + 1
      /\ stack'[n + 1] = e /\ \A i \in 1..n : stack'[i] = stack[i]
  BY <1>1, <1>3, <1>7
<1>9. ASSUME NEW i \in 1..n + 1
      PROVE  /\ Shape(stack'[i].saved, preprocessed)
             /\ stack'[i].saved.dissolved[stack'[i].var] = Active
  <2>1. CASE i = n + 1
    BY <1>3, <1>4, <1>8, <2>1
  <2>2. CASE i # n + 1
    <3>1. i \in 1..Len(stack) /\ i \in 1..n
      BY <1>1, <2>2
    <3>2. QED
      BY <1>8, <3>1 DEF ShapeInv
  <2>3. QED
    BY <2>1, <2>2
<1> HIDE DEF e
<1>10. ShapeInv'
  BY <1>3, <1>5, <1>6, <1>8, <1>9 DEF ShapeInv
<1>11. QED
  BY <1>3, <1>5, <1>6, <1>10 DEF e

(***************************************************************************)
(* A flip meets no conflict: the pair was active in the saved bounds.      *)
(***************************************************************************)
LEMMA FlipKeepsShape ==
  ASSUME Typed, ShapeInv, PopFlip
  PROVE  /\ ShapeInv'
         /\ pc' = IF Len(stack) > violatingLevel THEN "popping" ELSE "loop"
         /\ UNCHANGED status
<1>1. PICK n \in Nat : n = Len(stack)
  BY TypedFacts
<1>2. stack \in Seq(Entry) /\ stack # <<>>
  BY TypedFacts DEF PopFlip
<1>3. /\ n \in 1..n /\ Top = stack[n] /\ stack[n] \in Entry
  BY <1>1, <1>2, EmptySeq, ElementOfSeq DEF Top
<1> DEFINE e == [var |-> Top.var, type |-> Opposite(Top.type), first |-> FALSE,
                 saved |-> Top.saved]
<1>4. e \in Entry /\ Top.var \in F /\ Opposite(Top.type) \in Phase
  BY <1>3 DEF Entry, Opposite, Phase
<1>5. PICK o : o = Decided(Top.saved, Top.var, Opposite(Top.type), n)
  OBVIOUS
<1>6. /\ stack' = [stack EXCEPT ![n] = e] /\ current' = o.state
      /\ o.conflict = NoConflict =>
           /\ pc' = IF Len(stack) > violatingLevel THEN "popping" ELSE "loop"
           /\ UNCHANGED status
      /\ UNCHANGED preprocessed
  BY <1>1, <1>5 DEF PopFlip
<1>7. o.conflict = NoConflict /\ Shape(o.state, preprocessed)
  <2>1. Shape(Top.saved, preprocessed) /\ Top.saved.dissolved[Top.var] = Active
    BY <1>1, <1>3 DEF ShapeInv
  <2>2. preprocessed \in State
    BY TypedFacts
  <2>3. QED
    BY <1>4, <1>5, <2>1, <2>2, DecisionShape
<1>8. /\ Len(stack') = n
      /\ \A i \in 1..n : stack'[i].var = stack[i].var /\ stack'[i].saved = stack[i].saved
  <2>1. stack'[n] = e /\ Len(stack') = n /\ \A i \in 1..n : i # n => stack'[i] = stack[i]
    <3> HIDE DEF e
    <3>1. stack \in [1..n -> Entry]
      BY <1>1, <1>2
    <3>2. stack' \in [1..n -> Entry]
      BY <1>4, <1>6, <3>1
    <3>3. QED
      BY <1>1, <1>2, <1>3, <1>6, <3>1, <3>2
  <2>2. QED
    BY <1>3, <2>1
<1> HIDE DEF e
<1>9. ShapeInv'
  BY <1>1, <1>6, <1>7, <1>8 DEF ShapeInv
<1>10. QED
  BY <1>6, <1>7, <1>9

LEMMA DiscardKeepsShape ==
  ASSUME Typed, ShapeInv, PopDiscard
  PROVE  ShapeInv'
<1>1. PICK n \in Nat : n = Len(stack)
  BY TypedFacts
<1>2. stack \in Seq(Entry) /\ n \in 1..n
  BY <1>1, TypedFacts, EmptySeq DEF PopDiscard
<1>3. Len(stack') = n - 1 /\ \A i \in 1..n - 1 : stack'[i] = stack[i]
  BY <1>1, <1>2, SubSeqProperties DEF PopDiscard
<1>4. pc' = "popping" /\ UNCHANGED preprocessed /\ \A i \in 1..n - 1 : i \in 1..n
  BY <1>2 DEF PopDiscard
<1>5. QED
  BY <1>1, <1>3, <1>4 DEF ShapeInv

LEMMA ShapeInitially == Init => ShapeInv
<1> SUFFICES ASSUME Init
             PROVE  ShapeInv
  OBVIOUS
<1>1. Shape(current, preprocessed)
  BY PreprocessedShape DEF Init
<1>2. Len(stack) = 0
  BY DEF Init
<1>3. QED
  BY <1>1, <1>2 DEF ShapeInv

LEMMA ShapeKept == BoundsInv /\ ShapeInv /\ [Next]_vars => ShapeInv'
<1> SUFFICES ASSUME BoundsInv, ShapeInv, [Next]_vars
             PROVE  ShapeInv'
  OBVIOUS
<1>1. CASE Tighten \/ RestoreVariable
  BY <1>1, UpdatesApplied, AppliedKeepsShape
<1>2. CASE SolveLp \/ DoneLearning \/ RestoreDone
  BY <1>2 DEF SolveLp, DoneLearning, RestoreDone, ShapeInv
<1>3. CASE NoSolutionExists
  BY <1>3 DEF NoSolutionExists, StartPop, Stop, ShapeInv
<1>4. CASE FoundSolution \/ PopEmpty
  BY <1>4 DEF FoundSolution, PopEmpty, Stop, ShapeInv
<1>5. CASE RestoreStart
  BY <1>5, StateFacts, PreprocessedShape DEF RestoreStart, ShapeInv
<1>6. CASE \E f \in F, p \in Phase : DissolveReluOnVar(f, p)
  BY <1>6, InvTyped, DissolveKeepsShape
<1>7. CASE PopFlip
  BY <1>7, InvTyped, FlipKeepsShape
<1>8. CASE PopDiscard
  BY <1>8, InvTyped, DiscardKeepsShape
<1>9. CASE Terminated \/ UNCHANGED vars
  BY <1>9 DEF Terminated, vars, ShapeInv
<1>10. QED
  BY <1>1, <1>2, <1>3, <1>4, <1>5, <1>6, <1>7, <1>8, <1>9 DEF Next

-----------------------------------------------------------------------------
(***************************************************************************)
(* No solution follows the first k decisions.                              *)
(***************************************************************************)
Refuted(k) == \A s \in solutions : ~Agrees(s, k)

\* The opposite of the i-th decision has been tried and failed.
SiblingRefuted(i) ==
  \A s \in solutions :
    ~(Agrees(s, i - 1) /\ Fits(s, stack[i].var, Opposite(stack[i].type)))

LEMMA AgreesOnPrefix ==
  ASSUME NEW s, NEW k \in Nat,
         \A i \in 1..k : stack'[i].var = stack[i].var /\ stack'[i].type = stack[i].type
  PROVE  Agrees(s, k)' <=> Agrees(s, k)
BY DEF Agrees, Fits

(***************************************************************************)
(* A contradiction between justified bounds refutes the decisions up to    *)
(* the later of their levels.                                              *)
(***************************************************************************)
LEMMA ContradictionRefutes ==
  ASSUME BoundsInv, NEW o, Contradiction(o),
         Good(solutions, stack, o.state, Len(stack))
  PROVE  o.conflict \in 0..Len(stack) /\ Refuted(o.conflict)
<1>1. PICK z \in Var : /\ ~BoundInvariantHolds(o.state, z)
                       /\ o.conflict = ViolatingLevel(o.state, z)
  BY DEF Contradiction
<1> DEFINE lo == o.state.lower[z]
           up == o.state.upper[z]
           k == o.conflict
<1>2. /\ lo.val \in Int /\ up.val \in Int /\ lo.val > up.val
      /\ lo.level \in Nat /\ up.level \in Nat
      /\ lo.level <= Len(stack) /\ up.level <= Len(stack)
  BY <1>1 DEF Good, JustifiedBy, State, Bound, BoundInvariantHolds
<1>3. k \in 0..Len(stack) /\ lo.level <= k /\ up.level <= k
  BY <1>1, <1>2, StateFacts DEF ViolatingLevel
<1>4. ASSUME NEW s \in solutions, Agrees(s, k)
      PROVE  FALSE
  <2>1. s \in FollowersOf(solutions, stack)[k]
    BY <1>3, <1>4 DEF Agrees, FollowersOf
  <2>2. Obeys(s, o.state, k)
    BY <1>3, <2>1, StateFacts, FollowersObey
  <2>3. lo.val <= s[z] /\ s[z] <= up.val
    BY <1>3, <2>2 DEF Obeys
  <2>4. s[z] \in Int
    <3>1. s \in [Var -> Values] /\ Values \subseteq Int
      BY BoundsAssumption DEF BoundsInv, TypeOK, Assignments
    <3>2. QED
      BY <3>1
  <2>5. QED
    BY <1>2, <2>3, <2>4
<1>5. QED
  BY <1>3, <1>4 DEF Refuted

(***************************************************************************)
(* The invariant behind UNSAT.  The second branch of a decision is only    *)
(* taken when no solution is left in the first; a pop, whatever level it   *)
(* has been given, has a refuted prefix of the stack within that level.    *)
(***************************************************************************)
RefuteInv ==
  /\ currentStackDepth = Len(stack)
  /\ \A i \in 1..Len(stack) : ~stack[i].first => SiblingRefuted(i)
  /\ pc = "popping" => \E k \in 0..Len(stack) : k <= violatingLevel /\ Refuted(k)
  /\ status = "UNSAT" => solutions = {}

LEMMA NothingAgreesWithNone ==
  ASSUME Refuted(0)
  PROVE  solutions = {}
BY DEF Refuted, Agrees

(***************************************************************************)
(* Whatever starts a pop refutes the decisions up to the level it reports. *)
(***************************************************************************)
LEMMA PopStartsJustified ==
  ASSUME Typed, RefuteInv, NEW k \in 0..Len(stack), Refuted(k), StartPop(k),
         UNCHANGED <<solutions, stack, currentStackDepth>>
  PROVE  RefuteInv'
<1>1. \A s : \A i \in Nat : Agrees(s, i)' <=> Agrees(s, i)
  BY DEF Agrees, Fits
<1>2. \A i : SiblingRefuted(i)' <=> SiblingRefuted(i)
  BY DEF SiblingRefuted, Agrees, Fits
<1>3. Refuted(k)' /\ k \in Nat /\ Len(stack) \in Nat
  BY <1>1, TypedFacts DEF Refuted
<1>4. CASE UseConflictAnalysis /\ k = 0
  <2>1. solutions' = {} /\ pc' = "done"
    BY <1>4, NothingAgreesWithNone DEF StartPop, Stop
  <2>2. QED
    BY <1>2, <2>1 DEF RefuteInv
<1>5. CASE ~(UseConflictAnalysis /\ k = 0)
  <2>1. k <= violatingLevel' /\ k \in 0..Len(stack') /\ UNCHANGED status
    BY <1>3, <1>5 DEF StartPop
  <2>2. QED
    BY <1>2, <1>3, <2>1 DEF RefuteInv
<1>6. QED
  BY <1>4, <1>5

LEMMA RefuteUnchanged ==
  ASSUME RefuteInv, pc' # "popping" \/ UNCHANGED <<pc, violatingLevel>>,
         UNCHANGED <<solutions, stack, currentStackDepth>>,
         status' # "UNSAT" \/ UNCHANGED status
  PROVE  RefuteInv'
<1>1. \A i : SiblingRefuted(i)' <=> SiblingRefuted(i)
  BY DEF SiblingRefuted, Agrees, Fits
<1>2. \A k : Refuted(k)' <=> Refuted(k)
  BY DEF Refuted, Agrees, Fits
<1>3. QED
  BY <1>1, <1>2 DEF RefuteInv

LEMMA AppliedRefutes ==
  ASSUME BoundsInv, BoundsInv', RefuteInv, NEW o, NEW next, next # "popping",
         Applied(o, next)
  PROVE  RefuteInv'
<1>1. UNCHANGED <<solutions, stack, currentStackDepth>> /\ current' = o.state
  BY DEF Applied, Apply
<1>2. CASE o.conflict = NoConflict
  <2>1. pc' = next /\ UNCHANGED status
    BY <1>2 DEF Applied, Apply
  <2>2. QED
    BY <1>1, <2>1, RefuteUnchanged
<1>3. CASE o.conflict # NoConflict
  <2>1. Contradiction(o) /\ StartPop(o.conflict)
    BY <1>3 DEF Applied, Apply, ShapeSoFar
  <2>2. Good(solutions, stack, o.state, Len(stack))
    BY <1>1 DEF BoundsInv
  <2>3. o.conflict \in 0..Len(stack) /\ Refuted(o.conflict)
    BY <2>1, <2>2, ContradictionRefutes
  <2>4. QED
    BY <1>1, <2>1, <2>3, InvTyped, PopStartsJustified
<1>4. QED
  BY <1>2, <1>3

(***************************************************************************)
(* The LP solver's verdict refutes all decisions in force.                 *)
(***************************************************************************)
LEMMA LpRefutes ==
  ASSUME BoundsInv, RefuteInv, NoSolutionExists
  PROVE  RefuteInv'
<1>1. Len(stack) \in Nat /\ Len(stack) \in 0..Len(stack)
  BY StateFacts
<1>2. ASSUME NEW s \in solutions, Agrees(s, Len(stack))
      PROVE  FALSE
  <2>1. s \in FollowersOf(solutions, stack)[Len(stack)]
    BY <1>1, <1>2 DEF Agrees, FollowersOf
  <2>2. Obeys(s, current, Len(stack))
    BY <1>1, <2>1, FollowersObey DEF BoundsInv
  <2>3. QED
    BY <2>2 DEF NoSolutionExists
<1>3. Refuted(Len(stack))
  BY <1>2 DEF Refuted
<1>4. StartPop(Len(stack)) /\ UNCHANGED <<solutions, stack, currentStackDepth>>
  BY DEF NoSolutionExists, RefuteInv
<1>5. QED
  BY <1>1, <1>3, <1>4, InvTyped, PopStartsJustified

LEMMA DissolveRefutes ==
  ASSUME Typed, ShapeInv, RefuteInv,
         NEW f \in F, NEW p \in Phase, DissolveReluOnVar(f, p)
  PROVE  RefuteInv'
<1> DEFINE e == [var |-> f, type |-> p, first |-> TRUE, saved |-> current]
<1>1. PICK n \in Nat : n = Len(stack)
  BY TypedFacts
<1>2. /\ stack' = Append(stack, e) /\ currentStackDepth' = Len(stack')
      /\ pc' = "loop" /\ UNCHANGED <<solutions, status>>
  BY DissolveKeepsShape
<1>3. /\ Len(stack') = n + 1
      /\ stack'[n + 1] = e /\ \A i \in 1..n : stack'[i] = stack[i]
  BY <1>1, <1>2, TypedFacts
<1>4. ASSUME NEW i \in 1..n + 1, ~stack'[i].first
      PROVE  SiblingRefuted(i)'
  <2>1. i \in 1..n /\ i - 1 \in Nat
    BY <1>3, <1>4
  <2>2. SiblingRefuted(i)
    BY <1>1, <1>3, <1>4, <2>1 DEF RefuteInv
  <2>3. \A s : Agrees(s, i - 1)' <=> Agrees(s, i - 1)
    <3>1. \A j \in 1..i - 1 : j \in 1..n
      BY <2>1
    <3>2. QED
      BY <1>3, <2>1, <3>1, AgreesOnPrefix
  <2>4. QED
    BY <1>2, <1>3, <2>1, <2>2, <2>3 DEF SiblingRefuted, Fits
<1> HIDE DEF e
<1>5. QED
  BY <1>2, <1>3, <1>4 DEF RefuteInv

(***************************************************************************)
(* A pop that goes on after a flip is at a level above the refuted prefix; *)
(* one that ends leaves nothing to show.                                   *)
(***************************************************************************)
LEMMA FlipRefutes ==
  ASSUME Typed, ShapeInv, RefuteInv, PopFlip
  PROVE  RefuteInv'
<1>1. PICK n \in Nat : n = Len(stack)
  BY TypedFacts
<1>2. stack \in Seq(Entry) /\ stack # <<>>
  BY TypedFacts DEF PopFlip
<1>3. /\ n \in 1..n /\ n - 1 \in Nat /\ Top = stack[n] /\ stack[n] \in Entry
  BY <1>1, <1>2, EmptySeq, ElementOfSeq DEF Top
<1> DEFINE e == [var |-> Top.var, type |-> Opposite(Top.type), first |-> FALSE,
                 saved |-> Top.saved]
<1>4. e \in Entry
  BY <1>3 DEF Entry, Opposite, Phase
<1>5. /\ pc = "popping" /\ stack' = [stack EXCEPT ![n] = e]
      /\ UNCHANGED <<solutions, currentStackDepth, violatingLevel>>
  BY <1>1 DEF PopFlip
<1>6. /\ pc' = IF n > violatingLevel THEN "popping" ELSE "loop"
      /\ UNCHANGED status
  BY <1>1, FlipKeepsShape
<1>7. stack'[n] = e /\ Len(stack') = n /\ \A i \in 1..n : i # n => stack'[i] = stack[i]
  <2> HIDE DEF e
  <2>1. stack \in [1..n -> Entry]
    BY <1>1, <1>2
  <2>2. stack' \in [1..n -> Entry]
    BY <1>4, <1>5, <2>1
  <2>3. QED
    BY <1>1, <1>2, <1>3, <1>5, <2>1, <2>2
<1>8. PICK k \in 0..n : k <= violatingLevel /\ Refuted(k)
  BY <1>1, <1>5 DEF RefuteInv
<1>9. ASSUME NEW s, NEW i \in 1..n, NEW j \in 0..i - 1
      PROVE  Agrees(s, j)' <=> Agrees(s, j)
  <2>1. \A m \in 1..j : m \in 1..n /\ m # n
    BY <1>3
  <2>2. j \in Nat
    OBVIOUS
  <2>3. QED
    BY <1>7, <2>1, <2>2, AgreesOnPrefix
<1>10. ASSUME NEW i \in 1..n, ~stack'[i].first
       PROVE  SiblingRefuted(i)'
  <2>1. i - 1 \in 0..i - 1
    OBVIOUS
  <2>2. \A s : Agrees(s, i - 1)' <=> Agrees(s, i - 1)
    BY <1>9, <2>1
  <2>3. CASE i = n
    <3>1. stack'[i].var = stack[n].var /\ Opposite(stack'[i].type) = stack[n].type
      BY <1>3, <1>7, <2>3 DEF Entry, Phase, Opposite
    <3>2. ASSUME NEW s \in solutions, Agrees(s, n - 1), Fits(s, stack[n].var, stack[n].type)
          PROVE  FALSE
      <4>1. \A j \in 1..n : j \in 1..n - 1 \/ j = n
        BY <1>3
      <4>2. Agrees(s, n)
        BY <3>2, <4>1 DEF Agrees
      <4>3. Agrees(s, k)
        <5>1. \A j \in 1..k : j \in 1..n
          OBVIOUS
        <5>2. QED
          BY <4>2, <5>1 DEF Agrees
      <4>4. QED
        BY <1>8, <4>3 DEF Refuted
    <3>3. QED
      BY <1>5, <2>2, <2>3, <3>1, <3>2 DEF SiblingRefuted, Fits
  <2>4. CASE i # n
    <3>1. stack'[i] = stack[i] /\ SiblingRefuted(i)
      BY <1>1, <1>7, <1>10, <2>4 DEF RefuteInv
    <3>2. QED
      BY <1>5, <2>2, <3>1 DEF SiblingRefuted, Fits
  <2>5. QED
    BY <2>3, <2>4
<1>11. ASSUME pc' = "popping"
       PROVE  k <= violatingLevel' /\ Refuted(k)'
  <2>1. k \in 0..n - 1 /\ violatingLevel \in Nat
    BY <1>6, <1>8, <1>11 DEF Typed
  <2>2. QED
    BY <1>3, <1>5, <1>8, <1>9, <2>1 DEF Refuted
<1> HIDE DEF e
<1>12. QED
  BY <1>1, <1>5, <1>6, <1>7, <1>10, <1>11 DEF RefuteInv

(***************************************************************************)
(* A discarded decision had no solution left on either side, so the prefix *)
(* below it is refuted whenever the one with it is.                        *)
(***************************************************************************)
LEMMA DiscardRefutes ==
  ASSUME Typed, RefuteInv, PopDiscard
  PROVE  RefuteInv'
<1>1. PICK n \in Nat : n = Len(stack)
  BY TypedFacts
<1>2. stack \in Seq(Entry) /\ stack # <<>>
  BY TypedFacts DEF PopDiscard
<1>3. /\ n \in 1..n /\ n - 1 \in Nat /\ Top = stack[n] /\ stack[n] \in Entry
  BY <1>1, <1>2, EmptySeq, ElementOfSeq DEF Top
<1>4. /\ pc = "popping" /\ ~stack[n].first /\ stack' = SubSeq(stack, 1, n - 1)
      /\ currentStackDepth' = n - 1
      /\ UNCHANGED <<solutions, pc, violatingLevel, status>>
  BY <1>1, <1>3 DEF PopDiscard
<1>5. Len(stack') = n - 1 /\ \A i \in 1..n - 1 : stack'[i] = stack[i]
  BY <1>1, <1>2, <1>3, <1>4, SubSeqProperties
<1>6. PICK k \in 0..n : k <= violatingLevel /\ Refuted(k)
  BY <1>1, <1>4 DEF RefuteInv
<1>7. ASSUME NEW s, NEW j \in 0..n - 1
      PROVE  Agrees(s, j)' <=> Agrees(s, j)
  <2>1. \A m \in 1..j : m \in 1..n - 1
    BY <1>3
  <2>2. j \in Nat
    OBVIOUS
  <2>3. QED
    BY <1>5, <2>1, <2>2, AgreesOnPrefix
<1>8. ASSUME NEW i \in 1..n - 1, ~stack'[i].first
      PROVE  SiblingRefuted(i)'
  <2>1. i \in 1..n /\ i - 1 \in 0..n - 1 /\ stack'[i] = stack[i]
    BY <1>3, <1>5
  <2>2. SiblingRefuted(i)
    BY <1>1, <1>8, <2>1 DEF RefuteInv
  <2>3. QED
    BY <1>4, <1>7, <2>1, <2>2 DEF SiblingRefuted, Fits
<1>9. \E j \in 0..n - 1 : j <= violatingLevel /\ Refuted(j)
  <2>1. CASE k # n
    BY <1>6, <2>1
  <2>2. CASE k = n
    <3>1. ASSUME NEW s \in solutions, Agrees(s, n - 1)
          PROVE  FALSE
      <4>1. Fits(s, stack[n].var, stack[n].type)
              \/ Fits(s, stack[n].var, Opposite(stack[n].type))
        <5>1. s[B[stack[n].var]] \in Int
          <6>1. s \in [Var -> Values] /\ Values \subseteq Int
            BY <3>1, BoundsAssumption DEF Typed, Assignments
          <6>2. stack[n].var \in F
            BY <1>3 DEF Entry
          <6>3. QED
            BY <6>1, <6>2, PairFacts
        <5>2. QED
          BY <1>3, <5>1 DEF Fits, Opposite, Entry, Phase
      <4>2. ~Fits(s, stack[n].var, Opposite(stack[n].type))
        BY <1>1, <1>3, <1>4, <3>1 DEF RefuteInv, SiblingRefuted
      <4>3. \A j \in 1..n : j \in 1..n - 1 \/ j = n
        BY <1>3
      <4>4. Agrees(s, n)
        BY <3>1, <4>1, <4>2, <4>3 DEF Agrees
      <4>5. QED
        BY <1>6, <2>2, <4>4 DEF Refuted
    <3>2. n - 1 \in 0..n - 1 /\ n - 1 <= violatingLevel
      BY <1>3, <1>6, <2>2 DEF Typed
    <3>3. QED
      BY <3>1, <3>2 DEF Refuted
  <2>3. QED
    BY <2>1, <2>2
<1>10. \E j \in 0..n - 1 : j <= violatingLevel' /\ Refuted(j)'
  BY <1>4, <1>7, <1>9 DEF Refuted
<1>11. QED
  BY <1>4, <1>5, <1>8, <1>10 DEF RefuteInv

LEMMA EmptyRefutes ==
  ASSUME RefuteInv, PopEmpty
  PROVE  RefuteInv'
<1>1. Refuted(0)
  <2>1. Len(stack) = 0 /\ pc = "popping"
    BY DEF PopEmpty
  <2>2. QED
    BY <2>1 DEF RefuteInv
<1>2. solutions' = {} /\ pc' = "done" /\ stack' = <<>> /\ Len(stack') = 0
      /\ UNCHANGED <<stack, currentStackDepth>>
  BY <1>1, NothingAgreesWithNone DEF PopEmpty, Stop
<1>3. QED
  BY <1>2 DEF RefuteInv

LEMMA RefuteInitially == Init => RefuteInv
<1> SUFFICES ASSUME Init
             PROVE  RefuteInv
  OBVIOUS
<1>1. Len(stack) = 0 /\ currentStackDepth = 0 /\ pc = "loop" /\ status = "NONE"
  BY DEF Init
<1>2. QED
  BY <1>1 DEF RefuteInv

LEMMA RefuteKept ==
  BoundsInv /\ BoundsInv' /\ ShapeInv /\ RefuteInv /\ [Next]_vars => RefuteInv'
<1> SUFFICES ASSUME BoundsInv, BoundsInv', ShapeInv, RefuteInv, [Next]_vars
             PROVE  RefuteInv'
  OBVIOUS
<1>1. CASE Tighten \/ RestoreVariable
  <2>1. PICK o, next : Applied(o, next)
    BY <1>1, UpdatesApplied
  <2>2. QED
    BY <2>1, AppliedRefutes DEF Applied
<1>2. CASE SolveLp \/ DoneLearning \/ RestoreStart \/ RestoreDone
  BY <1>2, RefuteUnchanged DEF SolveLp, DoneLearning, RestoreStart, RestoreDone
<1>3. CASE NoSolutionExists
  BY <1>3, LpRefutes
<1>4. CASE FoundSolution
  BY <1>4, RefuteUnchanged DEF FoundSolution, Stop
<1>5. CASE \E f \in F, p \in Phase : DissolveReluOnVar(f, p)
  BY <1>5, InvTyped, DissolveRefutes
<1>6. CASE PopFlip
  BY <1>6, InvTyped, FlipRefutes
<1>7. CASE PopDiscard
  BY <1>7, InvTyped, DiscardRefutes
<1>8. CASE PopEmpty
  BY <1>8, EmptyRefutes
<1>9. CASE Terminated \/ UNCHANGED vars
  BY <1>9, RefuteUnchanged DEF Terminated, vars
<1>10. QED
  BY <1>1, <1>2, <1>3, <1>4, <1>5, <1>6, <1>7, <1>8, <1>9 DEF Next

-----------------------------------------------------------------------------
(***************************************************************************)
(* What the shape says about an assignment the main loop accepts.          *)
(***************************************************************************)
LEMMA ShapeAccepts ==
  ASSUME Typed, ShapeInv
  PROVE  AcceptedSound
<1> SUFFICES ASSUME pc = "loop", NEW s \in Assignments, Accepted(s)
             PROVE  IsSolution(s, preprocessed)
  BY DEF AcceptedSound
<1>1. Shape(current, preprocessed) /\ current \in State /\ preprocessed \in State
  BY TypedFacts DEF ShapeInv
<1>2. ASSUME NEW x \in Var
      PROVE  /\ s[x] \in Int
             /\ current.lower[x].val \in Int /\ current.upper[x].val \in Int
             /\ preprocessed.lower[x].val \in Int
             /\ preprocessed.upper[x].val \in Int
  <2>1. s \in [Var -> Values] /\ Values \subseteq Int
    BY BoundsAssumption DEF Assignments
  <2>2. QED
    BY <1>1, <2>1 DEF State, Bound
<1>3. ASSUME NEW x \in Var, Seen(current, x)
      PROVE  /\ current.lower[x].val <= s[x] /\ s[x] <= current.upper[x].val
             /\ preprocessed.lower[x].val <= s[x]
             /\ s[x] <= preprocessed.upper[x].val
  <2>1. current.lower[x].val <= s[x] /\ s[x] <= current.upper[x].val
    BY <1>3, SeenIsNotMerged DEF Accepted
  <2>2. /\ preprocessed.lower[x].val <= current.lower[x].val
        /\ current.upper[x].val <= preprocessed.upper[x].val
    BY <1>1, <1>3 DEF Shape
  <2>3. QED
    BY <1>2, <2>1, <2>2
<1>4. ASSUME NEW f \in F
      PROVE  /\ f \in Var /\ B[f] \in Var
             /\ Seen(current, f)
             /\ current.dissolved[f] # "MERGE" => Seen(current, B[f])
             /\ PairShape(current, preprocessed, f)
             /\ current.dissolved[f] \in {"SPLIT", "MERGE", Active}
  <2>1. f \in Var /\ B[f] \in Var /\ \A g \in F : f # B[g]
    BY PairFacts
  <2>2. \A g \in F : B[f] = B[g] => g = f
    BY BoundsAssumption
  <2>3. current.dissolved[f] \in {"SPLIT", "MERGE", Active}
    BY <1>1 DEF State, Phase
  <2>4. QED
    BY <1>1, <2>1, <2>2, <2>3 DEF Seen, Shape
<1>5. ASSUME NEW x \in Var
      PROVE  preprocessed.lower[x].val <= s[x] /\ s[x] <= preprocessed.upper[x].val
  <2>1. CASE Seen(current, x)
    BY <1>3, <2>1
  <2>2. CASE ~Seen(current, x)
    <3>1. PICK f \in F : x = B[f] /\ current.dissolved[f] = "MERGE"
      BY <2>2 DEF Seen
    <3>2. s[x] = s[f]
      BY <3>1 DEF Accepted
    <3>3. /\ preprocessed.lower[x].val <= current.lower[f].val
          /\ current.upper[f].val <= preprocessed.upper[x].val
      BY <1>4, <3>1 DEF PairShape
    <3>4. current.lower[f].val <= s[f] /\ s[f] <= current.upper[f].val
      BY <1>3, <1>4
    <3>5. QED
      BY <1>2, <1>4, <3>2, <3>3, <3>4
  <2>3. QED
    BY <2>1, <2>2
<1>6. ASSUME NEW f \in F
      PROVE  ReluHolds(s, f)
  <2>1. s[f] \in Int /\ s[B[f]] \in Int /\ s[f] >= 0
    <3>1. current.lower[f].val >= 0 /\ current.lower[f].val <= s[f]
      BY <1>3, <1>4 DEF PairShape
    <3>2. QED
      BY <1>2, <1>4, <3>1
  <2>2. CASE current.dissolved[f] = Active
    BY <2>2 DEF Accepted
  <2>3. CASE current.dissolved[f] = "SPLIT"
    <3>1. current.upper[f].val <= 0 /\ current.upper[B[f]].val <= 0
      BY <1>4, <2>3 DEF PairShape
    <3>2. s[f] <= current.upper[f].val /\ s[B[f]] <= current.upper[B[f]].val
      BY <1>3, <1>4, <2>3
    <3>3. s[f] = 0 /\ s[B[f]] <= 0
      BY <1>2, <1>4, <2>1, <3>1, <3>2
    <3>4. QED
      BY <2>1, <3>3 DEF ReluHolds
  <2>4. CASE current.dissolved[f] = "MERGE"
    <3>1. s[B[f]] = s[f]
      BY <2>4 DEF Accepted
    <3>2. QED
      BY <2>1, <3>1 DEF ReluHolds
  <2>5. QED
    BY <1>4, <2>2, <2>3, <2>4
<1>7. QED
  BY <1>5, <1>6 DEF IsSolution

(***************************************************************************)
(* Updates of learned bounds, decisions, flips and restorations all keep   *)
(* the shape of dissolved pairs.                                           *)
(***************************************************************************)
THEOREM ShapeInvariant == Spec => []ShapeInv
<1>1. QED
  BY BoundsInvariant, ShapeInitially, ShapeKept, PTL DEF Spec

(***************************************************************************)
(* Whatever is accepted in the main loop satisfies the query: progress()   *)
(* answers SAT without looking at dissolved pairs or merged b's.           *)
(***************************************************************************)
THEOREM AcceptedIsSolution == Spec => []AcceptedSound
<1>1. BoundsInv /\ ShapeInv => AcceptedSound
  BY InvTyped, ShapeAccepts
<1>2. QED
  BY <1>1, BoundsInvariant, ShapeInvariant, PTL

(***************************************************************************)
(* solve() answers UNSAT only when no solution exists, wherever the        *)
(* conflict came from and whether or not the level of it is used.          *)
(***************************************************************************)
THEOREM UnsatIsRight == Spec => []UnsatSound
<1>1. Spec => []RefuteInv
  BY BoundsInvariant, ShapeInvariant, RefuteInitially, RefuteKept, PTL DEF Spec
<1>2. RefuteInv => UnsatSound
  BY DEF RefuteInv, UnsatSound
<1>3. QED
  BY <1>1, <1>2, PTL

=============================================================================
