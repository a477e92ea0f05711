-------------------------- MODULE BoundsRefinement --------------------------
(***************************************************************************)
(* Proofs about the steps of Bounds.                                       *)
(*                                                                         *)
(* A restoration is exact: the bounds in force, asserted again from the    *)
(* preprocessed ones variable by variable, reproduce themselves, their     *)
(* levels and the dissolved pairs.  It rests on how bounds come to be: what*)
(* the order of assertions can reproduce is an invariant of all updates,   *)
(* and the order of the variables, b before f, is part of it.              *)
(*                                                                         *)
(* Learning never loosens a bound, and Bounds implements SmtCore: bounds   *)
(* dissolve pairs only in phases that the decisions imply, conflicts are   *)
(* reported at levels they refute, and a restoration meets no conflict and *)
(* is not visible.                                                         *)
(***************************************************************************)
EXTENDS BoundsProofs

-----------------------------------------------------------------------------
(***************************************************************************)
(* How the bounds of st relate to those of p that they came from.  A bound *)
(* has not changed, level included, unless it is tighter; this fails only  *)
(* for pairs dissolved since, where the merged f starts from what b had.   *)
(***************************************************************************)
LowerKept(st, p, x) ==
  st.lower[x].val > p.lower[x].val \/ st.lower[x] = p.lower[x]

UpperKept(st, p, x) ==
  st.upper[x].val < p.upper[x].val \/ st.upper[x] = p.upper[x]

PairTraced(st, p, f) ==
  /\ st.dissolved[f] = Active =>
       /\ st.lower[f] = p.lower[f] /\ st.upper[f] = st.upper[B[f]]
       /\ LowerKept(st, p, B[f]) /\ UpperKept(st, p, f) /\ UpperKept(st, p, B[f])
  /\ st.dissolved[f] = "SPLIT" => st.lower[f] = p.lower[f] /\ LowerKept(st, p, B[f])
  /\ st.dissolved[f] = "MERGE" =>
       /\ st.lower[B[f]].val >= 0 /\ UpperKept(st, p, f)
       /\ st.lower[f].val > st.lower[B[f]].val \/ st.lower[f] = st.lower[B[f]]

\* Variables whose updates have always been updates of one bound.
Plain(p, x) == \A f \in F : x = f \/ x = B[f] => p.dissolved[f] # Active

Traced(st, p) ==
  /\ \A x \in Var : Plain(p, x) => LowerKept(st, p, x) /\ UpperKept(st, p, x)
  /\ \A f \in F : /\ p.dissolved[f] # Active => st.dissolved[f] = p.dissolved[f]
                  /\ p.dissolved[f] = Active => PairTraced(st, p, f)

LEMMA NotPlain ==
  ASSUME NEW p, NEW x \in Var, ~Plain(p, x)
  PROVE  \E f \in F : /\ x = f \/ x = B[f]
                      /\ p.dissolved[f] = Active
                      /\ f \in Var /\ B[f] \in Var /\ f # B[f]
BY PairFacts DEF Plain

\* The pairs of two f's share no variable.
LEMMA PairsApart ==
  ASSUME NEW f \in F, NEW g \in F, f # g
  PROVE  f # B[g] /\ B[f] # g /\ B[f] # B[g]
BY PairFacts, BoundsAssumption

LEMMA TracedLower ==
  ASSUME NEW p \in State, NEW st, Shape(st, p), Traced(st, p),
         NEW x \in Var, Seen(st, x), NEW v \in Int, NEW l \in Nat,
         v > st.lower[x].val \/ (v >= 0 /\ ActiveReluVariable(st, x)),
         UpdateLowerBound(st, x, v, l).conflict = NoConflict
  PROVE  Traced(UpdateLowerBound(st, x, v, l).state, p)
<1>0. st \in State
  BY DEF Shape
<1>1. \A y \in Var : /\ st.lower[y].val \in Int /\ st.upper[y].val \in Int
                     /\ p.lower[y].val \in Int /\ p.upper[y].val \in Int
  BY <1>0 DEF State, Bound
<1>2. CASE ~ActiveReluVariable(st, x) \/ v < 0
  <2> DEFINE new == WithLower(st, {x}, v, l)
  <2>1. UpdateLowerBound(st, x, v, l) = Outcome(new, x, x)
    BY <1>2 DEF UpdateLowerBound
  <2>2. /\ new \in State /\ new.upper = st.upper /\ new.dissolved = st.dissolved
        /\ \A y \in Var : new.lower[y] = IF y \in {x} THEN [val |-> v, level |-> l]
                                         ELSE st.lower[y]
    BY <1>0, WithLowerState
  <2> HIDE DEF new
  <2>3. /\ new.lower[x].val = v /\ v > st.lower[x].val /\ v <= st.upper[x].val
        /\ \A y \in Var \ {x} : new.lower[y] = st.lower[y]
    <3>1. new.lower[x].val <= new.upper[x].val
      BY <2>1, <2>2, OutcomeConsistent
    <3>2. v > st.lower[x].val
      <4>1. CASE v >= 0 /\ ActiveReluVariable(st, x)
        BY <1>2, <4>1
      <4>2. QED
        BY <4>1
    <3>3. QED
      BY <2>2, <3>1, <3>2
  <2>4. ASSUME NEW y \in Var, Plain(p, y)
        PROVE  LowerKept(new, p, y) /\ UpperKept(new, p, y)
    <3>1. LowerKept(st, p, y) /\ UpperKept(st, p, y)
      BY <2>4 DEF Traced
    <3>2. QED
      BY <1>1, <2>2, <2>3, <3>1 DEF LowerKept, UpperKept
  <2>5. ASSUME NEW f \in F, p.dissolved[f] = Active
        PROVE  PairTraced(new, p, f)
    <3>1. f \in Var /\ B[f] \in Var /\ f # B[f]
      BY PairFacts
    <3>2. PairTraced(st, p, f) /\ PairShape(st, p, f)
      BY <2>5 DEF Traced, Shape
    <3>3. CASE x = f
      <4>1. st.dissolved[f] # Active /\ st.dissolved[f] # "SPLIT"
        <5>1. st.dissolved[f] = "SPLIT" => FALSE
          BY <1>1, <2>3, <3>1, <3>2, <3>3 DEF PairShape
        <5>2. st.dissolved[f] = Active => FALSE
          BY <1>1, <1>2, <2>3, <3>1, <3>2, <3>3, PairFacts DEF PairShape, ActiveReluVariable
        <5>3. QED
          BY <5>1, <5>2
      <4>2. new.lower[f].val = v /\ v > st.lower[f].val /\ new.lower[B[f]] = st.lower[B[f]]
        BY <2>3, <3>1, <3>3
      <4>3. QED
        BY <1>1, <2>2, <3>1, <3>2, <4>1, <4>2 DEF PairTraced, UpperKept
    <3>4. CASE x = B[f]
      <4>1. st.dissolved[f] # "MERGE"
        BY <3>4 DEF Seen
      <4>2. new.lower[f] = st.lower[f] /\ new.lower[x].val = v /\ v > st.lower[x].val
        BY <2>3, <3>1, <3>4
      <4>3. LowerKept(st, p, B[f]) => LowerKept(new, p, B[f])
        BY <1>1, <3>1, <3>4, <4>2 DEF LowerKept
      <4>4. QED
        BY <2>2, <3>2, <4>1, <4>2, <4>3 DEF PairTraced, UpperKept
    <3>5. CASE x # f /\ x # B[f]
      <4>1. new.lower[f] = st.lower[f] /\ new.lower[B[f]] = st.lower[B[f]]
        BY <2>3, <3>1, <3>5
      <4>2. QED
        BY <2>2, <3>2, <4>1 DEF PairTraced, UpperKept, LowerKept
    <3>6. QED
      BY <3>3, <3>4, <3>5
  <2>6. Traced(new, p)
    BY <2>2, <2>4, <2>5 DEF Traced
  <2>7. QED
    BY <2>1, <2>6, OutcomeState
<1>3. CASE ActiveReluVariable(st, x) /\ ~(v < 0)
  <2> DEFINE raised == WithLower(st, {x, Partner(x)}, v, l)
             o == Outcome(raised, x, Partner(x))
  <2>1. PICK f \in F : /\ PairOf(x) = f /\ st.dissolved[f] = Active
                       /\ \/ x = f /\ Partner(x) = B[f]
                          \/ x = B[f] /\ Partner(x) = f
    BY <1>3, ActivePair
  <2>2. f \in Var /\ B[f] \in Var /\ f # B[f] /\ "MERGE" \in Phase
    BY PairFacts DEF Phase
  <2>3. /\ raised \in State /\ raised.upper = st.upper
        /\ raised.dissolved = st.dissolved
        /\ \A y \in Var : raised.lower[y] = IF y \in {x, Partner(x)}
                                            THEN [val |-> v, level |-> l]
                                            ELSE st.lower[y]
    BY <1>0, WithLowerState
  <2>4. UpdateLowerBound(st, x, v, l)
          = IF o.conflict = NoConflict
            THEN [state |-> Dissolve(o.state, f, "MERGE"), conflict |-> NoConflict]
            ELSE o
    BY <1>3, <2>1 DEF UpdateLowerBound
  <2> HIDE DEF raised
  <2>5. o.state = raised
    BY OutcomeState
  <2> DEFINE new == Dissolve(raised, f, "MERGE")
  <2>6. UpdateLowerBound(st, x, v, l).state = new
    BY <2>4, <2>5
  <2>7. /\ new.lower = raised.lower /\ new.upper = st.upper
        /\ \A g \in F : new.dissolved[g] = IF g = f THEN "MERGE" ELSE st.dissolved[g]
    BY <2>2, <2>3, DissolveState
  <2> HIDE DEF new
  <2>8. /\ new.lower[f] = [val |-> v, level |-> l] /\ new.lower[B[f]] = new.lower[f]
        /\ \A y \in Var \ {f, B[f]} : new.lower[y] = st.lower[y]
    BY <2>1, <2>2, <2>3, <2>7
  <2>9. p.dissolved[f] = Active
    BY <2>1 DEF Traced
  <2>10. ASSUME NEW y \in Var, Plain(p, y)
         PROVE  LowerKept(new, p, y) /\ UpperKept(new, p, y)
    <3>1. LowerKept(st, p, y) /\ UpperKept(st, p, y)
      BY <2>10 DEF Traced
    <3>2. y # f /\ y # B[f]
      BY <2>9, <2>10 DEF Plain
    <3>3. QED
      BY <2>7, <2>8, <3>1, <3>2 DEF LowerKept, UpperKept
  <2>11. ASSUME NEW g \in F, p.dissolved[g] = Active
         PROVE  PairTraced(new, p, g)
    <3>1. g \in Var /\ B[g] \in Var /\ PairTraced(st, p, g)
      BY <2>11, PairFacts DEF Traced
    <3>2. CASE g = f
      <4>1. UpperKept(new, p, f)
        BY <2>1, <2>7, <3>1, <3>2 DEF PairTraced, UpperKept
      <4>2. new.lower[B[f]].val >= 0
        BY <1>3, <2>8
      <4>3. QED
        BY <2>7, <2>8, <3>2, <4>1, <4>2 DEF PairTraced, Active
    <3>3. CASE g # f
      <4>1. new.lower[g] = st.lower[g] /\ new.lower[B[g]] = st.lower[B[g]]
        BY <2>8, <3>1, <3>3, PairsApart
      <4>2. QED
        BY <2>7, <3>1, <3>3, <4>1 DEF PairTraced, LowerKept, UpperKept
    <3>4. QED
      BY <3>2, <3>3
  <2>12. \A g \in F : p.dissolved[g] # Active => new.dissolved[g] = p.dissolved[g]
    BY <2>7, <2>9 DEF Traced
  <2>13. QED
    BY <2>6, <2>10, <2>11, <2>12 DEF Traced
<1>4. QED
  BY <1>2, <1>3

LEMMA TracedUpper ==
  ASSUME NEW p \in State, NEW st, Shape(st, p), Traced(st, p),
         NEW x \in Var, NEW v \in Int, NEW l \in Nat, v < st.upper[x].val,
         UpdateUpperBound(st, x, v, l).conflict = NoConflict
  PROVE  Traced(UpdateUpperBound(st, x, v, l).state, p)
<1>0. st \in State
  BY DEF Shape
<1>1. \A y \in Var : /\ st.lower[y].val \in Int /\ st.upper[y].val \in Int
                     /\ p.lower[y].val \in Int /\ p.upper[y].val \in Int
  BY <1>0 DEF State, Bound
<1>2. CASE ~ActiveReluVariable(st, x) \/ (v < 0 /\ x \in F)
  <2> DEFINE new == WithUpper(st, {x}, v, l)
  <2>1. UpdateUpperBound(st, x, v, l) = Outcome(new, x, x)
    BY <1>2 DEF UpdateUpperBound
  <2>2. /\ new \in State /\ new.lower = st.lower /\ new.dissolved = st.dissolved
        /\ \A y \in Var : new.upper[y] = IF y \in {x} THEN [val |-> v, level |-> l]
                                         ELSE st.upper[y]
    BY <1>0, WithUpperState
  <2> HIDE DEF new
  <2>3. /\ new.upper[x].val = v /\ v >= st.lower[x].val
        /\ \A y \in Var \ {x} : new.upper[y] = st.upper[y]
    <3>1. new.lower[x].val <= new.upper[x].val
      BY <2>1, <2>2, OutcomeConsistent
    <3>2. QED
      BY <1>1, <2>2, <3>1
  <2>4. \A y \in Var : UpperKept(st, p, y) => UpperKept(new, p, y)
    BY <1>1, <2>2, <2>3 DEF UpperKept
  <2>5. ASSUME NEW f \in F, p.dissolved[f] = Active
        PROVE  PairTraced(new, p, f)
    <3>1. f \in Var /\ B[f] \in Var /\ f # B[f]
      BY PairFacts
    <3>2. PairTraced(st, p, f) /\ PairShape(st, p, f)
      BY <2>5 DEF Traced, Shape
    <3>3. CASE st.dissolved[f] = Active
      <4>1. x # f /\ x # B[f]
        BY <1>1, <1>2, <2>3, <3>1, <3>2, <3>3, PairFacts
           DEF PairShape, ActiveReluVariable, IsB
      <4>2. new.upper[f] = st.upper[f] /\ new.upper[B[f]] = st.upper[B[f]]
        BY <2>3, <3>1, <4>1
      <4>3. QED
        BY <2>2, <3>2, <3>3, <4>2 DEF PairTraced, LowerKept, UpperKept, Active
    <3>4. CASE st.dissolved[f] # Active
      BY <2>2, <2>4, <3>1, <3>2, <3>4 DEF PairTraced, LowerKept
    <3>5. QED
      BY <3>3, <3>4
  <2>6. Traced(new, p)
    BY <2>2, <2>4, <2>5 DEF Traced, LowerKept
  <2>7. QED
    BY <2>1, <2>6, OutcomeState
<1>3. CASE ActiveReluVariable(st, x) /\ ~(v < 0 /\ x \in F)
  <2>1. PICK f \in F : /\ PairOf(x) = f /\ st.dissolved[f] = Active
                       /\ \/ x = f /\ Partner(x) = B[f]
                          \/ x = B[f] /\ Partner(x) = f
    BY <1>3, ActivePair
  <2>2. f \in Var /\ B[f] \in Var /\ f # B[f] /\ "SPLIT" \in Phase
    BY PairFacts DEF Phase
  <2>3. /\ p.dissolved[f] = Active /\ PairTraced(st, p, f)
        /\ v < st.upper[f].val /\ v < st.upper[B[f]].val
    BY <2>1 DEF Traced, PairTraced
  <2>4. ASSUME NEW new, new.lower = st.lower,
               \A y \in Var \ {f, B[f]} : new.upper[y] = st.upper[y],
               \A g \in F \ {f} : new.dissolved[g] = st.dissolved[g],
               PairTraced(new, p, f)
        PROVE  Traced(new, p)
    <3>1. ASSUME NEW y \in Var, Plain(p, y)
          PROVE  LowerKept(new, p, y) /\ UpperKept(new, p, y)
      <4>1. LowerKept(st, p, y) /\ UpperKept(st, p, y)
        BY <3>1 DEF Traced
      <4>2. y # f /\ y # B[f]
        BY <2>3, <3>1 DEF Plain
      <4>3. QED
        BY <2>4, <4>1, <4>2 DEF LowerKept, UpperKept
    <3>2. ASSUME NEW g \in F, p.dissolved[g] = Active
          PROVE  PairTraced(new, p, g)
      <4>1. g \in Var /\ B[g] \in Var /\ PairTraced(st, p, g)
        BY <3>2, PairFacts DEF Traced
      <4>2. CASE g # f
        <5>1. new.upper[g] = st.upper[g] /\ new.upper[B[g]] = st.upper[B[g]]
          BY <2>4, <4>1, <4>2, PairsApart
        <5>2. new.dissolved[g] = st.dissolved[g]
          BY <2>4, <4>2
        <5>3. QED
          BY <2>4, <4>1, <5>1, <5>2 DEF PairTraced, LowerKept, UpperKept
      <4>3. QED
        BY <2>4, <4>2
    <3>3. \A g \in F : p.dissolved[g] # Active => new.dissolved[g] = p.dissolved[g]
      BY <2>3, <2>4 DEF Traced
    <3>4. QED
      BY <3>1, <3>2, <3>3 DEF Traced
  <2>5. CASE v > 0
    <3> DEFINE new == WithUpper(st, {x, Partner(x)}, v, l)
    <3>1. UpdateUpperBound(st, x, v, l).state = new
      BY <1>3, <2>5, OutcomeState DEF UpdateUpperBound
    <3>2. /\ new.lower = st.lower /\ new.dissolved = st.dissolved
          /\ \A y \in Var : new.upper[y] = IF y \in {x, Partner(x)}
                                           THEN [val |-> v, level |-> l]
                                           ELSE st.upper[y]
      BY <1>0, WithUpperState
    <3> HIDE DEF new
    <3>3. /\ new.upper[f] = [val |-> v, level |-> l] /\ new.upper[B[f]] = new.upper[f]
          /\ \A y \in Var \ {f, B[f]} : new.upper[y] = st.upper[y]
      BY <2>1, <2>2, <3>2
    <3>4. UpperKept(new, p, f) /\ UpperKept(new, p, B[f])
      BY <1>1, <2>1, <2>2, <2>3, <3>3 DEF UpperKept, PairTraced
    <3>5. PairTraced(new, p, f)
      BY <2>1, <2>3, <3>2, <3>3, <3>4 DEF PairTraced, LowerKept, Active
    <3>6. QED
      BY <2>4, <3>1, <3>2, <3>3, <3>5
  <2>6. CASE ~(v > 0)
    <3> DEFINE zero == WithUpper(st, {f}, 0, l)
               both == WithUpper(zero, {B[f]}, v, l)
               new == Dissolve(both, f, "SPLIT")
    <3>1. UpdateUpperBound(st, x, v, l).state = new
      BY <1>3, <2>1, <2>6, OutcomeState DEF UpdateUpperBound
    <3>2. /\ zero \in State /\ zero.lower = st.lower /\ zero.dissolved = st.dissolved
          /\ \A y \in Var : zero.upper[y] = IF y \in {f} THEN [val |-> 0, level |-> l]
                                            ELSE st.upper[y]
      BY <1>0, WithUpperState
    <3> HIDE DEF zero
    <3>3. /\ both \in State /\ both.lower = st.lower /\ both.dissolved = st.dissolved
          /\ \A y \in Var : both.upper[y] = IF y \in {B[f]} THEN [val |-> v, level |-> l]
                                            ELSE zero.upper[y]
      BY <3>2, WithUpperState
    <3> HIDE DEF both
    <3>4. /\ new.lower = st.lower /\ new.upper = both.upper
          /\ \A g \in F : new.dissolved[g] = IF g = f THEN "SPLIT" ELSE st.dissolved[g]
      BY <2>2, <3>3, DissolveState
    <3> HIDE DEF new
    <3>5. \A y \in Var \ {f, B[f]} : new.upper[y] = st.upper[y]
      BY <3>2, <3>3, <3>4
    <3>6. PairTraced(new, p, f)
      BY <2>1, <2>3, <3>4 DEF PairTraced, LowerKept, Active
    <3>7. QED
      BY <2>4, <3>1, <3>4, <3>5, <3>6
  <2>7. QED
    BY <2>5, <2>6
<1>4. QED
  BY <1>2, <1>3

LEMMA TracedDecision ==
  ASSUME NEW p \in State, NEW st, Shape(st, p), Traced(st, p),
         NEW f \in F, NEW phase \in Phase, NEW l \in Nat, st.dissolved[f] = Active
  PROVE  Traced(Decided(st, f, phase, l).state, p)
<1>1. f \in Var /\ 0 \in Int /\ PairOf(f) = f /\ \A g \in F : f # B[g]
  BY PairFacts
<1>2. ActiveReluVariable(st, f) /\ Seen(st, f) /\ 0 < st.upper[f].val
  BY <1>1 DEF ActiveReluVariable, Seen, Shape, PairShape
<1>3. Decided(st, f, phase, l).conflict = NoConflict
  BY DecisionShape
<1>4. CASE phase = "SPLIT"
  BY <1>1, <1>2, <1>3, <1>4, TracedUpper DEF Decided
<1>5. CASE phase = "MERGE"
  BY <1>1, <1>2, <1>3, <1>5, TracedLower DEF Decided
<1>6. QED
  BY <1>4, <1>5 DEF Phase

-----------------------------------------------------------------------------
(***************************************************************************)
(* One assertion without a conflict, from a state st to the state new.     *)
(***************************************************************************)
LEMMA BoundIsItsFields ==
  ASSUME NEW b \in Bound
  PROVE  [val |-> b.val, level |-> b.level] = b
BY DEF Bound

LEMMA LowerAsserted ==
  ASSUME backup \in State, NEW o, o.state \in State, NEW y \in Var,
         ~ActiveReluVariable(o.state, y) \/ backup.lower[y].val < 0,
         LowerKept(backup, o.state, y), ThenLower(o, y).conflict = NoConflict
  PROVE  /\ o.conflict = NoConflict
         /\ ThenLower(o, y).state \in State
         /\ ThenLower(o, y).state.upper = o.state.upper
         /\ ThenLower(o, y).state.dissolved = o.state.dissolved
         /\ ThenLower(o, y).state.lower[y] = backup.lower[y]
         /\ \A z \in Var \ {y} : ThenLower(o, y).state.lower[z] = o.state.lower[z]
<1> DEFINE v == backup.lower[y].val
           l == backup.lower[y].level
           new == WithLower(o.state, {y}, v, l)
<1>1. v \in Int /\ l \in Nat /\ backup.lower[y] \in Bound /\ o.state.lower[y].val \in Int
  BY DEF State, Bound
<1>2. o.conflict = NoConflict
  BY DEF ThenLower
<1>3. CASE v <= o.state.lower[y].val
  <2>1. ThenLower(o, y) = o
    BY <1>3 DEF ThenLower
  <2>2. backup.lower[y] = o.state.lower[y]
    BY <1>1, <1>3 DEF LowerKept
  <2>3. QED
    BY <1>2, <2>1, <2>2
<1>4. CASE ~(v <= o.state.lower[y].val)
  <2>1. ThenLower(o, y) = UpdateLowerBound(o.state, y, v, l)
    BY <1>2, <1>4 DEF ThenLower
  <2>2. UpdateLowerBound(o.state, y, v, l) = Outcome(new, y, y)
    BY DEF UpdateLowerBound
  <2>3. /\ new \in State /\ new.upper = o.state.upper
        /\ new.dissolved = o.state.dissolved
        /\ \A z \in Var : new.lower[z] = IF z \in {y} THEN [val |-> v, level |-> l]
                                          ELSE o.state.lower[z]
    <3> HIDE DEF v, l
    <3>1. QED
      BY <1>1, WithLowerState
  <2>4. [val |-> v, level |-> l] = backup.lower[y]
    BY <1>1, BoundIsItsFields
  <2> HIDE DEF new, v, l
  <2>5. QED
    BY <1>2, <2>1, <2>2, <2>3, <2>4, OutcomeState
<1>5. QED
  BY <1>3, <1>4

LEMMA UpperAsserted ==
  ASSUME backup \in State, NEW o, o.state \in State, NEW y \in Var,
         ~ActiveReluVariable(o.state, y),
         UpperKept(backup, o.state, y), ThenUpper(o, y).conflict = NoConflict
  PROVE  /\ o.conflict = NoConflict
         /\ ThenUpper(o, y).state \in State
         /\ ThenUpper(o, y).state.lower = o.state.lower
         /\ ThenUpper(o, y).state.dissolved = o.state.dissolved
         /\ ThenUpper(o, y).state.upper[y] = backup.upper[y]
         /\ \A z \in Var \ {y} : ThenUpper(o, y).state.upper[z] = o.state.upper[z]
<1> DEFINE v == backup.upper[y].val
           l == backup.upper[y].level
           new == WithUpper(o.state, {y}, v, l)
<1>1. v \in Int /\ l \in Nat /\ backup.upper[y] \in Bound /\ o.state.upper[y].val \in Int
  BY DEF State, Bound
<1>2. o.conflict = NoConflict
  BY DEF ThenUpper
<1>3. CASE v >= o.state.upper[y].val
  <2>1. ThenUpper(o, y) = o
    BY <1>3 DEF ThenUpper
  <2>2. backup.upper[y] = o.state.upper[y]
    BY <1>1, <1>3 DEF UpperKept
  <2>3. QED
    BY <1>2, <2>1, <2>2
<1>4. CASE ~(v >= o.state.upper[y].val)
  <2>1. ThenUpper(o, y) = UpdateUpperBound(o.state, y, v, l)
    BY <1>2, <1>4 DEF ThenUpper
  <2>2. UpdateUpperBound(o.state, y, v, l) = Outcome(new, y, y)
    BY DEF UpdateUpperBound
  <2>3. /\ new \in State /\ new.lower = o.state.lower
        /\ new.dissolved = o.state.dissolved
        /\ \A z \in Var : new.upper[z] = IF z \in {y} THEN [val |-> v, level |-> l]
                                          ELSE o.state.upper[z]
    <3> HIDE DEF v, l
    <3>1. QED
      BY <1>1, WithUpperState
  <2>4. [val |-> v, level |-> l] = backup.upper[y]
    BY <1>1, BoundIsItsFields
  <2> HIDE DEF new, v, l
  <2>5. QED
    BY <1>2, <2>1, <2>2, <2>3, <2>4, OutcomeState
<1>5. QED
  BY <1>3, <1>4

\* An active pair that stays active has one positive upper bound.
LEMMA PairUpperAsserted ==
  ASSUME backup \in State, NEW o, o.state \in State, NEW f \in F,
         o.state.dissolved[f] = Active, backup.upper[f].val > 0,
         backup.upper[B[f]] = backup.upper[f],
         UpperKept(backup, o.state, f), UpperKept(backup, o.state, B[f]),
         o.state.upper[B[f]].val = o.state.upper[f].val,
         ThenUpper(o, f).conflict = NoConflict
  PROVE  /\ o.conflict = NoConflict
         /\ ThenUpper(o, f).state \in State
         /\ ThenUpper(o, f).state.lower = o.state.lower
         /\ ThenUpper(o, f).state.dissolved = o.state.dissolved
         /\ ThenUpper(o, f).state.upper[f] = backup.upper[f]
         /\ ThenUpper(o, f).state.upper[B[f]] = backup.upper[B[f]]
         /\ \A z \in Var \ {f, B[f]} :
              ThenUpper(o, f).state.upper[z] = o.state.upper[z]
<1> DEFINE v == backup.upper[f].val
           l == backup.upper[f].level
           new == WithUpper(o.state, {f, B[f]}, v, l)
<1>1. f \in Var /\ B[f] \in Var /\ PairOf(f) = f /\ Partner(f) = B[f]
  BY PairFacts
<1>2. v \in Int /\ l \in Nat /\ backup.upper[f] \in Bound /\ o.state.upper[f].val \in Int
  BY <1>1 DEF State, Bound
<1>3. o.conflict = NoConflict
  BY DEF ThenUpper
<1>4. CASE v >= o.state.upper[f].val
  <2>1. ThenUpper(o, f) = o
    BY <1>4 DEF ThenUpper
  <2>2. backup.upper[f] = o.state.upper[f] /\ backup.upper[B[f]] = o.state.upper[B[f]]
    BY <1>1, <1>2, <1>4 DEF UpperKept
  <2>3. QED
    BY <1>3, <2>1, <2>2
<1>5. CASE ~(v >= o.state.upper[f].val)
  <2>1. ThenUpper(o, f) = UpdateUpperBound(o.state, f, v, l)
    BY <1>3, <1>5 DEF ThenUpper
  <2>2. UpdateUpperBound(o.state, f, v, l) = Outcome(new, f, B[f])
    BY <1>1, <1>2 DEF UpdateUpperBound, ActiveReluVariable
  <2>3. /\ new \in State /\ new.lower = o.state.lower
        /\ new.dissolved = o.state.dissolved
        /\ \A z \in Var : new.upper[z] = IF z \in {f, B[f]} THEN [val |-> v, level |-> l]
                                          ELSE o.state.upper[z]
    <3> HIDE DEF v, l
    <3>1. QED
      BY <1>2, WithUpperState
  <2>4. [val |-> v, level |-> l] = backup.upper[f]
    BY <1>2, BoundIsItsFields
  <2> HIDE DEF new, v, l
  <2>5. QED
    BY <1>1, <1>3, <2>1, <2>2, <2>3, <2>4, OutcomeState
<1>6. QED
  BY <1>4, <1>5

\* The bound of b that split the pair splits it again; f is at zero.
LEMMA SplitAsserted ==
  ASSUME backup \in State, NEW o, o.state \in State, NEW f \in F,
         o.state.dissolved[f] = Active, backup.upper[B[f]].val <= 0,
         o.state.upper[B[f]].val > 0,
         ThenUpper(o, B[f]).conflict = NoConflict
  PROVE  /\ o.conflict = NoConflict
         /\ ThenUpper(o, B[f]).state \in State
         /\ ThenUpper(o, B[f]).state.lower = o.state.lower
         /\ \A g \in F : ThenUpper(o, B[f]).state.dissolved[g]
              = IF g = f THEN "SPLIT" ELSE o.state.dissolved[g]
         /\ ThenUpper(o, B[f]).state.upper[f].val = 0
         /\ ThenUpper(o, B[f]).state.upper[B[f]] = backup.upper[B[f]]
         /\ \A z \in Var \ {f, B[f]} :
              ThenUpper(o, B[f]).state.upper[z] = o.state.upper[z]
<1> DEFINE v == backup.upper[B[f]].val
           l == backup.upper[B[f]].level
           none == 0
           zero == WithUpper(o.state, {f}, none, l)
           both == WithUpper(zero, {B[f]}, v, l)
           new == Dissolve(both, f, "SPLIT")
<1>1. /\ f \in Var /\ B[f] \in Var /\ B[f] \notin F /\ f # B[f]
      /\ PairOf(B[f]) = f /\ Partner(B[f]) = f /\ "SPLIT" \in Phase
      /\ none \in Int /\ none = 0
  BY PairFacts DEF Phase
<1>2. /\ v \in Int /\ l \in Nat /\ backup.upper[B[f]] \in Bound
      /\ o.state.upper[B[f]].val \in Int
  BY <1>1 DEF State, Bound
<1>3. o.conflict = NoConflict
  BY DEF ThenUpper
<1>4. ThenUpper(o, B[f]) = UpdateUpperBound(o.state, B[f], v, l)
  BY <1>2, <1>3 DEF ThenUpper
<1>5. UpdateUpperBound(o.state, B[f], v, l) = Outcome(new, B[f], f)
  BY <1>1, <1>2 DEF UpdateUpperBound, ActiveReluVariable, IsB
<1>6. [val |-> v, level |-> l] = backup.upper[B[f]]
  BY <1>2, BoundIsItsFields
<1> HIDE DEF v, l, none
<1>7. /\ zero \in State /\ zero.lower = o.state.lower
      /\ zero.dissolved = o.state.dissolved
      /\ \A z \in Var : zero.upper[z] = IF z \in {f} THEN [val |-> none, level |-> l]
                                         ELSE o.state.upper[z]
  BY <1>1, <1>2, WithUpperState DEF zero
<1> HIDE DEF zero
<1>8. /\ both \in State /\ both.lower = o.state.lower
      /\ both.dissolved = o.state.dissolved
      /\ \A z \in Var : both.upper[z] = IF z \in {B[f]} THEN [val |-> v, level |-> l]
                                         ELSE zero.upper[z]
  BY <1>2, <1>7, WithUpperState DEF both
<1> HIDE DEF both
<1>9. /\ new \in State /\ new.lower = o.state.lower /\ new.upper = both.upper
      /\ \A g \in F : new.dissolved[g]
           = IF g = f THEN "SPLIT" ELSE o.state.dissolved[g]
  BY <1>1, <1>8, DissolveState DEF new
<1> HIDE DEF new
<1>10. QED
  BY <1>1, <1>3, <1>4, <1>5, <1>6, <1>7, <1>8, <1>9, OutcomeState

\* The bound of b that merged the pair merges it again.
LEMMA MergeAsserted ==
  ASSUME backup \in State, NEW o, o.state \in State, NEW f \in F,
         o.state.dissolved[f] = Active, backup.lower[B[f]].val >= 0,
         o.state.lower[B[f]].val < 0,
         ThenLower(o, B[f]).conflict = NoConflict
  PROVE  /\ o.conflict = NoConflict
         /\ ThenLower(o, B[f]).state \in State
         /\ ThenLower(o, B[f]).state.upper = o.state.upper
         /\ \A g \in F : ThenLower(o, B[f]).state.dissolved[g]
              = IF g = f THEN "MERGE" ELSE o.state.dissolved[g]
         /\ ThenLower(o, B[f]).state.lower[f] = backup.lower[B[f]]
         /\ ThenLower(o, B[f]).state.lower[B[f]] = backup.lower[B[f]]
         /\ \A z \in Var \ {f, B[f]} :
              ThenLower(o, B[f]).state.lower[z] = o.state.lower[z]
<1> DEFINE v == backup.lower[B[f]].val
           l == backup.lower[B[f]].level
           raised == WithLower(o.state, {B[f], f}, v, l)
           q == Outcome(raised, B[f], f)
           new == Dissolve(raised, f, "MERGE")
<1>1. /\ f \in Var /\ B[f] \in Var /\ f # B[f]
      /\ PairOf(B[f]) = f /\ Partner(B[f]) = f /\ "MERGE" \in Phase
  BY PairFacts DEF Phase
<1>2. /\ v \in Int /\ l \in Nat /\ backup.lower[B[f]] \in Bound
      /\ o.state.lower[B[f]].val \in Int
  BY <1>1 DEF State, Bound
<1>3. o.conflict = NoConflict
  BY DEF ThenLower
<1>4. ThenLower(o, B[f]) = UpdateLowerBound(o.state, B[f], v, l)
  BY <1>2, <1>3 DEF ThenLower
<1>5. UpdateLowerBound(o.state, B[f], v, l)
        = IF q.conflict = NoConflict
          THEN [state |-> Dissolve(q.state, f, "MERGE"), conflict |-> NoConflict]
          ELSE q
  BY <1>1, <1>2 DEF UpdateLowerBound, ActiveReluVariable, IsB
<1>6. q.state = raised
  BY OutcomeState
<1> HIDE DEF q
<1>7. ThenLower(o, B[f]).state = new
  BY <1>4, <1>5, <1>6
<1>8. [val |-> v, level |-> l] = backup.lower[B[f]]
  BY <1>2, BoundIsItsFields
<1> HIDE DEF v, l
<1>9. /\ raised \in State /\ raised.upper = o.state.upper
      /\ raised.dissolved = o.state.dissolved
      /\ \A z \in Var : raised.lower[z] = IF z \in {B[f], f} THEN [val |-> v, level |-> l]
                                           ELSE o.state.lower[z]
  BY <1>2, WithLowerState DEF raised
<1> HIDE DEF raised
<1>10. /\ new \in State /\ new.lower = raised.lower /\ new.upper = raised.upper
       /\ \A g \in F : new.dissolved[g]
            = IF g = f THEN "MERGE" ELSE raised.dissolved[g]
  BY <1>1, <1>9, DissolveState DEF new
<1> HIDE DEF new
<1>11. QED
  BY <1>1, <1>3, <1>7, <1>8, <1>9, <1>10

-----------------------------------------------------------------------------
(***************************************************************************)
(* The progress of a restoration: variables below i have the bounds of the *)
(* backup, the others the preprocessed ones; a pair is brought back when   *)
(* its f is reached, both variables at once.                               *)
(***************************************************************************)
SameBounds(st, st0, x) == st.lower[x] = st0.lower[x] /\ st.upper[x] = st0.upper[x]

SamePair(st, st0, f) ==
  /\ st.dissolved[f] = st0.dissolved[f]
  /\ SameBounds(st, st0, f)
  /\ st.lower[B[f]] = st0.lower[B[f]]
  /\ st.dissolved[f] # "MERGE" => st.upper[B[f]] = st0.upper[B[f]]

Reproduced(st, i) ==
  /\ \A x \in Var : Plain(preprocessed, x) =>
       SameBounds(st, IF x < i THEN backup ELSE preprocessed, x)
  /\ \A f \in F :
       IF preprocessed.dissolved[f] = Active
       THEN SamePair(st, IF f < i THEN backup ELSE preprocessed, f)
       ELSE st.dissolved[f] = preprocessed.dissolved[f]

(***************************************************************************)
(* The next variable.  There are three cases: it is updated by itself, it  *)
(* is a b whose f comes later, or it is an f.                              *)
(***************************************************************************)
LEMMA PlainReproduced ==
  ASSUME preprocessed \in State, backup \in State, current \in State,
         Traced(backup, preprocessed),
         index \in Var, Reproduced(current, index),
         ~ActiveReluVariable(current, index),
         Reasserted(index).conflict = NoConflict
  PROVE  Reproduced(Reasserted(index).state, index + 1)
<1> DEFINE x == index
           o == [state |-> current, conflict |-> NoConflict]
           lo == ThenLower(o, x)
           up == ThenUpper(lo, x)
<1>1. Reasserted(x) = up
  BY DEF Reasserted
<1>2. Plain(preprocessed, x)
  <2> SUFFICES ASSUME ~Plain(preprocessed, x)
               PROVE  FALSE
    OBVIOUS
  <2>1. PICK f \in F : /\ x = f \/ x = B[f]
                       /\ preprocessed.dissolved[f] = Active
    BY NotPlain
  <2>2. ~(f < x) /\ PairOf(x) = f
    BY <2>1, PairFacts, BoundsAssumption DEF Var
  <2>3. current.dissolved[f] = Active
    BY <2>1, <2>2 DEF Reproduced, SamePair
  <2>4. QED
    BY <2>1, <2>2, <2>3 DEF ActiveReluVariable, IsB
<1>3. SameBounds(current, preprocessed, x)
  BY <1>2 DEF Reproduced, Var
<1>4. LowerKept(backup, current, x) /\ UpperKept(backup, current, x)
  BY <1>2, <1>3 DEF Traced, LowerKept, UpperKept, SameBounds
<1>5. /\ o.state = current /\ o.state \in State /\ up.conflict = NoConflict
      /\ lo.conflict = NoConflict
  BY <1>1 DEF ThenUpper
<1> HIDE DEF o
<1>6. /\ lo.state \in State /\ lo.state.upper = current.upper
      /\ lo.state.dissolved = current.dissolved
      /\ lo.state.lower[x] = backup.lower[x]
      /\ \A z \in Var \ {x} : lo.state.lower[z] = current.lower[z]
  BY <1>4, <1>5, LowerAsserted
<1> HIDE DEF lo
<1>7. /\ up.state.lower = lo.state.lower
      /\ up.state.dissolved = current.dissolved
      /\ up.state.upper[x] = backup.upper[x]
      /\ \A z \in Var \ {x} : up.state.upper[z] = current.upper[z]
  <2>1. ~ActiveReluVariable(lo.state, x)
    BY <1>6 DEF ActiveReluVariable
  <2>2. UpperKept(backup, lo.state, x)
    BY <1>4, <1>6 DEF UpperKept
  <2>3. QED
    BY <1>5, <1>6, <2>1, <2>2, UpperAsserted
<1> HIDE DEF up
<1> DEFINE st == up.state
<1>8. /\ st.dissolved = current.dissolved
      /\ SameBounds(st, backup, x)
      /\ \A z \in Var \ {x} : SameBounds(st, current, z)
  BY <1>6, <1>7 DEF SameBounds
<1> HIDE DEF st
<1>9. ASSUME NEW y \in Var, Plain(preprocessed, y)
      PROVE  SameBounds(st, IF y < x + 1 THEN backup ELSE preprocessed, y)
  <2>1. SameBounds(current, IF y < x THEN backup ELSE preprocessed, y)
    BY <1>9 DEF Reproduced
  <2>2. CASE y = x
    BY <1>8, <2>2 DEF Var
  <2>3. CASE y # x
    <3>1. y < x + 1 <=> y < x
      BY <2>3 DEF Var
    <3>2. QED
      BY <1>8, <2>1, <2>3, <3>1 DEF SameBounds
  <2>4. QED
    BY <2>2, <2>3
<1>10. ASSUME NEW f \in F, preprocessed.dissolved[f] = Active
       PROVE  SamePair(st, IF f < x + 1 THEN backup ELSE preprocessed, f)
  <2>1. f \in Var /\ B[f] \in Var /\ x # f /\ x # B[f]
    BY <1>2, <1>10, PairFacts DEF Plain
  <2>2. SamePair(current, IF f < x THEN backup ELSE preprocessed, f)
    BY <1>10 DEF Reproduced
  <2>3. f < x + 1 <=> f < x
    BY <2>1 DEF Var
  <2>4. QED
    BY <1>8, <2>1, <2>2, <2>3 DEF SamePair, SameBounds
<1>11. \A f \in F : preprocessed.dissolved[f] # Active
                      => st.dissolved[f] = preprocessed.dissolved[f]
  BY <1>8 DEF Reproduced
<1>12. Reproduced(st, x + 1)
  BY <1>9, <1>10, <1>11 DEF Reproduced
<1>13. QED
  BY <1>1, <1>12 DEF st

LEMMA PairReproduced ==
  ASSUME preprocessed \in State, backup \in State, current \in State,
         Shape(backup, preprocessed), Traced(backup, preprocessed),
         Shape(preprocessed, preprocessed),
         NEW f \in F, index = f, Reproduced(current, f),
         current.dissolved[f] = Active,
         Reasserted(f).conflict = NoConflict
  PROVE  Reproduced(Reasserted(f).state, f + 1)
<1> DEFINE o == [state |-> current, conflict |-> NoConflict]
           b == B[f]
<1>1. f \in Var /\ b \in Var /\ b # f /\ b \notin F /\ f \in Int /\ b < f
  BY PairFacts, BoundsAssumption DEF Var
<1>2. ActiveReluVariable(current, f)
  BY <1>1, PairFacts DEF ActiveReluVariable
<1>3. preprocessed.dissolved[f] = Active
  BY DEF Reproduced
<1>4. SamePair(current, preprocessed, f)
  <2>1. ~(f < f)
    BY <1>1
  <2>2. QED
    BY <1>3, <2>1 DEF Reproduced
<1>5. /\ current.lower[f] = preprocessed.lower[f]
      /\ current.lower[b] = preprocessed.lower[b]
      /\ current.upper[f] = preprocessed.upper[f]
      /\ current.upper[b] = preprocessed.upper[b]
  BY <1>4 DEF SamePair, SameBounds, Active
<1>6. /\ current.lower[b].val < 0 /\ current.upper[f].val > 0
      /\ current.upper[b].val = current.upper[f].val
      /\ current.lower[f].val = 0
  BY <1>3, <1>5 DEF Shape, PairShape
<1>7. PairTraced(backup, preprocessed, f) /\ PairShape(backup, preprocessed, f)
  BY <1>3 DEF Traced, Shape
<1>8. o.state = current /\ o.state \in State
  OBVIOUS
<1> HIDE DEF o, b
<1>9. ASSUME NEW st, st.dissolved[f] = backup.dissolved[f],
             \A g \in F \ {f} : st.dissolved[g] = current.dissolved[g],
             \A z \in Var \ {f, b} : SameBounds(st, current, z),
             SamePair(st, backup, f)
      PROVE  Reproduced(st, f + 1)
  <2>1. ASSUME NEW y \in Var, Plain(preprocessed, y)
        PROVE  SameBounds(st, IF y < f + 1 THEN backup ELSE preprocessed, y)
    <3>1. y # f /\ y # b
      BY <1>3, <2>1 DEF Plain, b
    <3>2. y < f + 1 <=> y < f
      BY <1>1, <3>1 DEF Var
    <3>3. SameBounds(current, IF y < f THEN backup ELSE preprocessed, y)
      BY <2>1 DEF Reproduced
    <3>4. QED
      BY <1>9, <3>1, <3>2, <3>3 DEF SameBounds
  <2>2. ASSUME NEW g \in F, preprocessed.dissolved[g] = Active
        PROVE  SamePair(st, IF g < f + 1 THEN backup ELSE preprocessed, g)
    <3>1. CASE g = f
      <4>1. g < f + 1
        BY <1>1, <3>1
      <4>2. QED
        BY <1>9, <3>1, <4>1
    <3>2. CASE g # f
      <4>1. g \in Var /\ B[g] \in Var /\ g \notin {f, b} /\ B[g] \notin {f, b}
        BY <3>2, PairFacts, PairsApart DEF b
      <4>2. g < f + 1 <=> g < f
        BY <1>1, <3>2, <4>1 DEF Var
      <4>3. SamePair(current, IF g < f THEN backup ELSE preprocessed, g)
        BY <2>2 DEF Reproduced
      <4>4. SameBounds(st, current, g) /\ SameBounds(st, current, B[g])
        BY <1>9, <4>1
      <4>5. QED
        BY <1>9, <3>2, <4>2, <4>3, <4>4 DEF SamePair, SameBounds
    <3>3. QED
      BY <3>1, <3>2
  <2>3. \A g \in F : preprocessed.dissolved[g] # Active
                       => st.dissolved[g] = preprocessed.dissolved[g]
    BY <1>3, <1>9 DEF Reproduced
  <2>4. QED
    BY <2>1, <2>2, <2>3 DEF Reproduced
<1>10. CASE backup.dissolved[f] = Active
  <2> DEFINE up == ThenUpper(o, f)
             lo == ThenLower(up, b)
  <2>1. Reasserted(f) = lo
    BY <1>2, <1>10 DEF Reasserted, o, b
  <2>2. lo.conflict = NoConflict /\ up.conflict = NoConflict
    BY <2>1 DEF ThenLower
  <2>3. /\ backup.upper[f].val > 0 /\ backup.upper[b] = backup.upper[f]
        /\ backup.lower[f] = current.lower[f] /\ backup.lower[b].val < 0
        /\ UpperKept(backup, current, f) /\ UpperKept(backup, current, b)
        /\ LowerKept(backup, current, b)
    BY <1>5, <1>7, <1>10 DEF PairShape, PairTraced, UpperKept, LowerKept, b
  <2>4. /\ up.state \in State /\ up.state.lower = current.lower
        /\ up.state.dissolved = current.dissolved
        /\ up.state.upper[f] = backup.upper[f] /\ up.state.upper[b] = backup.upper[b]
        /\ \A z \in Var \ {f, b} : up.state.upper[z] = current.upper[z]
    BY <1>6, <1>8, <2>2, <2>3, PairUpperAsserted DEF b
  <2> HIDE DEF up
  <2>5. LowerKept(backup, up.state, b)
    BY <2>3, <2>4 DEF LowerKept
  <2>6. /\ lo.state.upper = up.state.upper /\ lo.state.dissolved = current.dissolved
        /\ lo.state.lower[b] = backup.lower[b]
        /\ \A z \in Var \ {b} : lo.state.lower[z] = current.lower[z]
    BY <1>1, <2>2, <2>3, <2>4, <2>5, LowerAsserted
  <2> HIDE DEF lo
  <2>7. /\ lo.state.dissolved[f] = backup.dissolved[f]
        /\ \A z \in Var \ {f, b} : SameBounds(lo.state, current, z)
        /\ SamePair(lo.state, backup, f)
    BY <1>1, <1>10, <2>3, <2>4, <2>6 DEF SamePair, SameBounds, b
  <2>8. QED
    BY <1>9, <2>1, <2>6, <2>7
<1>11. CASE backup.dissolved[f] = "SPLIT"
  <2> DEFINE up == ThenUpper(o, b)
             lev == ThenUpperLevel(up, f)
             lo == ThenLower(lev, b)
  <2>1. Reasserted(f) = lo
    BY <1>2, <1>11 DEF Reasserted, o, b, Active
  <2>2. lo.conflict = NoConflict /\ lev.conflict = NoConflict /\ up.conflict = NoConflict
    BY <2>1 DEF ThenLower, ThenUpperLevel
  <2>3. /\ backup.upper[b].val <= 0 /\ backup.upper[f].val = 0
        /\ backup.lower[f] = current.lower[f] /\ LowerKept(backup, current, b)
    <3>1. /\ backup.upper[b].val <= 0 /\ backup.lower[f] = current.lower[f]
          /\ LowerKept(backup, current, b)
      BY <1>5, <1>7, <1>11 DEF PairShape, PairTraced, LowerKept, b
    <3>2. Seen(backup, f)
      BY <1>1, PairFacts DEF Seen
    <3>3. /\ backup.upper[f].val <= 0 /\ backup.lower[f].val >= 0
          /\ backup.lower[f].val <= backup.upper[f].val
      BY <1>1, <1>7, <1>11, <3>2 DEF PairShape, Shape
    <3>4. QED
      BY <1>1, <3>1, <3>3 DEF State, Bound
  <2>4. current.upper[b].val > 0
    BY <1>6
  <2>5. /\ up.state \in State /\ up.state.lower = current.lower
        /\ \A g \in F : up.state.dissolved[g]
             = IF g = f THEN "SPLIT" ELSE current.dissolved[g]
        /\ up.state.upper[f].val = 0 /\ up.state.upper[b] = backup.upper[b]
        /\ \A z \in Var \ {f, b} : up.state.upper[z] = current.upper[z]
    BY <1>8, <2>2, <2>3, <2>4, SplitAsserted DEF b
  <2> HIDE DEF up
  <2>6. /\ lev.state \in State /\ lev.state.lower = current.lower
        /\ lev.state.dissolved = up.state.dissolved
        /\ lev.state.upper[f] = backup.upper[f] /\ lev.state.upper[b] = backup.upper[b]
        /\ \A z \in Var \ {f, b} : lev.state.upper[z] = current.upper[z]
    <3>1. PICK v, l : v = up.state.upper[f].val /\ l = backup.upper[f].level
      OBVIOUS
    <3>2. v \in Int /\ l \in Nat /\ backup.upper[f] \in Bound /\ v = backup.upper[f].val
      BY <1>1, <2>3, <2>5, <3>1 DEF State, Bound
    <3>3. lev.state = WithUpper(up.state, {f}, v, l)
      BY <2>2, <3>1 DEF ThenUpperLevel
    <3>4. [val |-> v, level |-> l] = backup.upper[f]
      BY <3>1, <3>2, BoundIsItsFields
    <3>5. /\ lev.state \in State /\ lev.state.lower = up.state.lower
          /\ lev.state.dissolved = up.state.dissolved
          /\ \A z \in Var : lev.state.upper[z]
               = IF z \in {f} THEN [val |-> v, level |-> l] ELSE up.state.upper[z]
      BY <2>5, <3>2, <3>3, WithUpperState
    <3>6. QED
      BY <1>1, <2>5, <3>4, <3>5
  <2> HIDE DEF lev
  <2>7. ~ActiveReluVariable(lev.state, b) /\ LowerKept(backup, lev.state, b)
    BY <2>3, <2>5, <2>6, PairFacts DEF ActiveReluVariable, LowerKept, Active, b
  <2>8. /\ lo.state.upper = lev.state.upper /\ lo.state.dissolved = up.state.dissolved
        /\ lo.state.lower[b] = backup.lower[b]
        /\ \A z \in Var \ {b} : lo.state.lower[z] = current.lower[z]
    BY <1>1, <2>2, <2>6, <2>7, LowerAsserted
  <2> HIDE DEF lo
  <2>9. /\ lo.state.dissolved[f] = backup.dissolved[f]
        /\ \A g \in F \ {f} : lo.state.dissolved[g] = current.dissolved[g]
        /\ \A z \in Var \ {f, b} : SameBounds(lo.state, current, z)
        /\ SamePair(lo.state, backup, f)
    BY <1>1, <1>11, <2>3, <2>5, <2>6, <2>8 DEF SamePair, SameBounds, b
  <2>10. QED
    BY <1>9, <2>1, <2>9
<1>12. CASE backup.dissolved[f] = "MERGE"
  <2> DEFINE mer == ThenLower(o, b)
             lo == ThenLower(mer, f)
             up == ThenUpper(lo, f)
  <2>1. Reasserted(f) = up
    BY <1>2, <1>12 DEF Reasserted, o, b, Active
  <2>2. up.conflict = NoConflict /\ lo.conflict = NoConflict /\ mer.conflict = NoConflict
    BY <2>1 DEF ThenLower, ThenUpper
  <2>3. /\ backup.lower[b].val >= 0 /\ UpperKept(backup, current, f)
        /\ backup.lower[f].val > backup.lower[b].val \/ backup.lower[f] = backup.lower[b]
    BY <1>5, <1>7, <1>12 DEF PairTraced, UpperKept, b
  <2>4. /\ mer.state \in State /\ mer.state.upper = current.upper
        /\ \A g \in F : mer.state.dissolved[g]
             = IF g = f THEN "MERGE" ELSE current.dissolved[g]
        /\ mer.state.lower[f] = backup.lower[b] /\ mer.state.lower[b] = backup.lower[b]
        /\ \A z \in Var \ {f, b} : mer.state.lower[z] = current.lower[z]
    BY <1>6, <1>8, <2>2, <2>3, MergeAsserted DEF b
  <2> HIDE DEF mer
  <2>5. ~ActiveReluVariable(mer.state, f) /\ LowerKept(backup, mer.state, f)
    BY <2>3, <2>4, PairFacts DEF ActiveReluVariable, LowerKept, Active
  <2>6. /\ lo.state \in State /\ lo.state.upper = current.upper
        /\ lo.state.dissolved = mer.state.dissolved
        /\ lo.state.lower[f] = backup.lower[f]
        /\ \A z \in Var \ {f} : lo.state.lower[z] = mer.state.lower[z]
    BY <1>1, <2>2, <2>4, <2>5, LowerAsserted
  <2> HIDE DEF lo
  <2>7. ~ActiveReluVariable(lo.state, f) /\ UpperKept(backup, lo.state, f)
    BY <2>3, <2>5, <2>6 DEF ActiveReluVariable, UpperKept
  <2>8. /\ up.state.lower = lo.state.lower /\ up.state.dissolved = mer.state.dissolved
        /\ up.state.upper[f] = backup.upper[f]
        /\ \A z \in Var \ {f} : up.state.upper[z] = current.upper[z]
    BY <1>1, <2>2, <2>6, <2>7, UpperAsserted
  <2> HIDE DEF up
  <2>9. /\ up.state.dissolved[f] = backup.dissolved[f]
        /\ \A g \in F \ {f} : up.state.dissolved[g] = current.dissolved[g]
        /\ \A z \in Var \ {f, b} : SameBounds(up.state, current, z)
        /\ SamePair(up.state, backup, f)
    BY <1>1, <1>12, <2>4, <2>6, <2>8 DEF SamePair, SameBounds, b
  <2>10. QED
    BY <1>9, <2>1, <2>9
<1>13. QED
  BY <1>10, <1>11, <1>12 DEF State, Phase

\* An active b: its pair has not been reached, and has been dissolved by none.
LEMMA PartnerReproduced ==
  ASSUME index \in Var, Reproduced(current, index),
         ActiveReluVariable(current, index), index \notin F
  PROVE  /\ Reasserted(index).state = current
         /\ Reproduced(current, index + 1)
<1> DEFINE x == index
<1>1. PICK f \in F : x = B[f] /\ current.dissolved[f] = Active
  BY ActivePair
<1>2. preprocessed.dissolved[f] = Active
  BY <1>1 DEF Reproduced
<1>3. x \in Int /\ \A g \in F : g \in Int /\ g # x
  BY PairFacts DEF Var
<1>4. \A y \in Var : Plain(preprocessed, y) => y \in Int /\ y # x
  BY <1>1, <1>2 DEF Plain, Var
<1>5. \A y \in Int : y # x => (y < x + 1 <=> y < x)
  BY <1>3
<1>6. Reproduced(current, x + 1)
  BY <1>3, <1>4, <1>5 DEF Reproduced
<1>7. QED
  BY <1>6 DEF Reasserted

LEMMA VariableReproduced ==
  ASSUME BoundsInv, ShapeInv, pc = "restoring",
         Shape(backup, preprocessed), Traced(backup, preprocessed),
         index \in Var, Reproduced(current, index),
         Reasserted(index).conflict = NoConflict
  PROVE  Reproduced(Reasserted(index).state, index + 1)
<1>1. /\ preprocessed \in State /\ backup \in State /\ current \in State
      /\ Shape(preprocessed, preprocessed)
  BY StateFacts, PreprocessedShape
<1>2. CASE ~ActiveReluVariable(current, index)
  BY <1>1, <1>2, PlainReproduced
<1>3. CASE ActiveReluVariable(current, index) /\ index \notin F
  BY <1>3, PartnerReproduced
<1>4. CASE ActiveReluVariable(current, index) /\ index \in F
  <2>1. PICK f \in F : f = index
    BY <1>4
  <2>2. current.dissolved[f] = Active
    BY <1>4, <2>1, PairFacts DEF ActiveReluVariable
  <2>3. QED
    BY <1>1, <2>1, <2>2, PairReproduced
<1>5. QED
  BY <1>2, <1>3, <1>4

-----------------------------------------------------------------------------
(***************************************************************************)
(* The invariant.  The bounds of a b merged while stored bounds are applied*)
(* cannot be raised afterwards, though they were stored before the merge:  *)
(* lower bounds are applied first, in an order in which b has passed.      *)
(***************************************************************************)
MergedHavePassed ==
  \A f \in F : current.dissolved[f] = "MERGE" /\ backup.dissolved[f] # "MERGE"
                => index > B[f]

TraceInv ==
  /\ pc \in {"loop", "learning"} => Traced(current, preprocessed)
  /\ \A i \in 1..Len(stack) : Traced(stack[i].saved, preprocessed)
  /\ pc = "learning" => MergedHavePassed
  /\ pc = "restoring" => /\ Shape(backup, preprocessed)
                         /\ Traced(backup, preprocessed)
                         /\ Reproduced(current, index)

LEMMA TracedInitially ==
  ASSUME NEW p \in Preprocessed
  PROVE  Traced(p, p)
<1>1. p \in State /\ Shape(p, p)
  BY BoundsAssumption, PreprocessedShape
<1>2. ASSUME NEW f \in F, p.dissolved[f] = Active
      PROVE  PairTraced(p, p, f)
  <2>1. f \in Var /\ B[f] \in Var
    BY PairFacts
  <2>2. p.upper[B[f]].val = p.upper[f].val /\ p.upper[B[f]].level = p.upper[f].level
    BY <1>1, <1>2, <2>1, BoundsAssumption DEF Shape, PairShape
  <2>3. p.upper[B[f]] = p.upper[f]
    <3>1. p.upper[B[f]] \in Bound /\ p.upper[f] \in Bound
      BY <1>1, <2>1 DEF State
    <3>2. QED
      BY <2>2, <3>1 DEF Bound
  <2>4. QED
    BY <1>2, <2>3 DEF PairTraced, LowerKept, UpperKept, Active
<1>3. QED
  BY <1>2 DEF Traced, LowerKept, UpperKept

\* What a finished restoration leaves behind can be restored again.
LEMMA ReproducedIsTraced ==
  ASSUME Traced(backup, preprocessed), Reproduced(current, NumVariables)
  PROVE  Traced(current, preprocessed)
<1>1. \A x \in Var : x < NumVariables
  BY BoundsAssumption DEF Var
<1>2. ASSUME NEW x \in Var, Plain(preprocessed, x)
      PROVE  LowerKept(current, preprocessed, x) /\ UpperKept(current, preprocessed, x)
  <2>1. SameBounds(current, backup, x)
    BY <1>1, <1>2 DEF Reproduced
  <2>2. QED
    BY <1>2, <2>1 DEF Traced, SameBounds, LowerKept, UpperKept
<1>3. ASSUME NEW f \in F, preprocessed.dissolved[f] = Active
      PROVE  PairTraced(current, preprocessed, f)
  <2>1. f \in Var /\ SamePair(current, backup, f) /\ PairTraced(backup, preprocessed, f)
    BY <1>1, <1>3, PairFacts DEF Reproduced, Traced
  <2>2. QED
    BY <2>1 DEF SamePair, SameBounds, PairTraced, LowerKept, UpperKept, Active
<1>4. QED
  BY <1>2, <1>3 DEF Traced, Reproduced

LEMMA ReproducedIsExact ==
  ASSUME BoundsInv, TraceInv
  PROVE  RestoreExact
<1> SUFFICES ASSUME pc = "restoring", index = NumVariables
             PROVE  /\ current.dissolved = backup.dissolved
                    /\ \A x \in Var : ~MergedB(current, x) =>
                         SameBounds(current, backup, x)
  BY DEF RestoreExact, SameBounds
<1>1. /\ Reproduced(current, NumVariables) /\ Traced(backup, preprocessed)
      /\ current \in State /\ backup \in State /\ \A x \in Var : x < NumVariables
  BY StateFacts, BoundsAssumption DEF TraceInv, Var
<1>2. ASSUME NEW f \in F
      PROVE  /\ current.dissolved[f] = backup.dissolved[f]
             /\ preprocessed.dissolved[f] = Active => SamePair(current, backup, f)
  <2>1. f \in Var
    BY PairFacts
  <2>2. QED
    BY <1>1, <2>1 DEF Reproduced, Traced, SamePair
<1>3. current.dissolved = backup.dissolved
  BY <1>1, <1>2 DEF State
<1>4. ASSUME NEW x \in Var, ~MergedB(current, x)
      PROVE  SameBounds(current, backup, x)
  <2>1. CASE Plain(preprocessed, x)
    BY <1>1, <2>1 DEF Reproduced
  <2>2. CASE ~Plain(preprocessed, x)
    <3>1. PICK f \in F : (x = f \/ x = B[f]) /\ preprocessed.dissolved[f] = Active
      BY <2>2, NotPlain
    <3>2. SamePair(current, backup, f)
      BY <1>2, <3>1
    <3>3. x = B[f] => current.dissolved[f] # "MERGE"
      BY <1>4, SeenIsNotMerged DEF Seen
    <3>4. QED
      BY <3>1, <3>2, <3>3 DEF SamePair, SameBounds
  <2>3. QED
    BY <2>1, <2>2
<1>5. QED
  BY <1>3, <1>4

-----------------------------------------------------------------------------
(***************************************************************************)
(* Steps that leave the stack alone.                                       *)
(***************************************************************************)
LEMMA TracedApplied ==
  ASSUME TraceInv, NEW o, NEW next \in {"loop", "learning"}, Apply(o, next),
         UNCHANGED <<preprocessed, stack>>,
         o.conflict = NoConflict => Traced(o.state, preprocessed),
         o.conflict = NoConflict /\ next = "learning" => MergedHavePassed'
  PROVE  TraceInv'
<1>1. CASE o.conflict = NoConflict
  <2>1. pc' = next /\ current' = o.state
    BY <1>1 DEF Apply
  <2>2. QED
    BY <1>1, <2>1 DEF TraceInv
<1>2. CASE o.conflict # NoConflict
  <2>1. pc' \in {"done", "popping"}
    BY <1>2 DEF Apply, StartPop, Stop
  <2>2. QED
    BY <2>1 DEF TraceInv
<1>3. QED
  BY <1>1, <1>2

\* An upper bound never merges a pair, and a lower bound no other than its own.
LEMMA MergesOf ==
  ASSUME NEW st \in State, NEW x \in Var, NEW v \in Int, NEW l \in Nat, NEW f \in F
  PROVE  /\ UpdateUpperBound(st, x, v, l).state.dissolved[f] = "MERGE"
              => st.dissolved[f] = "MERGE"
         /\ UpdateLowerBound(st, x, v, l).state.dissolved[f] = "MERGE"
              => st.dissolved[f] = "MERGE" \/ x = f \/ x = B[f]
<1>1. ASSUME UpdateUpperBound(st, x, v, l).state.dissolved[f] = "MERGE"
      PROVE  st.dissolved[f] = "MERGE"
  <2>1. UpdateUpperBound(st, x, v, l).state.dissolved
          \in {st.dissolved, [st.dissolved EXCEPT ![PairOf(x)] = "SPLIT"]}
    BY OutcomeState DEF UpdateUpperBound, Dissolve, WithUpper
  <2>2. st.dissolved \in [F -> Phase \cup {Active}]
    BY DEF State
  <2>3. QED
    BY <1>1, <2>1, <2>2
<1>2. ASSUME UpdateLowerBound(st, x, v, l).state.dissolved[f] = "MERGE"
      PROVE  st.dissolved[f] = "MERGE" \/ x = f \/ x = B[f]
  <2>1. CASE ActiveReluVariable(st, x)
    <3>1. UpdateLowerBound(st, x, v, l).state.dissolved
            \in {st.dissolved, [st.dissolved EXCEPT ![PairOf(x)] = "MERGE"]}
      BY OutcomeState DEF UpdateLowerBound, Dissolve, WithLower
    <3>2. st.dissolved \in [F -> Phase \cup {Active}]
      BY DEF State
    <3>3. PICK g \in F : PairOf(x) = g /\ (x = g \/ x = B[g])
      BY <2>1, ActivePair
    <3>4. QED
      BY <1>2, <3>1, <3>2, <3>3
  <2>2. CASE ~ActiveReluVariable(st, x)
    <3>1. UpdateLowerBound(st, x, v, l).state.dissolved = st.dissolved
      BY <2>2, OutcomeState DEF UpdateLowerBound, WithLower
    <3>2. QED
      BY <1>2, <3>1
  <2>3. QED
    BY <2>1, <2>2
<1>3. QED
  BY <1>1, <1>2

LEMMA TightenTraced ==
  ASSUME BoundsInv, ShapeInv, TraceInv, Tighten
  PROVE  TraceInv'
<1>1. PICK x \in Var, v \in Values, l \in Levels :
        \/ TightenLower(x, v, l)
        \/ TightenUpper(x, v, l)
        \/ ApplyStoredLower(x, v, l)
        \/ ApplyStoredUpper(x, v, l)
  BY DEF Tighten
<1>2. /\ v \in Int /\ l \in Nat /\ preprocessed \in State /\ current \in State
      /\ x \in Int /\ index \in Nat /\ NumVariables \in Nat
      /\ \A f \in F : B[f] \in Var /\ B[f] \in Int /\ B[f] < f /\ B[f] < NumVariables
      /\ \A y \in Var : y \in Nat
  BY BoundsAssumption, StateFacts DEF Levels, Var, BoundsInv, TypeOK
<1>3. CASE TightenLower(x, v, l)
  <2>1. Seen(current, x)
    BY <1>3, SeenIsNotMerged DEF TightenLower, LowerFollows
  <2>2. /\ Shape(current, preprocessed) /\ Traced(current, preprocessed)
        /\ v > current.lower[x].val
    BY <1>3 DEF TightenLower, ShapeInv, TraceInv
  <2>3. UpdateLowerBound(current, x, v, l).conflict = NoConflict
          => Traced(UpdateLowerBound(current, x, v, l).state, preprocessed)
    BY <1>2, <2>1, <2>2, TracedLower
  <2>4. QED
    BY <1>3, <2>3, TracedApplied DEF TightenLower
<1>4. CASE TightenUpper(x, v, l)
  <2>1. /\ Shape(current, preprocessed) /\ Traced(current, preprocessed)
        /\ v < current.upper[x].val
    BY <1>4 DEF TightenUpper, ShapeInv, TraceInv
  <2>2. UpdateUpperBound(current, x, v, l).conflict = NoConflict
          => Traced(UpdateUpperBound(current, x, v, l).state, preprocessed)
    BY <1>2, <2>1, TracedUpper
  <2>3. QED
    BY <1>4, <2>2, TracedApplied DEF TightenUpper
<1>5. CASE ApplyStoredLower(x, v, l)
  <2>1. /\ Shape(current, preprocessed) /\ Traced(current, preprocessed)
        /\ v > current.lower[x].val /\ MergedHavePassed /\ index <= x
        /\ Seen(backup, x)
    BY <1>5, SeenIsNotMerged DEF ApplyStoredLower, LowerFollows, ShapeInv, TraceInv
  <2>2. Seen(current, x)
    BY <1>2, <2>1 DEF MergedHavePassed, Seen
  <2>3. UpdateLowerBound(current, x, v, l).conflict = NoConflict
          => Traced(UpdateLowerBound(current, x, v, l).state, preprocessed)
    BY <1>2, <2>1, <2>2, TracedLower
  <2>4. ASSUME UpdateLowerBound(current, x, v, l).conflict = NoConflict
        PROVE  MergedHavePassed'
    <3>1. /\ current' = UpdateLowerBound(current, x, v, l).state
          /\ backup' = backup /\ index' = x + 1
      BY <1>5, <2>4 DEF ApplyStoredLower, Apply
    <3>2. ASSUME NEW f \in F, current'.dissolved[f] = "MERGE", backup.dissolved[f] # "MERGE"
          PROVE  x + 1 > B[f]
      <4>1. current.dissolved[f] = "MERGE" \/ x = f \/ x = B[f]
        BY <1>2, <3>1, <3>2, MergesOf
      <4>2. QED
        BY <1>2, <2>1, <3>2, <4>1 DEF MergedHavePassed
    <3>3. QED
      BY <3>1, <3>2 DEF MergedHavePassed
  <2>5. QED
    BY <1>5, <2>3, <2>4, TracedApplied DEF ApplyStoredLower
<1>6. CASE ApplyStoredUpper(x, v, l)
  <2>1. /\ Shape(current, preprocessed) /\ Traced(current, preprocessed)
        /\ v < current.upper[x].val
    BY <1>6 DEF ApplyStoredUpper, ShapeInv, TraceInv
  <2>2. UpdateUpperBound(current, x, v, l).conflict = NoConflict
          => Traced(UpdateUpperBound(current, x, v, l).state, preprocessed)
    BY <1>2, <2>1, TracedUpper
  <2>3. ASSUME UpdateUpperBound(current, x, v, l).conflict = NoConflict
        PROVE  MergedHavePassed'
    <3>1. backup' = backup /\ index' = NumVariables + x + 1
      BY <1>6, <2>3 DEF ApplyStoredUpper, Apply
    <3>2. \A f \in F : NumVariables + x + 1 > B[f]
      BY <1>2
    <3>3. QED
      BY <3>1, <3>2 DEF MergedHavePassed
  <2>4. QED
    BY <1>6, <2>2, <2>3, TracedApplied DEF ApplyStoredUpper
<1>7. QED
  BY <1>1, <1>3, <1>4, <1>5, <1>6

LEMMA RestoreTraced ==
  ASSUME BoundsInv, ShapeInv, TraceInv, RestoreStart \/ RestoreVariable \/ RestoreDone
  PROVE  TraceInv'
<1>1. CASE RestoreStart
  <2>1. /\ backup' = current /\ current' = preprocessed /\ index' = 0
        /\ pc = "loop" /\ pc' = "restoring" /\ UNCHANGED <<preprocessed, stack>>
    BY <1>1 DEF RestoreStart
  <2>2. \A x \in Var : ~(x < 0)
    BY DEF Var
  <2>3. \A f \in F : f \in Var
    BY PairFacts
  <2>4. Reproduced(current, index)'
    BY <2>1, <2>2, <2>3 DEF Reproduced, SameBounds, SamePair
  <2>5. Shape(current, preprocessed) /\ Traced(current, preprocessed)
    BY <2>1 DEF ShapeInv, TraceInv
  <2>6. Shape(backup, preprocessed)' /\ Traced(backup, preprocessed)'
    BY <2>1, <2>5
  <2>7. QED
    BY <2>1, <2>4, <2>6 DEF TraceInv
<1>2. CASE RestoreVariable
  <2>1. PICK o : o = Reasserted(index)
    OBVIOUS
  <2>2. /\ pc = "restoring" /\ Apply(o, "restoring") /\ index' = index + 1
        /\ UNCHANGED <<preprocessed, stack>>
    BY <1>2, <2>1 DEF RestoreVariable
  <2>3. index \in Var
    <3>1. NumVariables \in Nat /\ index \in Nat /\ index < NumVariables
      BY <1>2, BoundsAssumption DEF RestoreVariable, BoundsInv, TypeOK
    <3>2. QED
      BY <3>1 DEF Var
  <2>4. CASE o.conflict = NoConflict
    <3>1. current' = o.state /\ backup' = backup /\ pc' = "restoring"
      BY <2>2, <2>4 DEF Apply
    <3>2. Reproduced(o.state, index + 1)
      BY <2>1, <2>2, <2>3, <2>4, VariableReproduced DEF TraceInv
    <3>3. Reproduced(current, index)'
      BY <2>2, <3>1, <3>2 DEF Reproduced, SameBounds, SamePair
    <3>4. Shape(backup, preprocessed)' /\ Traced(backup, preprocessed)'
      BY <2>2, <3>1 DEF TraceInv
    <3>5. QED
      BY <2>2, <3>1, <3>3, <3>4 DEF TraceInv
  <2>5. CASE o.conflict # NoConflict
    <3>1. pc' \in {"done", "popping"}
      BY <2>2, <2>5 DEF Apply, StartPop, Stop
    <3>2. QED
      BY <2>2, <3>1 DEF TraceInv
  <2>6. QED
    BY <2>4, <2>5
<1>3. CASE RestoreDone
  <2>1. Traced(current, preprocessed)
    BY <1>3, ReproducedIsTraced DEF RestoreDone, TraceInv
  <2>2. QED
    BY <1>3, <2>1 DEF RestoreDone, TraceInv
<1>4. QED
  BY <1>1, <1>2, <1>3

(***************************************************************************)
(* Decisions save bounds that can be restored, and pops bring them back.   *)
(***************************************************************************)
LEMMA DecisionTraced ==
  ASSUME BoundsInv, ShapeInv, TraceInv,
         NEW f \in F, NEW phase \in Phase, DissolveReluOnVar(f, phase)
  PROVE  TraceInv'
<1>1. PICK n \in Nat : n = Len(stack)
  BY StateFacts
<1>2. PICK o : o = Decided(current, f, phase, n + 1)
  OBVIOUS
<1>3. PICK e : e = [var |-> f, type |-> phase, first |-> TRUE, saved |-> current]
  OBVIOUS
<1>4. /\ pc = "loop" /\ current.dissolved[f] = Active
      /\ stack' = Append(stack, e) /\ Apply(o, "loop") /\ pc' = "loop"
      /\ UNCHANGED preprocessed
  BY <1>1, <1>2, <1>3, InvTyped, DissolveKeepsShape DEF DissolveReluOnVar
<1>5. /\ Shape(current, preprocessed) /\ Traced(current, preprocessed)
      /\ preprocessed \in State /\ n + 1 \in Nat
  BY <1>4, StateFacts DEF ShapeInv, TraceInv
<1>6. Traced(o.state, preprocessed)
  BY <1>2, <1>4, <1>5, TracedDecision
<1>7. current' = o.state
  BY <1>4 DEF Apply
<1>8. stack \in Seq(Entry) /\ e \in Entry
  BY <1>3, StateFacts DEF Entry
<1>9. ASSUME NEW i \in 1..n + 1
      PROVE  Traced(stack'[i].saved, preprocessed)
  <2>1. CASE i = n + 1
    <3>1. stack'[i] = e /\ e.saved = current
      BY <1>1, <1>3, <1>4, <1>8, <2>1
    <3>2. QED
      BY <1>5, <3>1
  <2>2. CASE i # n + 1
    <3>1. i \in 1..n /\ stack'[i] = stack[i]
      BY <1>1, <1>4, <1>8, <2>2
    <3>2. QED
      BY <1>1, <3>1 DEF TraceInv
  <2>3. QED
    BY <2>1, <2>2
<1>10. Len(stack') = n + 1
  BY <1>1, <1>4, <1>8
<1>11. QED
  BY <1>4, <1>6, <1>7, <1>9, <1>10 DEF TraceInv

LEMMA PopTraced ==
  ASSUME BoundsInv, ShapeInv, TraceInv, PopFlip \/ PopDiscard
  PROVE  TraceInv'
<1>1. PICK n \in Nat : n = Len(stack)
  BY StateFacts
<1>2. stack \in Seq(Entry) /\ stack # <<>>
  BY StateFacts DEF PopFlip, PopDiscard
<1>3. n \in 1..n /\ Top = stack[n] /\ stack[n] \in Entry
  BY <1>1, <1>2, EmptySeq, ElementOfSeq DEF Top
<1>4. CASE PopFlip
  <2>1. PICK e : e = [var |-> Top.var, type |-> Opposite(Top.type), first |-> FALSE,
                      saved |-> Top.saved]
    OBVIOUS
  <2>2. e \in Entry /\ e.saved = stack[n].saved /\ Top.var \in F /\ Opposite(Top.type) \in Phase
    BY <1>3, <2>1 DEF Entry, Opposite, Phase
  <2>3. PICK o : o = Decided(Top.saved, Top.var, Opposite(Top.type), n)
    OBVIOUS
  <2>4. /\ stack' = [stack EXCEPT ![n] = e] /\ current' = o.state
        /\ pc' \in {"popping", "loop"} /\ UNCHANGED preprocessed
    BY <1>1, <1>4, <2>1, <2>3, InvTyped, FlipKeepsShape DEF PopFlip
  <2>5. /\ Shape(Top.saved, preprocessed) /\ Traced(Top.saved, preprocessed)
        /\ Top.saved.dissolved[Top.var] = Active /\ preprocessed \in State
    BY <1>1, <1>3, StateFacts DEF ShapeInv, TraceInv
  <2>6. Traced(o.state, preprocessed)
    BY <2>2, <2>3, <2>5, TracedDecision
  <2>7. Len(stack') = n /\ \A i \in 1..n : stack'[i].saved = stack[i].saved
    <3>1. stack \in [1..n -> Entry]
      BY <1>1, <1>2
    <3>2. stack' \in [1..n -> Entry]
      BY <2>2, <2>4, <3>1
    <3>3. QED
      BY <1>1, <1>2, <1>3, <2>2, <2>4, <3>1, <3>2
  <2>8. QED
    BY <1>1, <2>4, <2>6, <2>7 DEF TraceInv
<1>5. CASE PopDiscard
  <2>1. /\ stack' = SubSeq(stack, 1, n - 1) /\ pc' = "popping" /\ UNCHANGED preprocessed
    BY <1>1, <1>5 DEF PopDiscard
  <2>2. Len(stack') = n - 1 /\ \A i \in 1..n - 1 : i \in 1..n /\ stack'[i] = stack[i]
    BY <1>1, <1>2, <1>3, <2>1, SubSeqProperties
  <2>3. QED
    BY <1>1, <2>1, <2>2 DEF TraceInv
<1>6. QED
  BY <1>4, <1>5

LEMMA TraceInitially == Init => TraceInv
<1> SUFFICES ASSUME Init
             PROVE  TraceInv
  OBVIOUS
<1>1. Traced(current, preprocessed) /\ pc = "loop" /\ Len(stack) = 0
  BY TracedInitially DEF Init
<1>2. QED
  BY <1>1 DEF TraceInv

LEMMA TraceKept == BoundsInv /\ ShapeInv /\ TraceInv /\ [Next]_vars => TraceInv'
<1> SUFFICES ASSUME BoundsInv, ShapeInv, TraceInv, [Next]_vars
             PROVE  TraceInv'
  OBVIOUS
<1>1. CASE Tighten
  BY <1>1, TightenTraced
<1>2. CASE SolveLp
  BY <1>2 DEF SolveLp, TraceInv, MergedHavePassed
<1>3. CASE DoneLearning
  BY <1>3 DEF DoneLearning, TraceInv
<1>4. CASE NoSolutionExists
  BY <1>4 DEF NoSolutionExists, StartPop, Stop, TraceInv
<1>5. CASE FoundSolution \/ PopEmpty
  BY <1>5 DEF FoundSolution, PopEmpty, Stop, TraceInv
<1>6. CASE RestoreStart \/ RestoreVariable \/ RestoreDone
  BY <1>6, RestoreTraced
<1>7. CASE \E f \in F, p \in Phase : DissolveReluOnVar(f, p)
  BY <1>7, DecisionTraced
<1>8. CASE PopFlip \/ PopDiscard
  BY <1>8, PopTraced
<1>9. CASE Terminated \/ UNCHANGED vars
  BY <1>9 DEF Terminated, vars, TraceInv, MergedHavePassed, Reproduced, SameBounds, SamePair
<1>10. QED
  BY <1>1, <1>2, <1>3, <1>4, <1>5, <1>6, <1>7, <1>8, <1>9 DEF Next

(***************************************************************************)
(* restoreTableauFromBackup reproduces the bounds in force, their levels   *)
(* and the dissolved pairs, whatever was learned, decided, popped and      *)
(* restored before.                                                        *)
(***************************************************************************)
THEOREM RestorationIsExact == Spec => []RestoreExact
<1>1. Spec => []TraceInv
  BY BoundsInvariant, ShapeInvariant, TraceInitially, TraceKept, PTL DEF Spec
<1>2. BoundsInv /\ TraceInv => RestoreExact
  BY ReproducedIsExact
<1>3. QED
  BY <1>1, <1>2, BoundsInvariant, PTL

-----------------------------------------------------------------------------
(***************************************************************************)
(* What an update that tightens a bound does to the other bounds: nothing, *)
(* except to those of the partner in an active pair, and the shape of the  *)
(* pair makes the bound that is copied there a tighter one.                *)
(***************************************************************************)
LEMMA UpperTightens ==
  ASSUME NEW p \in State, NEW st, Shape(st, p), NEW x \in Var, NEW v \in Int,
         NEW l \in Nat, v <= st.upper[x].val
  PROVE  Tighter(UpdateUpperBound(st, x, v, l).state, st)
<1>0. st \in State
  BY DEF Shape
<1>1. \A y \in Var : st.lower[y].val \in Int /\ st.upper[y].val \in Int
  BY <1>0 DEF State, Bound
<1>2. CASE ~ActiveReluVariable(st, x) \/ (v < 0 /\ x \in F)
  <2> DEFINE new == WithUpper(st, {x}, v, l)
  <2>1. UpdateUpperBound(st, x, v, l).state = new
    BY <1>2, OutcomeState DEF UpdateUpperBound
  <2>2. /\ new.lower = st.lower
        /\ \A y \in Var : new.upper[y] = IF y \in {x} THEN [val |-> v, level |-> l]
                                         ELSE st.upper[y]
    BY <1>0, WithUpperState
  <2> HIDE DEF new
  <2>3. ASSUME NEW y \in Var
        PROVE  new.lower[y].val >= st.lower[y].val /\ new.upper[y].val <= st.upper[y].val
    BY <1>1, <2>2
  <2>4. QED
    BY <2>1, <2>3 DEF Tighter
<1>3. CASE ActiveReluVariable(st, x) /\ ~(v < 0 /\ x \in F)
  <2>1. PICK f \in F : /\ PairOf(x) = f /\ st.dissolved[f] = Active
                       /\ \/ x = f /\ Partner(x) = B[f]
                          \/ x = B[f] /\ Partner(x) = f
    BY <1>3, ActivePair
  <2>2. f \in Var /\ B[f] \in Var /\ f # B[f] /\ "SPLIT" \in Phase
    BY PairFacts DEF Phase
  <2>3. /\ st.upper[f].val > 0 /\ st.upper[B[f]].val = st.upper[f].val
        /\ v <= st.upper[f].val
    BY <2>1, <2>2 DEF Shape, PairShape
  <2>4. CASE v > 0
    <3> DEFINE new == WithUpper(st, {x, Partner(x)}, v, l)
    <3>1. UpdateUpperBound(st, x, v, l).state = new
      BY <1>3, <2>4, OutcomeState DEF UpdateUpperBound
    <3>2. /\ new.lower = st.lower
          /\ \A y \in Var : new.upper[y] = IF y \in {x, Partner(x)}
                                           THEN [val |-> v, level |-> l]
                                           ELSE st.upper[y]
      BY <1>0, WithUpperState
    <3> HIDE DEF new
    <3>3. ASSUME NEW y \in Var
          PROVE  new.lower[y].val >= st.lower[y].val /\ new.upper[y].val <= st.upper[y].val
      BY <1>1, <2>1, <2>2, <2>3, <3>2
    <3>4. QED
      BY <3>1, <3>3 DEF Tighter
  <2>5. CASE ~(v > 0)
    <3> DEFINE zero == WithUpper(st, {f}, 0, l)
               both == WithUpper(zero, {B[f]}, v, l)
               new == Dissolve(both, f, "SPLIT")
    <3>1. UpdateUpperBound(st, x, v, l).state = new
      BY <1>3, <2>1, <2>5, OutcomeState DEF UpdateUpperBound
    <3>2. /\ zero \in State /\ zero.lower = st.lower
          /\ \A y \in Var : zero.upper[y] = IF y \in {f} THEN [val |-> 0, level |-> l]
                                            ELSE st.upper[y]
      BY <1>0, WithUpperState
    <3> HIDE DEF zero
    <3>3. /\ both \in State /\ both.lower = st.lower
          /\ \A y \in Var : both.upper[y] = IF y \in {B[f]} THEN [val |-> v, level |-> l]
                                            ELSE zero.upper[y]
      BY <3>2, WithUpperState
    <3> HIDE DEF both
    <3>4. new.lower = st.lower /\ new.upper = both.upper
      BY <2>2, <3>3, DissolveState
    <3> HIDE DEF new
    <3>5. ASSUME NEW y \in Var
          PROVE  new.lower[y].val >= st.lower[y].val /\ new.upper[y].val <= st.upper[y].val
      BY <1>1, <2>2, <2>3, <2>5, <3>2, <3>3, <3>4
    <3>6. QED
      BY <3>1, <3>5 DEF Tighter
  <2>6. QED
    BY <2>4, <2>5
<1>4. QED
  BY <1>2, <1>3

LEMMA LowerTightens ==
  ASSUME NEW p \in State, NEW st, Shape(st, p), NEW x \in Var, NEW v \in Int,
         NEW l \in Nat, v >= st.lower[x].val
  PROVE  Tighter(UpdateLowerBound(st, x, v, l).state, st)
<1>0. st \in State
  BY DEF Shape
<1>1. \A y \in Var : st.lower[y].val \in Int /\ st.upper[y].val \in Int
  BY <1>0 DEF State, Bound
<1>2. CASE ~ActiveReluVariable(st, x) \/ v < 0
  <2> DEFINE new == WithLower(st, {x}, v, l)
  <2>1. UpdateLowerBound(st, x, v, l).state = new
    BY <1>2, OutcomeState DEF UpdateLowerBound
  <2>2. /\ new.upper = st.upper
        /\ \A y \in Var : new.lower[y] = IF y \in {x} THEN [val |-> v, level |-> l]
                                         ELSE st.lower[y]
    BY <1>0, WithLowerState
  <2> HIDE DEF new
  <2>3. ASSUME NEW y \in Var
        PROVE  new.lower[y].val >= st.lower[y].val /\ new.upper[y].val <= st.upper[y].val
    BY <1>1, <2>2
  <2>4. QED
    BY <2>1, <2>3 DEF Tighter
<1>3. CASE ActiveReluVariable(st, x) /\ ~(v < 0)
  <2>1. PICK f \in F : /\ PairOf(x) = f /\ st.dissolved[f] = Active
                       /\ \/ x = f /\ Partner(x) = B[f]
                          \/ x = B[f] /\ Partner(x) = f
    BY <1>3, ActivePair
  <2>2. f \in Var /\ B[f] \in Var /\ f # B[f] /\ "MERGE" \in Phase
    BY PairFacts DEF Phase
  <2>3. st.lower[f].val = 0 /\ st.lower[B[f]].val < 0
    BY <2>1, <2>2 DEF Shape, PairShape
  <2> DEFINE raised == WithLower(st, {x, Partner(x)}, v, l)
             merged == Dissolve(raised, f, "MERGE")
  <2>4. UpdateLowerBound(st, x, v, l).state \in {raised, merged}
    BY <1>3, <2>1, OutcomeState DEF UpdateLowerBound
  <2>5. /\ raised \in State /\ raised.upper = st.upper
        /\ \A y \in Var : raised.lower[y] = IF y \in {x, Partner(x)}
                                            THEN [val |-> v, level |-> l]
                                            ELSE st.lower[y]
    BY <1>0, WithLowerState
  <2> HIDE DEF raised
  <2>6. merged.upper = raised.upper /\ merged.lower = raised.lower
    BY <2>2, <2>5, DissolveState
  <2> HIDE DEF merged
  <2>7. ASSUME NEW y \in Var
        PROVE  raised.lower[y].val >= st.lower[y].val /\ raised.upper[y].val <= st.upper[y].val
    BY <1>1, <1>3, <2>1, <2>2, <2>3, <2>5
  <2>8. QED
    BY <2>4, <2>6, <2>7 DEF Tighter
<1>4. QED
  BY <1>2, <1>3

\* A decision tightens: the zero it bounds f by is between the bounds of f.
LEMMA DecisionTightens ==
  ASSUME NEW p \in State, NEW st, Shape(st, p), NEW f \in F, NEW phase \in Phase,
         NEW l \in Nat, st.dissolved[f] = Active
  PROVE  Tighter(Decided(st, f, phase, l).state, st)
<1>1. f \in Var /\ 0 \in Int /\ st.lower[f].val = 0 /\ st.upper[f].val > 0
  BY PairFacts DEF Shape, PairShape
<1>2. st.upper[f].val \in Int
  BY <1>1 DEF Shape, State, Bound
<1>3. 0 <= st.upper[f].val /\ 0 >= st.lower[f].val
  BY <1>1, <1>2
<1>4. CASE phase = "SPLIT"
  BY <1>1, <1>3, <1>4, UpperTightens DEF Decided
<1>5. CASE phase # "SPLIT"
  BY <1>1, <1>3, <1>5, LowerTightens DEF Decided
<1>6. QED
  BY <1>4, <1>5

LEMMA TighterThanItself ==
  ASSUME NEW st \in State
  PROVE  Tighter(st, st)
BY DEF Tighter, State, Bound

LEMMA TightenTightens ==
  ASSUME BoundsInv, ShapeInv, Tighten
  PROVE  Tighter(current', current)
<1>1. PICK x \in Var, v \in Values, l \in Levels :
        \/ TightenLower(x, v, l)
        \/ TightenUpper(x, v, l)
        \/ ApplyStoredLower(x, v, l)
        \/ ApplyStoredUpper(x, v, l)
  BY DEF Tighten
<1>2. /\ v \in Int /\ l \in Nat /\ preprocessed \in State
      /\ Shape(current, preprocessed)
      /\ current.lower[x].val \in Int /\ current.upper[x].val \in Int
  <2>1. v \in Int /\ l \in Nat /\ preprocessed \in State /\ current \in State
    BY BoundsAssumption, StateFacts DEF Levels
  <2>2. pc \in {"loop", "learning"}
    BY <1>1 DEF TightenLower, TightenUpper, ApplyStoredLower, ApplyStoredUpper
  <2>3. QED
    BY <2>1, <2>2 DEF ShapeInv, State, Bound
<1>3. CASE TightenLower(x, v, l) \/ ApplyStoredLower(x, v, l)
  <2>1. /\ v >= current.lower[x].val
        /\ current' = UpdateLowerBound(current, x, v, l).state
    BY <1>2, <1>3 DEF TightenLower, ApplyStoredLower, Apply
  <2>2. QED
    BY <1>2, <2>1, LowerTightens
<1>4. CASE TightenUpper(x, v, l) \/ ApplyStoredUpper(x, v, l)
  <2>1. /\ v <= current.upper[x].val
        /\ current' = UpdateUpperBound(current, x, v, l).state
    BY <1>2, <1>4 DEF TightenUpper, ApplyStoredUpper, Apply
  <2>2. QED
    BY <1>2, <2>1, UpperTightens
<1>5. QED
  BY <1>1, <1>3, <1>4

LEMMA StepsTighten == BoundsInv /\ ShapeInv /\ [Next]_vars => LearningTightens
<1> SUFFICES ASSUME BoundsInv, ShapeInv, [Next]_vars,
                    pc \in {"loop", "learning"}, pc' # "restoring"
             PROVE  Tighter(current', current)
  BY DEF LearningTightens
<1>1. current \in State /\ preprocessed \in State /\ Len(stack) \in Nat
  BY StateFacts
<1>2. CASE Tighten
  BY <1>2, TightenTightens
<1>3. CASE \E f \in F, p \in Phase : DissolveReluOnVar(f, p)
  <2>1. PICK f \in F, p \in Phase : DissolveReluOnVar(f, p)
    BY <1>3
  <2>2. /\ current' = Decided(current, f, p, Len(stack) + 1).state
        /\ current.dissolved[f] = Active
    BY <2>1 DEF DissolveReluOnVar, Apply
  <2>3. Shape(current, preprocessed) /\ Len(stack) + 1 \in Nat
    BY <1>1 DEF ShapeInv
  <2>4. QED
    BY <1>1, <2>2, <2>3, DecisionTightens
<1>4. CASE UNCHANGED current
  BY <1>1, <1>4, TighterThanItself
<1>5. QED
  BY <1>2, <1>3, <1>4
     DEF Next, vars, SolveLp, DoneLearning, NoSolutionExists, FoundSolution,
         RestoreStart, RestoreVariable, RestoreDone, PopFlip, PopDiscard, PopEmpty,
         Terminated

(***************************************************************************)
(* Learning only ever tightens bounds: an update of an active pair looks   *)
(* at one bound and overwrites two, and the second is tightened as well.   *)
(***************************************************************************)
THEOREM LearningNeverLoosens == Spec => NeverLoosened
<1>1. QED
  BY StepsTighten, BoundsInvariant, ShapeInvariant, PTL DEF Spec, NeverLoosened

-----------------------------------------------------------------------------
(***************************************************************************)
(* What an update does to the pairs: nothing, or it dissolves an active    *)
(* pair in a phase that the new bounds of its b enforce.  A merge happens  *)
(* only without a conflict.                                                *)
(***************************************************************************)
Dissolves(st, o) ==
  \/ o.state.dissolved = st.dissolved
  \/ \E f \in F :
       /\ st.dissolved[f] = Active
       /\ \/ /\ o.state.dissolved = [st.dissolved EXCEPT ![f] = "SPLIT"]
             /\ o.state.upper[B[f]].val <= 0
          \/ /\ o.conflict = NoConflict
             /\ o.state.dissolved = [st.dissolved EXCEPT ![f] = "MERGE"]
             /\ o.state.lower[B[f]].val >= 0

\* The bounds of merged b's are not touched, except those of x.
MergedLeft(st, new, x) ==
  \A g \in F : st.dissolved[g] = "MERGE" /\ B[g] # x
                 => new.lower[B[g]] = st.lower[B[g]] /\ new.upper[B[g]] = st.upper[B[g]]

LEMMA UpperDissolves ==
  ASSUME NEW st \in State, NEW x \in Var, NEW v \in Int, NEW l \in Nat
  PROVE  /\ Dissolves(st, UpdateUpperBound(st, x, v, l))
         /\ MergedLeft(st, UpdateUpperBound(st, x, v, l).state, x)
<1>0. \A g \in F : g \in Var /\ B[g] \in Var
  BY PairFacts
<1>1. CASE ~ActiveReluVariable(st, x) \/ (v < 0 /\ x \in F)
  <2> DEFINE new == WithUpper(st, {x}, v, l)
  <2>1. UpdateUpperBound(st, x, v, l).state = new
    BY <1>1, OutcomeState DEF UpdateUpperBound
  <2>2. /\ new.lower = st.lower /\ new.dissolved = st.dissolved
        /\ \A y \in Var : new.upper[y] = IF y \in {x} THEN [val |-> v, level |-> l]
                                         ELSE st.upper[y]
    BY WithUpperState
  <2> HIDE DEF new
  <2>3. QED
    BY <1>0, <2>1, <2>2 DEF Dissolves, MergedLeft
<1>2. CASE ActiveReluVariable(st, x) /\ ~(v < 0 /\ x \in F)
  <2>1. PICK f \in F : /\ PairOf(x) = f /\ st.dissolved[f] = Active
                       /\ \/ x = f /\ Partner(x) = B[f]
                          \/ x = B[f] /\ Partner(x) = f
    BY <1>2, ActivePair
  <2>2. f \in Var /\ B[f] \in Var /\ f # B[f] /\ "SPLIT" \in Phase
    BY PairFacts DEF Phase
  <2>3. \A g \in F : st.dissolved[g] = "MERGE" => B[g] # f /\ B[g] # B[f]
    BY <2>1, PairsApart, PairFacts DEF Active
  <2>4. CASE v > 0
    <3> DEFINE new == WithUpper(st, {x, Partner(x)}, v, l)
    <3>1. UpdateUpperBound(st, x, v, l).state = new
      BY <1>2, <2>4, OutcomeState DEF UpdateUpperBound
    <3>2. /\ new.lower = st.lower /\ new.dissolved = st.dissolved
          /\ \A y \in Var : new.upper[y] = IF y \in {x, Partner(x)}
                                           THEN [val |-> v, level |-> l]
                                           ELSE st.upper[y]
      BY WithUpperState
    <3> HIDE DEF new
    <3>3. MergedLeft(st, new, x)
      BY <1>0, <2>1, <2>3, <3>2 DEF MergedLeft
    <3>4. QED
      BY <3>1, <3>2, <3>3 DEF Dissolves
  <2>5. CASE ~(v > 0)
    <3> DEFINE zero == WithUpper(st, {f}, 0, l)
               both == WithUpper(zero, {B[f]}, v, l)
               new == Dissolve(both, f, "SPLIT")
    <3>1. UpdateUpperBound(st, x, v, l).state = new
      BY <1>2, <2>1, <2>5, OutcomeState DEF UpdateUpperBound
    <3>2. /\ zero \in State /\ zero.lower = st.lower /\ zero.dissolved = st.dissolved
          /\ \A y \in Var : zero.upper[y] = IF y \in {f} THEN [val |-> 0, level |-> l]
                                            ELSE st.upper[y]
      BY WithUpperState
    <3> HIDE DEF zero
    <3>3. /\ both \in State /\ both.lower = st.lower /\ both.dissolved = st.dissolved
          /\ \A y \in Var : both.upper[y] = IF y \in {B[f]} THEN [val |-> v, level |-> l]
                                            ELSE zero.upper[y]
      BY <3>2, WithUpperState
    <3> HIDE DEF both
    <3>4. /\ new.lower = st.lower /\ new.upper = both.upper
          /\ new.dissolved = [st.dissolved EXCEPT ![f] = "SPLIT"]
      <4>1. new.lower = both.lower /\ new.upper = both.upper
        BY <2>2, <3>3, DissolveState
      <4>2. new.dissolved = [both.dissolved EXCEPT ![f] = "SPLIT"]
        BY DEF Dissolve
      <4>3. QED
        BY <3>3, <4>1, <4>2
    <3> HIDE DEF new
    <3>5. new.upper[B[f]].val <= 0
      BY <2>2, <2>5, <3>3, <3>4
    <3>6. MergedLeft(st, new, x)
      BY <1>0, <2>3, <3>2, <3>3, <3>4 DEF MergedLeft
    <3>7. QED
      BY <2>1, <3>1, <3>4, <3>5, <3>6 DEF Dissolves
  <2>6. QED
    BY <2>4, <2>5
<1>3. QED
  BY <1>1, <1>2

LEMMA LowerDissolves ==
  ASSUME NEW st \in State, NEW x \in Var, NEW v \in Int, NEW l \in Nat
  PROVE  /\ Dissolves(st, UpdateLowerBound(st, x, v, l))
         /\ MergedLeft(st, UpdateLowerBound(st, x, v, l).state, x)
<1>0. \A g \in F : g \in Var /\ B[g] \in Var
  BY PairFacts
<1>1. CASE ~ActiveReluVariable(st, x) \/ v < 0
  <2> DEFINE new == WithLower(st, {x}, v, l)
  <2>1. UpdateLowerBound(st, x, v, l).state = new
    BY <1>1, OutcomeState DEF UpdateLowerBound
  <2>2. /\ new.upper = st.upper /\ new.dissolved = st.dissolved
        /\ \A y \in Var : new.lower[y] = IF y \in {x} THEN [val |-> v, level |-> l]
                                         ELSE st.lower[y]
    BY WithLowerState
  <2> HIDE DEF new
  <2>3. QED
    BY <1>0, <2>1, <2>2 DEF Dissolves, MergedLeft
<1>2. CASE ActiveReluVariable(st, x) /\ ~(v < 0)
  <2>1. PICK f \in F : /\ PairOf(x) = f /\ st.dissolved[f] = Active
                       /\ \/ x = f /\ Partner(x) = B[f]
                          \/ x = B[f] /\ Partner(x) = f
    BY <1>2, ActivePair
  <2>2. f \in Var /\ B[f] \in Var /\ f # B[f] /\ "MERGE" \in Phase
    BY PairFacts DEF Phase
  <2>3. \A g \in F : st.dissolved[g] = "MERGE" => B[g] # f /\ B[g] # B[f]
    BY <2>1, PairsApart, PairFacts DEF Active
  <2> DEFINE raised == WithLower(st, {x, Partner(x)}, v, l)
             o == Outcome(raised, x, Partner(x))
             merged == Dissolve(raised, f, "MERGE")
  <2>4. UpdateLowerBound(st, x, v, l)
          = IF o.conflict = NoConflict
            THEN [state |-> Dissolve(o.state, f, "MERGE"), conflict |-> NoConflict]
            ELSE o
    BY <1>2, <2>1 DEF UpdateLowerBound
  <2>5. o.state = raised
    BY OutcomeState
  <2>6. /\ raised \in State /\ raised.upper = st.upper /\ raised.dissolved = st.dissolved
        /\ \A y \in Var : raised.lower[y] = IF y \in {x, Partner(x)}
                                            THEN [val |-> v, level |-> l]
                                            ELSE st.lower[y]
    BY WithLowerState
  <2> HIDE DEF raised, o
  <2>7. merged.upper = raised.upper /\ merged.lower = raised.lower
        /\ merged.dissolved = [st.dissolved EXCEPT ![f] = "MERGE"]
    <3>1. merged.upper = raised.upper /\ merged.lower = raised.lower
      BY <2>2, <2>6, DissolveState
    <3>2. merged.dissolved = [raised.dissolved EXCEPT ![f] = "MERGE"]
      BY DEF Dissolve
    <3>3. QED
      BY <2>6, <3>1, <3>2
  <2>8. merged.lower[B[f]].val >= 0
    BY <1>2, <2>1, <2>2, <2>6, <2>7
  <2>9. MergedLeft(st, raised, x) /\ MergedLeft(st, merged, x)
    BY <1>0, <2>1, <2>3, <2>6, <2>7 DEF MergedLeft
  <2>10. CASE o.conflict = NoConflict
    <3>1. /\ UpdateLowerBound(st, x, v, l).state = merged
          /\ UpdateLowerBound(st, x, v, l).conflict = NoConflict
      BY <2>4, <2>5, <2>10
    <3> HIDE DEF merged
    <3>2. QED
      BY <2>1, <2>7, <2>8, <2>9, <3>1 DEF Dissolves
  <2>11. CASE o.conflict # NoConflict
    <3>1. UpdateLowerBound(st, x, v, l).state = raised
      BY <2>4, <2>5, <2>11
    <3>2. QED
      BY <2>6, <2>9, <3>1 DEF Dissolves
  <2>12. QED
    BY <2>10, <2>11
<1>3. QED
  BY <1>1, <1>2

\* A decision that meets no conflict dissolves its pair in its phase.
LEMMA DecisionDissolves ==
  ASSUME NEW p \in State, NEW st, Shape(st, p), NEW f \in F, NEW phase \in Phase,
         NEW l \in Nat, st.dissolved[f] = Active
  PROVE  /\ Decided(st, f, phase, l).state.dissolved = [st.dissolved EXCEPT ![f] = phase]
         /\ MergedLeft(st, Decided(st, f, phase, l).state, f)
<1>1. /\ f \in Var /\ 0 \in Int /\ PairOf(f) = f /\ ActiveReluVariable(st, f)
      /\ st \in State
  BY PairFacts DEF ActiveReluVariable, Shape
<1>2. Decided(st, f, phase, l).conflict = NoConflict
  BY DecisionShape
<1>3. CASE phase = "SPLIT"
  <2>1. Decided(st, f, phase, l) = UpdateUpperBound(st, f, 0, l)
    BY <1>3 DEF Decided
  <2>2. UpdateUpperBound(st, f, 0, l).state.dissolved = [st.dissolved EXCEPT ![f] = "SPLIT"]
    BY <1>1, OutcomeState DEF UpdateUpperBound, Dissolve, WithUpper
  <2>3. QED
    BY <1>1, <1>3, <2>1, <2>2, UpperDissolves
<1>4. CASE phase = "MERGE"
  <2>1. Decided(st, f, phase, l) = UpdateLowerBound(st, f, 0, l)
    BY <1>4 DEF Decided
  <2>2. UpdateLowerBound(st, f, 0, l).state.dissolved = [st.dissolved EXCEPT ![f] = "MERGE"]
    <3> DEFINE raised == WithLower(st, {f, Partner(f)}, 0, l)
               o == Outcome(raised, f, Partner(f))
    <3>1. UpdateLowerBound(st, f, 0, l)
            = IF o.conflict = NoConflict
              THEN [state |-> Dissolve(o.state, f, "MERGE"), conflict |-> NoConflict]
              ELSE o
      BY <1>1 DEF UpdateLowerBound
    <3>2. o.state = raised /\ raised.dissolved = st.dissolved
      BY OutcomeState DEF WithLower
    <3> HIDE DEF o
    <3>3. o.conflict = NoConflict
      BY <1>2, <2>1, <3>1
    <3>4. QED
      BY <3>1, <3>2, <3>3 DEF Dissolve
  <2>3. QED
    BY <1>1, <1>4, <2>1, <2>2, LowerDissolves
<1>5. QED
  BY <1>3, <1>4 DEF Phase

-----------------------------------------------------------------------------
(***************************************************************************)
(* What st keeps while the first k decisions of stk are in force: their    *)
(* pairs are dissolved as decided, and a pair that was merged before the   *)
(* main loop is still merged, the bounds of its b what they were.          *)
(***************************************************************************)
Follows(stk, st, k) == \A i \in 1..k : st.dissolved[stk[i].var] = stk[i].type

Frozen(st, p) ==
  \A f \in F : p.dissolved[f] = "MERGE" =>
    /\ st.dissolved[f] = "MERGE"
    /\ st.lower[B[f]] = p.lower[B[f]] /\ st.upper[B[f]] = p.upper[B[f]]

Kept(stk, st, p, k) == Follows(stk, st, k) /\ Frozen(st, p)

FollowInv ==
  /\ pc \notin {"popping", "done", "restoring"} =>
       Kept(stack, current, preprocessed, Len(stack))
  /\ pc \notin {"popping", "done", "loop"} =>
       Kept(stack, backup, preprocessed, Len(stack))
  /\ \A i \in 1..Len(stack) : Kept(stack, stack[i].saved, preprocessed, i - 1)

LEMMA DissolvesKeeps ==
  ASSUME NEW p, NEW st \in State, NEW k \in Nat, NEW stk, Kept(stk, st, p, k),
         \A i \in 1..k : stk[i] \in Entry, NEW o, Dissolves(st, o),
         NEW x, Seen(p, x), MergedLeft(st, o.state, x)
  PROVE  Kept(stk, o.state, p, k)
<1>1. st.dissolved \in [F -> Phase \cup {Active}]
  BY DEF State
<1>2. ASSUME NEW f \in F, st.dissolved[f] \in Phase
      PROVE  o.state.dissolved[f] = st.dissolved[f]
  BY <1>1, <1>2 DEF Dissolves, Active, Phase
<1>3. Follows(stk, o.state, k)
  <2>1. ASSUME NEW i \in 1..k
        PROVE  o.state.dissolved[stk[i].var] = stk[i].type
    <3>1. stk[i].var \in F /\ stk[i].type \in Phase
      BY DEF Entry
    <3>2. st.dissolved[stk[i].var] = stk[i].type
      BY DEF Kept, Follows
    <3>3. QED
      BY <1>2, <3>1, <3>2
  <2>2. QED
    BY <2>1 DEF Follows
<1>4. Frozen(o.state, p)
  <2>1. ASSUME NEW f \in F, p.dissolved[f] = "MERGE"
        PROVE  /\ o.state.dissolved[f] = "MERGE"
               /\ o.state.lower[B[f]] = p.lower[B[f]]
               /\ o.state.upper[B[f]] = p.upper[B[f]]
    <3>1. /\ st.dissolved[f] = "MERGE" /\ st.lower[B[f]] = p.lower[B[f]]
          /\ st.upper[B[f]] = p.upper[B[f]]
      BY <2>1 DEF Kept, Frozen
    <3>2. B[f] # x
      BY <2>1 DEF Seen
    <3>3. QED
      BY <1>2, <3>1, <3>2 DEF MergedLeft, Phase
  <2>2. QED
    BY <2>1 DEF Frozen
<1>5. QED
  BY <1>3, <1>4 DEF Kept

\* The stack may change above the k-th decision.
LEMMA KeptPrefix ==
  ASSUME NEW p, NEW st, NEW k \in Nat, NEW stk, Kept(stk, st, p, k), NEW stk2,
         \A i \in 1..k : stk2[i].var = stk[i].var /\ stk2[i].type = stk[i].type
  PROVE  Kept(stk2, st, p, k)
BY DEF Kept, Follows

LEMMA DecisionKeeps ==
  ASSUME NEW p \in State, NEW st, Shape(st, p), NEW k \in Nat, NEW stk,
         Kept(stk, st, p, k), \A i \in 1..k : stk[i] \in Entry,
         NEW f \in F, NEW phase \in Phase, NEW l \in Nat, st.dissolved[f] = Active,
         stk[k + 1].var = f, stk[k + 1].type = phase
  PROVE  Kept(stk, Decided(st, f, phase, l).state, p, k + 1)
<1> DEFINE o == Decided(st, f, phase, l)
<1>1. /\ o.state.dissolved = [st.dissolved EXCEPT ![f] = phase]
      /\ MergedLeft(st, o.state, f) /\ st \in State
  BY DecisionDissolves DEF Shape
<1>2. st.dissolved \in [F -> Phase \cup {Active}]
  BY <1>1 DEF State
<1> HIDE DEF o
<1>3. ASSUME NEW i \in 1..k + 1
      PROVE  o.state.dissolved[stk[i].var] = stk[i].type
  <2>1. CASE i = k + 1
    BY <1>1, <1>2, <2>1
  <2>2. CASE i # k + 1
    <3>1. i \in 1..k
      BY <2>2
    <3>2. stk[i].var \in F /\ stk[i].type \in Phase
      BY <3>1 DEF Entry
    <3>3. st.dissolved[stk[i].var] = stk[i].type
      BY <3>1 DEF Kept, Follows
    <3>4. stk[i].var # f
      BY <3>2, <3>3 DEF Phase, Active
    <3>5. QED
      BY <1>1, <1>2, <3>2, <3>3, <3>4
  <2>3. QED
    BY <2>1, <2>2
<1>4. ASSUME NEW g \in F, p.dissolved[g] = "MERGE"
      PROVE  /\ o.state.dissolved[g] = "MERGE"
             /\ o.state.lower[B[g]] = p.lower[B[g]]
             /\ o.state.upper[B[g]] = p.upper[B[g]]
  <2>1. /\ st.dissolved[g] = "MERGE" /\ st.lower[B[g]] = p.lower[B[g]]
        /\ st.upper[B[g]] = p.upper[B[g]]
    BY <1>4 DEF Kept, Frozen
  <2>2. B[g] # f /\ g # f
    BY <2>1, PairFacts DEF Active
  <2>3. QED
    BY <1>1, <1>2, <2>1, <2>2 DEF MergedLeft
<1>5. QED
  BY <1>3, <1>4 DEF Kept, Follows, Frozen, o

-----------------------------------------------------------------------------
(***************************************************************************)
(* A restoration meets no conflict.  A bound of the backup is asserted     *)
(* without one when the opposite bounds admit it; those of an active pair  *)
(* are on the two sides of zero.                                           *)
(***************************************************************************)
LEMMA OutcomeAdmitted ==
  ASSUME NEW st, NEW x, NEW y, st.lower[x].val <= st.upper[x].val,
         st.lower[y].val <= st.upper[y].val
  PROVE  Outcome(st, x, y).conflict = NoConflict
BY DEF Outcome, BoundInvariantHolds

LEMMA LowerAdmitted ==
  ASSUME backup \in State, NEW o, o.state \in State, o.conflict = NoConflict,
         NEW y \in Var, backup.lower[y].val <= o.state.upper[y].val,
         ActiveReluVariable(o.state, y) /\ backup.lower[y].val >= 0
           => backup.lower[y].val <= o.state.upper[Partner(y)].val
  PROVE  ThenLower(o, y).conflict = NoConflict
<1> DEFINE st == o.state
           v == backup.lower[y].val
           l == backup.lower[y].level
<1>1. v \in Int /\ l \in Nat /\ st \in State
  BY DEF State, Bound
<1>2. ThenLower(o, y) \in {o, UpdateLowerBound(st, y, v, l)}
  BY DEF ThenLower
<1>3. CASE ~ActiveReluVariable(st, y) \/ v < 0
  <2> DEFINE new == WithLower(st, {y}, v, l)
  <2>1. UpdateLowerBound(st, y, v, l) = Outcome(new, y, y)
    BY <1>3 DEF UpdateLowerBound
  <2> HIDE DEF v, l, st
  <2>2. /\ new.upper = st.upper
        /\ \A z \in Var : new.lower[z] = IF z \in {y} THEN [val |-> v, level |-> l]
                                         ELSE st.lower[z]
    BY DEF WithLower
  <2> HIDE DEF new
  <2>3. new.lower[y].val <= new.upper[y].val
    BY <2>2 DEF v, st
  <2>4. Outcome(new, y, y).conflict = NoConflict
    BY <2>3, OutcomeAdmitted
  <2>5. QED
    BY <1>2, <2>1, <2>4
<1>4. CASE ActiveReluVariable(st, y) /\ ~(v < 0)
  <2> DEFINE z == Partner(y)
             new == WithLower(st, {y, z}, v, l)
             raised == Outcome(new, y, z)
  <2>1. UpdateLowerBound(st, y, v, l)
          = IF raised.conflict = NoConflict
            THEN [state |-> Dissolve(raised.state, PairOf(y), "MERGE"),
                  conflict |-> NoConflict]
            ELSE raised
    BY <1>4 DEF UpdateLowerBound
  <2>2. z \in Var
    BY <1>4, ActivePair, PairFacts
  <2>3. v <= st.upper[y].val /\ v <= st.upper[z].val
    BY <1>1, <1>4
  <2> HIDE DEF v, l, st, z
  <2>4. /\ new.upper = st.upper
        /\ \A w \in Var : new.lower[w] = IF w \in {y, z} THEN [val |-> v, level |-> l]
                                         ELSE st.lower[w]
    BY <1>1, WithLowerState
  <2> HIDE DEF new
  <2>5. raised.conflict = NoConflict
    BY <2>2, <2>3, <2>4, OutcomeAdmitted
  <2> HIDE DEF raised
  <2>6. QED
    BY <1>2, <2>1, <2>5
<1>5. QED
  BY <1>3, <1>4

LEMMA UpperAdmitted ==
  ASSUME backup \in State, NEW o, o.state \in State, o.conflict = NoConflict,
         NEW y \in Var, o.state.lower[y].val <= backup.upper[y].val,
         \A f \in F : o.state.dissolved[f] = Active
           => o.state.lower[f].val = 0 /\ o.state.lower[B[f]].val < 0
  PROVE  ThenUpper(o, y).conflict = NoConflict
<1> DEFINE st == o.state
           v == backup.upper[y].val
           l == backup.upper[y].level
<1>1. v \in Int /\ l \in Nat /\ st \in State
  BY DEF State, Bound
<1>2. ThenUpper(o, y) \in {o, UpdateUpperBound(st, y, v, l)}
  BY DEF ThenUpper
<1>3. st.lower[y].val <= v
  OBVIOUS
<1>4. ASSUME NEW f \in F, st.dissolved[f] = Active
      PROVE  st.lower[f].val = 0 /\ st.lower[B[f]].val < 0
  BY <1>4
<1> HIDE DEF v, l, st
<1>5. UpdateUpperBound(st, y, v, l).conflict = NoConflict
  <2>1. CASE ~ActiveReluVariable(st, y) \/ (v < 0 /\ y \in F)
    <3> DEFINE new == WithUpper(st, {y}, v, l)
    <3>1. UpdateUpperBound(st, y, v, l) = Outcome(new, y, y)
      BY <2>1 DEF UpdateUpperBound
    <3>2. /\ new.lower = st.lower
          /\ \A z \in Var : new.upper[z] = IF z \in {y} THEN [val |-> v, level |-> l]
                                           ELSE st.upper[z]
      BY <1>1, WithUpperState
    <3> HIDE DEF new
    <3>3. QED
      BY <1>3, <3>1, <3>2, OutcomeAdmitted
  <2>2. CASE ActiveReluVariable(st, y) /\ ~(v < 0 /\ y \in F)
    <3>1. PICK f \in F : /\ PairOf(y) = f /\ st.dissolved[f] = Active
                         /\ \/ y = f /\ Partner(y) = B[f]
                            \/ y = B[f] /\ Partner(y) = f
      BY <2>2, ActivePair
    <3>2. /\ f \in Var /\ B[f] \in Var /\ f # B[f] /\ "SPLIT" \in Phase
          /\ st.lower[f].val = 0 /\ st.lower[B[f]].val < 0
      BY <1>4, <3>1, PairFacts DEF Phase
    <3>3. st.lower[B[f]].val \in Int
      BY <1>1, <3>2 DEF State, Bound
    <3>4. CASE v > 0
      <4> DEFINE new == WithUpper(st, {y, Partner(y)}, v, l)
      <4>1. UpdateUpperBound(st, y, v, l) = Outcome(new, y, Partner(y))
        BY <2>2, <3>4 DEF UpdateUpperBound
      <4>2. /\ new.lower = st.lower
            /\ \A z \in Var : new.upper[z] = IF z \in {y, Partner(y)}
                                             THEN [val |-> v, level |-> l]
                                             ELSE st.upper[z]
        BY <1>1, WithUpperState
      <4> HIDE DEF new
      <4>3. new.upper[f].val = v /\ new.upper[B[f]].val = v
        BY <3>1, <3>2, <4>2
      <4>4. new.lower[f].val <= new.upper[f].val /\ new.lower[B[f]].val <= new.upper[B[f]].val
        BY <1>1, <3>2, <3>3, <3>4, <4>2, <4>3
      <4>5. QED
        BY <3>1, <4>1, <4>4, OutcomeAdmitted
    <3>5. CASE ~(v > 0)
      <4> DEFINE zero == WithUpper(st, {f}, 0, l)
                 both == WithUpper(zero, {B[f]}, v, l)
                 new == Dissolve(both, f, "SPLIT")
      <4>1. UpdateUpperBound(st, y, v, l) = Outcome(new, B[f], f)
        BY <2>2, <3>1, <3>5 DEF UpdateUpperBound
      <4>2. /\ zero \in State /\ zero.lower = st.lower
            /\ \A z \in Var : zero.upper[z] = IF z \in {f} THEN [val |-> 0, level |-> l]
                                              ELSE st.upper[z]
        BY <1>1, WithUpperState
      <4> HIDE DEF zero
      <4>3. /\ both \in State /\ both.lower = st.lower
            /\ \A z \in Var : both.upper[z] = IF z \in {B[f]} THEN [val |-> v, level |-> l]
                                              ELSE zero.upper[z]
        BY <1>1, <4>2, WithUpperState
      <4> HIDE DEF both
      <4>4. new.lower = st.lower /\ new.upper = both.upper
        BY <3>2, <4>3, DissolveState
      <4> HIDE DEF new
      <4>5. new.upper[f].val = 0 /\ new.upper[B[f]].val = v
        BY <3>2, <4>2, <4>3, <4>4
      <4>6. st.lower[B[f]].val <= v
        <5>1. CASE y = B[f]
          BY <1>3, <5>1
        <5>2. CASE y = f
          BY <1>1, <2>2, <3>2, <3>3, <3>5, <5>2
        <5>3. QED
          BY <3>1, <5>1, <5>2
      <4>7. new.lower[f].val <= new.upper[f].val /\ new.lower[B[f]].val <= new.upper[B[f]].val
        BY <3>2, <4>4, <4>5, <4>6
      <4>8. QED
        BY <4>1, <4>7, OutcomeAdmitted
    <3>6. QED
      BY <3>4, <3>5
  <2>3. QED
    BY <2>1, <2>2
<1>6. QED
  BY <1>2, <1>5 DEF v, l, st

LEMMA PlainAdmitted ==
  ASSUME preprocessed \in State, backup \in State, current \in State,
         Shape(preprocessed, preprocessed), preprocessed \in Preprocessed,
         Shape(backup, preprocessed), Traced(backup, preprocessed),
         Frozen(backup, preprocessed), Shape(current, preprocessed),
         index \in Var, Reproduced(current, index),
         ~ActiveReluVariable(current, index)
  PROVE  Reasserted(index).conflict = NoConflict
<1> DEFINE x == index
           o == [state |-> current, conflict |-> NoConflict]
           lo == ThenLower(o, x)
           up == ThenUpper(lo, x)
<1>1. Reasserted(x) = up
  BY DEF Reasserted
<1>2. Plain(preprocessed, x)
  <2> SUFFICES ASSUME ~Plain(preprocessed, x)
               PROVE  FALSE
    OBVIOUS
  <2>1. PICK f \in F : /\ x = f \/ x = B[f]
                       /\ preprocessed.dissolved[f] = Active
    BY NotPlain
  <2>2. ~(f < x) /\ PairOf(x) = f
    BY <2>1, PairFacts, BoundsAssumption DEF Var
  <2>3. current.dissolved[f] = Active
    BY <2>1, <2>2 DEF Reproduced, SamePair
  <2>4. QED
    BY <2>1, <2>2, <2>3 DEF ActiveReluVariable, IsB
<1>3. current.lower[x] = preprocessed.lower[x] /\ current.upper[x] = preprocessed.upper[x]
  BY <1>2 DEF Reproduced, SameBounds, Var
<1>4. /\ backup.lower[x].val \in Int /\ backup.upper[x].val \in Int
      /\ preprocessed.lower[x].val \in Int /\ preprocessed.upper[x].val \in Int
  BY DEF State, Bound
<1>5. /\ preprocessed.lower[x].val <= backup.lower[x].val
      /\ backup.lower[x].val <= backup.upper[x].val
      /\ backup.upper[x].val <= preprocessed.upper[x].val
  <2>1. CASE Seen(backup, x)
    BY <2>1 DEF Shape
  <2>2. CASE ~Seen(backup, x)
    <3>1. PICK f \in F : x = B[f] /\ backup.dissolved[f] = "MERGE"
      BY <2>2 DEF Seen
    <3>2. preprocessed.dissolved[f] = "MERGE"
      BY <1>2, <3>1 DEF Plain, Traced
    <3>3. backup.lower[x] = preprocessed.lower[x] /\ backup.upper[x] = preprocessed.upper[x]
      BY <3>1, <3>2 DEF Frozen
    <3>4. preprocessed.lower[x].val <= preprocessed.upper[x].val
      BY BoundsAssumption
    <3>5. QED
      BY <1>4, <3>3, <3>4
  <2>3. QED
    BY <2>1, <2>2
<1>6. LowerKept(backup, current, x)
  BY <1>2, <1>3 DEF Traced, LowerKept
<1>7. o.state = current /\ o.conflict = NoConflict /\ o.state \in State
  OBVIOUS
<1> HIDE DEF o
<1>8. lo.conflict = NoConflict
  <2>1. backup.lower[x].val <= o.state.upper[x].val
    BY <1>3, <1>4, <1>5, <1>7
  <2>2. QED
    BY <1>7, <2>1, LowerAdmitted
<1>9. /\ lo.state \in State /\ lo.state.upper = current.upper
      /\ lo.state.dissolved = current.dissolved
      /\ lo.state.lower[x] = backup.lower[x]
      /\ \A z \in Var \ {x} : lo.state.lower[z] = current.lower[z]
  BY <1>6, <1>7, <1>8, LowerAsserted
<1> HIDE DEF lo
<1>10. \A f \in F : lo.state.dissolved[f] = Active
         => lo.state.lower[f].val = 0 /\ lo.state.lower[B[f]].val < 0
  <2>1. ASSUME NEW f \in F, lo.state.dissolved[f] = Active
        PROVE  lo.state.lower[f].val = 0 /\ lo.state.lower[B[f]].val < 0
    <3>1. f \in Var /\ B[f] \in Var /\ PairOf(f) = f /\ PairOf(B[f]) = f
      BY PairFacts
    <3>2. current.dissolved[f] = Active
      BY <1>9, <2>1
    <3>3. x # f /\ x # B[f]
      BY <3>1, <3>2 DEF ActiveReluVariable, IsB
    <3>4. current.lower[f].val = 0 /\ current.lower[B[f]].val < 0
      BY <3>2 DEF Shape, PairShape
    <3>5. QED
      BY <1>9, <3>1, <3>3, <3>4
  <2>2. QED
    BY <2>1
<1>11. up.conflict = NoConflict
  BY <1>5, <1>8, <1>9, <1>10, UpperAdmitted
<1>12. QED
  BY <1>1, <1>11

LEMMA PairAdmitted ==
  ASSUME preprocessed \in State, backup \in State, current \in State,
         Shape(backup, preprocessed), Traced(backup, preprocessed),
         Shape(preprocessed, preprocessed), Shape(current, preprocessed),
         NEW f \in F, index = f, Reproduced(current, f),
         current.dissolved[f] = Active
  PROVE  Reasserted(f).conflict = NoConflict
<1> DEFINE o == [state |-> current, conflict |-> NoConflict]
           b == B[f]
<1>1. /\ f \in Var /\ b \in Var /\ b # f /\ b \notin F /\ f \in Int /\ b < f
      /\ PairOf(f) = f /\ PairOf(b) = f /\ Partner(f) = b /\ Partner(b) = f
  BY PairFacts, BoundsAssumption DEF Var
<1>2. ActiveReluVariable(current, f)
  BY <1>1 DEF ActiveReluVariable
<1>3. preprocessed.dissolved[f] = Active
  BY DEF Reproduced
<1>4. SamePair(current, preprocessed, f)
  <2>1. ~(f < f)
    BY <1>1
  <2>2. QED
    BY <1>3, <2>1 DEF Reproduced
<1>5. /\ current.lower[f] = preprocessed.lower[f]
      /\ current.lower[b] = preprocessed.lower[b]
      /\ current.upper[f] = preprocessed.upper[f]
      /\ current.upper[b] = preprocessed.upper[b]
  BY <1>4 DEF SamePair, SameBounds, Active
<1>6. /\ current.lower[b].val < 0 /\ current.upper[f].val > 0
      /\ current.upper[b].val = current.upper[f].val
      /\ current.lower[f].val = 0
  BY <1>3, <1>5 DEF Shape, PairShape
<1>7. PairTraced(backup, preprocessed, f) /\ PairShape(backup, preprocessed, f)
  BY <1>3 DEF Traced, Shape
<1>8. \A z \in Var : /\ backup.lower[z].val \in Int /\ backup.upper[z].val \in Int
                     /\ preprocessed.lower[z].val \in Int
                     /\ preprocessed.upper[z].val \in Int
  BY DEF State, Bound
<1>9. Seen(backup, f) /\ (backup.dissolved[f] # "MERGE" => Seen(backup, b))
  BY <1>1, BoundsAssumption DEF Seen
<1>10. ASSUME NEW z \in {f, b}, Seen(backup, z)
       PROVE  /\ preprocessed.lower[z].val <= backup.lower[z].val
              /\ backup.lower[z].val <= backup.upper[z].val
              /\ backup.upper[z].val <= preprocessed.upper[z].val
  BY <1>1, <1>10 DEF Shape
<1>11. ASSUME NEW g \in F, current.dissolved[g] = Active
       PROVE  current.lower[g].val = 0 /\ current.lower[B[g]].val < 0
  BY <1>11 DEF Shape, PairShape
<1>12. o.state = current /\ o.state \in State /\ o.conflict = NoConflict
  OBVIOUS
<1> HIDE DEF o, b
<1>13. CASE backup.dissolved[f] = Active
  <2> DEFINE up == ThenUpper(o, f)
             lo == ThenLower(up, b)
  <2>1. Reasserted(f) = lo
    BY <1>2, <1>13 DEF Reasserted, o, b
  <2>2. /\ backup.upper[f].val > 0 /\ backup.upper[b] = backup.upper[f]
        /\ backup.lower[b].val < 0
        /\ UpperKept(backup, current, f) /\ UpperKept(backup, current, b)
    BY <1>5, <1>7, <1>13 DEF PairShape, PairTraced, UpperKept, b
  <2>3. up.conflict = NoConflict
    <3>1. o.state.lower[f].val <= backup.upper[f].val
      BY <1>1, <1>6, <1>8, <1>12, <2>2
    <3>2. QED
      BY <1>1, <1>11, <1>12, <3>1, UpperAdmitted
  <2>4. /\ up.state \in State /\ up.state.upper[b] = backup.upper[b]
    BY <1>6, <1>12, <2>2, <2>3, PairUpperAsserted DEF b
  <2> HIDE DEF up
  <2>5. backup.lower[b].val <= up.state.upper[b].val /\ ~(backup.lower[b].val >= 0)
    BY <1>1, <1>8, <1>9, <1>10, <1>13, <2>2, <2>4 DEF Active
  <2>6. lo.conflict = NoConflict
    BY <1>1, <2>3, <2>4, <2>5, LowerAdmitted
  <2>7. QED
    BY <2>1, <2>6
<1>14. CASE backup.dissolved[f] = "SPLIT"
  <2> DEFINE up == ThenUpper(o, b)
             lev == ThenUpperLevel(up, f)
             lo == ThenLower(lev, b)
  <2>1. Reasserted(f) = lo
    BY <1>2, <1>14 DEF Reasserted, o, b, Active
  <2>2. Seen(backup, b) /\ backup.upper[b].val <= 0
    BY <1>7, <1>9, <1>14 DEF PairShape, b
  <2>3. up.conflict = NoConflict
    <3>1. o.state.lower[b].val <= backup.upper[b].val
      BY <1>1, <1>5, <1>8, <1>10, <1>12, <2>2
    <3>2. QED
      BY <1>1, <1>11, <1>12, <3>1, UpperAdmitted
  <2>4. current.upper[b].val > 0
    BY <1>6
  <2>5. /\ up.state \in State
        /\ \A g \in F : up.state.dissolved[g]
             = IF g = f THEN "SPLIT" ELSE current.dissolved[g]
        /\ up.state.upper[b] = backup.upper[b] /\ up.state.upper[f].val = 0
    BY <1>12, <2>2, <2>3, <2>4, SplitAsserted DEF b
  <2> HIDE DEF up
  <2>6. /\ lev.state \in State /\ lev.conflict = NoConflict
        /\ lev.state.dissolved = up.state.dissolved /\ lev.state.upper[b] = backup.upper[b]
    <3>1. PICK v, l : v = up.state.upper[f].val /\ l = backup.upper[f].level
      OBVIOUS
    <3>2. v \in Int /\ l \in Nat
      BY <1>1, <2>5, <3>1 DEF State, Bound
    <3>3. lev.state = WithUpper(up.state, {f}, v, l) /\ lev.conflict = NoConflict
      BY <2>3, <3>1 DEF ThenUpperLevel
    <3>4. /\ lev.state \in State /\ lev.state.dissolved = up.state.dissolved
          /\ \A z \in Var : lev.state.upper[z]
               = IF z \in {f} THEN [val |-> v, level |-> l] ELSE up.state.upper[z]
      BY <2>5, <3>2, <3>3, WithUpperState
    <3>5. QED
      BY <1>1, <2>5, <3>3, <3>4
  <2> HIDE DEF lev
  <2>7. ~ActiveReluVariable(lev.state, b)
    BY <1>1, <2>5, <2>6 DEF ActiveReluVariable, Active
  <2>8. backup.lower[b].val <= lev.state.upper[b].val
    BY <1>10, <2>2, <2>6
  <2>9. lo.conflict = NoConflict
    BY <1>1, <2>6, <2>7, <2>8, LowerAdmitted
  <2>10. QED
    BY <2>1, <2>9
<1>15. CASE backup.dissolved[f] = "MERGE"
  <2> DEFINE mer == ThenLower(o, b)
             lo == ThenLower(mer, f)
             up == ThenUpper(lo, f)
  <2>1. Reasserted(f) = up
    BY <1>2, <1>15 DEF Reasserted, o, b, Active
  <2>2. /\ backup.lower[b].val >= 0
        /\ backup.lower[f].val > backup.lower[b].val \/ backup.lower[f] = backup.lower[b]
    BY <1>7, <1>15 DEF PairTraced, b
  <2>3. /\ backup.lower[b].val <= backup.lower[f].val
        /\ backup.lower[f].val <= backup.upper[f].val
        /\ backup.upper[f].val <= current.upper[f].val
    BY <1>1, <1>5, <1>8, <1>9, <1>10, <2>2
  <2>4. /\ backup.lower[b].val <= current.upper[b].val
        /\ backup.lower[b].val <= current.upper[f].val
        /\ backup.lower[f].val <= current.upper[f].val
        /\ backup.lower[b].val <= backup.upper[f].val
    BY <1>1, <1>5, <1>6, <1>8, <2>3
  <2>5. mer.conflict = NoConflict
    BY <1>1, <1>12, <2>4, LowerAdmitted
  <2>6. /\ mer.state \in State /\ mer.state.upper = current.upper
        /\ \A g \in F : mer.state.dissolved[g]
             = IF g = f THEN "MERGE" ELSE current.dissolved[g]
        /\ mer.state.lower[f] = backup.lower[b]
        /\ \A z \in Var \ {f, b} : mer.state.lower[z] = current.lower[z]
    BY <1>6, <1>12, <2>2, <2>5, MergeAsserted DEF b
  <2> HIDE DEF mer
  <2>7. ~ActiveReluVariable(mer.state, f) /\ LowerKept(backup, mer.state, f)
    BY <1>1, <2>2, <2>6 DEF ActiveReluVariable, LowerKept, Active
  <2>8. lo.conflict = NoConflict
    BY <1>1, <2>4, <2>5, <2>6, <2>7, LowerAdmitted
  <2>9. /\ lo.state \in State /\ lo.state.dissolved = mer.state.dissolved
        /\ lo.state.lower[f] = backup.lower[f]
        /\ \A z \in Var \ {f} : lo.state.lower[z] = mer.state.lower[z]
    BY <1>1, <2>6, <2>7, <2>8, LowerAsserted
  <2> HIDE DEF lo
  <2>10. \A g \in F : lo.state.dissolved[g] = Active
           => lo.state.lower[g].val = 0 /\ lo.state.lower[B[g]].val < 0
    <3>1. ASSUME NEW g \in F, lo.state.dissolved[g] = Active
          PROVE  lo.state.lower[g].val = 0 /\ lo.state.lower[B[g]].val < 0
      <4>1. g # f /\ current.dissolved[g] = Active
        BY <2>6, <2>9, <3>1 DEF Active
      <4>2. g \in Var \ {f, b} /\ B[g] \in Var \ {f, b}
        BY <4>1, PairFacts, PairsApart DEF b
      <4>3. QED
        BY <1>11, <2>6, <2>9, <4>1, <4>2
    <3>2. QED
      BY <3>1
  <2>11. lo.state.lower[f].val <= backup.upper[f].val
    BY <2>3, <2>9
  <2>12. up.conflict = NoConflict
    BY <1>1, <2>8, <2>9, <2>10, <2>11, UpperAdmitted
  <2>13. QED
    BY <2>1, <2>12
<1>16. QED
  BY <1>13, <1>14, <1>15 DEF State, Phase

LEMMA RestorationAdmitted ==
  ASSUME BoundsInv, ShapeInv, TraceInv, FollowInv, pc = "restoring", index \in Var
  PROVE  Reasserted(index).conflict = NoConflict
<1>1. /\ preprocessed \in State /\ backup \in State /\ current \in State
      /\ preprocessed \in Preprocessed /\ Shape(preprocessed, preprocessed)
      /\ Shape(current, preprocessed)
  BY StateFacts, PreprocessedShape DEF ShapeInv
<1>2. /\ Shape(backup, preprocessed) /\ Traced(backup, preprocessed)
      /\ Reproduced(current, index) /\ Frozen(backup, preprocessed)
  BY DEF TraceInv, FollowInv, Kept
<1>3. CASE ~ActiveReluVariable(current, index)
  BY <1>1, <1>2, <1>3, PlainAdmitted
<1>4. CASE ActiveReluVariable(current, index) /\ index \notin F
  BY <1>4 DEF Reasserted
<1>5. CASE ActiveReluVariable(current, index) /\ index \in F
  <2>1. PICK f \in F : f = index
    BY <1>5
  <2>2. current.dissolved[f] = Active
    BY <1>5, <2>1, PairFacts DEF ActiveReluVariable
  <2>3. QED
    BY <1>1, <1>2, <2>1, <2>2, PairAdmitted
<1>6. QED
  BY <1>3, <1>4, <1>5

-----------------------------------------------------------------------------
(***************************************************************************)
(* FollowInv is an invariant.                                              *)
(***************************************************************************)
LEMMA FollowInitially == Init => FollowInv
<1> SUFFICES ASSUME Init
             PROVE  FollowInv
  OBVIOUS
<1>1. current = preprocessed /\ stack = <<>> /\ pc = "loop" /\ Len(stack) = 0
  BY DEF Init
<1>2. QED
  BY <1>1 DEF FollowInv, Kept, Follows, Frozen

\* Merged b's that rows do not mention were not merged before the main loop.
LEMMA FollowingIsSeen ==
  ASSUME NEW p, NEW st, Frozen(st, p), NEW x \in Var, ~MergedB(st, x)
  PROVE  Seen(p, x)
BY SeenIsNotMerged DEF Seen, Frozen

LEMMA TightenFollows ==
  ASSUME BoundsInv, FollowInv, Tighten
  PROVE  FollowInv'
<1>1. PICK x \in Var, v \in Values, l \in Levels :
        \/ TightenLower(x, v, l)
        \/ TightenUpper(x, v, l)
        \/ ApplyStoredLower(x, v, l)
        \/ ApplyStoredUpper(x, v, l)
  BY DEF Tighten
<1>2. PICK n \in Nat : n = Len(stack)
  BY StateFacts
<1>3. /\ v \in Int /\ l \in Nat /\ current \in State /\ stack \in Seq(Entry)
      /\ UNCHANGED <<preprocessed, stack>>
      /\ \A i \in 1..n : stack[i] \in Entry
  <2>1. v \in Int /\ l \in Nat /\ current \in State /\ stack \in Seq(Entry)
    BY BoundsAssumption, StateFacts DEF Levels
  <2>2. UNCHANGED <<preprocessed, stack>>
    BY <1>1 DEF TightenLower, TightenUpper, ApplyStoredLower, ApplyStoredUpper
  <2>3. QED
    BY <1>2, <2>1, <2>2, ElementOfSeq
<1>4. /\ Seen(preprocessed, x)
      /\ Kept(stack, current, preprocessed, n)
      /\ pc = "learning" => Kept(stack, backup, preprocessed, n)
  <2>1. CASE pc = "loop"
    <3>1. ~MergedB(current, x)
      BY <1>1, <2>1 DEF TightenLower, TightenUpper, ApplyStoredLower, ApplyStoredUpper,
                        LowerFollows, UpperFollows
    <3>2. Kept(stack, current, preprocessed, n)
      BY <1>2, <2>1 DEF FollowInv
    <3>3. QED
      BY <2>1, <3>1, <3>2, FollowingIsSeen DEF Kept
  <2>2. CASE pc = "learning"
    <3>1. ~MergedB(backup, x)
      BY <1>1, <2>2 DEF TightenLower, TightenUpper, ApplyStoredLower, ApplyStoredUpper,
                        LowerFollows, UpperFollows
    <3>2. Kept(stack, current, preprocessed, n) /\ Kept(stack, backup, preprocessed, n)
      BY <1>2, <2>2 DEF FollowInv
    <3>3. QED
      BY <2>2, <3>1, <3>2, FollowingIsSeen DEF Kept
  <2>3. QED
    BY <1>1, <2>1, <2>2 DEF TightenLower, TightenUpper, ApplyStoredLower, ApplyStoredUpper
<1>5. PICK o : /\ Apply(o, pc)
               /\ o = UpdateLowerBound(current, x, v, l) \/ o = UpdateUpperBound(current, x, v, l)
  BY <1>1 DEF TightenLower, TightenUpper, ApplyStoredLower, ApplyStoredUpper
<1>6. Dissolves(current, o) /\ MergedLeft(current, o.state, x)
  BY <1>3, <1>5, UpperDissolves, LowerDissolves
<1>7. Kept(stack, o.state, preprocessed, n)
  BY <1>3, <1>4, <1>6, DissolvesKeeps
<1>8. pc \in {"loop", "learning"}
  BY <1>1 DEF TightenLower, TightenUpper, ApplyStoredLower, ApplyStoredUpper
<1>9. CASE o.conflict = NoConflict
  <2>1. /\ current' = o.state /\ pc' = pc
        /\ pc = "learning" => backup' = backup
    BY <1>5, <1>9 DEF Apply
  <2>2. QED
    BY <1>2, <1>3, <1>4, <1>7, <1>8, <2>1 DEF FollowInv
<1>10. CASE o.conflict # NoConflict
  <2>1. pc' \in {"done", "popping"}
    BY <1>5, <1>10 DEF Apply, StartPop, Stop
  <2>2. QED
    BY <1>3, <2>1 DEF FollowInv
<1>11. QED
  BY <1>9, <1>10

\* What has been asserted again is what was in force.
LEMMA RestoredFollows ==
  ASSUME BoundsInv, TraceInv, FollowInv, pc = "restoring", index = NumVariables
  PROVE  Kept(stack, current, preprocessed, Len(stack))
<1>1. /\ Kept(stack, backup, preprocessed, Len(stack))
      /\ current.dissolved = backup.dissolved
      /\ Reproduced(current, NumVariables)
  BY ReproducedIsExact DEF FollowInv, RestoreExact, TraceInv
<1>2. ASSUME NEW f \in F, preprocessed.dissolved[f] = "MERGE"
      PROVE  SameBounds(current, backup, B[f])
  <2>1. B[f] \in Var /\ B[f] < NumVariables
    BY PairFacts, BoundsAssumption DEF Var
  <2>2. Plain(preprocessed, B[f])
    BY <1>2, PairFacts, BoundsAssumption DEF Plain, Active
  <2>3. QED
    BY <1>1, <2>1, <2>2 DEF Reproduced
<1>3. QED
  BY <1>1, <1>2 DEF Kept, Follows, Frozen, SameBounds

LEMMA RestoreFollows ==
  ASSUME BoundsInv, TraceInv, FollowInv, RestoreStart \/ RestoreVariable \/ RestoreDone
  PROVE  FollowInv'
<1>1. CASE RestoreStart
  BY <1>1 DEF RestoreStart, FollowInv
<1>2. CASE RestoreVariable
  <2>1. \/ pc' = "restoring" /\ backup' = backup
        \/ pc' \in {"done", "popping"}
    BY <1>2 DEF RestoreVariable, Apply, StartPop, Stop
  <2>2. pc = "restoring" /\ UNCHANGED <<preprocessed, stack>>
    BY <1>2 DEF RestoreVariable
  <2>3. QED
    BY <2>1, <2>2 DEF FollowInv
<1>3. CASE RestoreDone
  <2>1. /\ pc = "restoring" /\ index = NumVariables /\ pc' = "loop"
        /\ UNCHANGED <<preprocessed, stack, current>>
    BY <1>3 DEF RestoreDone
  <2>2. Kept(stack, current, preprocessed, Len(stack))
    BY <2>1, RestoredFollows
  <2>3. QED
    BY <2>1, <2>2 DEF FollowInv
<1>4. QED
  BY <1>1, <1>2, <1>3

LEMMA DecisionFollows ==
  ASSUME Typed, ShapeInv, FollowInv,
         NEW f \in F, NEW phase \in Phase, DissolveReluOnVar(f, phase)
  PROVE  FollowInv'
<1>1. PICK n \in Nat : n = Len(stack)
  BY TypedFacts
<1>2. PICK o : o = Decided(current, f, phase, n + 1)
  OBVIOUS
<1>3. PICK e : e = [var |-> f, type |-> phase, first |-> TRUE, saved |-> current]
  OBVIOUS
<1>4. /\ pc = "loop" /\ current.dissolved[f] = Active
      /\ stack' = Append(stack, e) /\ Apply(o, "loop") /\ pc' = "loop"
      /\ UNCHANGED preprocessed
  BY <1>1, <1>2, <1>3, InvTyped, DissolveKeepsShape DEF DissolveReluOnVar
<1>5. current' = o.state
  BY <1>4 DEF Apply
<1>6. /\ stack \in Seq(Entry) /\ e \in Entry
      /\ preprocessed \in State /\ Shape(current, preprocessed) /\ n + 1 \in Nat
      /\ Kept(stack, current, preprocessed, n)
  BY <1>1, <1>3, <1>4, TypedFacts DEF Entry, ShapeInv, FollowInv
<1>7. PICK stk \in Seq(Entry) : stk = stack'
  BY <1>4, <1>6
<1>8. /\ Len(stk) = n + 1 /\ stk[n + 1] = e
      /\ \A i \in 1..n : stk[i] = stack[i] /\ stk[i] \in Entry
  BY <1>1, <1>4, <1>6, <1>7, ElementOfSeq
<1>9. Kept(stk, current, preprocessed, n)
  BY <1>6, <1>8, KeptPrefix
<1>10. Kept(stk, o.state, preprocessed, n + 1)
  <2>1. stk[n + 1].var = f /\ stk[n + 1].type = phase
    BY <1>3, <1>8
  <2>2. QED
    BY <1>2, <1>4, <1>6, <1>8, <1>9, <2>1, DecisionKeeps
<1>11. ASSUME NEW i \in 1..n + 1
       PROVE  Kept(stk, stk[i].saved, preprocessed, i - 1)
  <2>1. CASE i = n + 1
    BY <1>3, <1>8, <1>9, <2>1
  <2>2. CASE i # n + 1
    <3>1. i \in 1..n /\ i - 1 \in Nat /\ \A j \in 1..i - 1 : j \in 1..n
      BY <2>2
    <3>2. Kept(stack, stack[i].saved, preprocessed, i - 1)
      BY <1>1, <3>1 DEF FollowInv
    <3>3. Kept(stk, stack[i].saved, preprocessed, i - 1)
      BY <1>8, <3>1, <3>2, KeptPrefix
    <3>4. QED
      BY <1>8, <3>1, <3>3
  <2>3. QED
    BY <2>1, <2>2
<1>12. QED
  BY <1>4, <1>5, <1>7, <1>8, <1>10, <1>11 DEF FollowInv

LEMMA PopFollows ==
  ASSUME Typed, ShapeInv, FollowInv, PopFlip \/ PopDiscard
  PROVE  FollowInv'
<1>1. PICK n \in Nat : n = Len(stack)
  BY TypedFacts
<1>2. stack \in Seq(Entry) /\ stack # <<>> /\ preprocessed \in State
  BY TypedFacts DEF PopFlip, PopDiscard
<1>3. n \in 1..n /\ n - 1 \in Nat /\ Top = stack[n] /\ stack[n] \in Entry
  BY <1>1, <1>2, EmptySeq, ElementOfSeq DEF Top
<1>4. ASSUME NEW stk, \A i \in 1..n - 1 : stk[i] = stack[i], NEW i \in 1..n
      PROVE  Kept(stk, stack[i].saved, preprocessed, i - 1)
  <2>1. i - 1 \in Nat /\ \A j \in 1..i - 1 : j \in 1..n - 1
    OBVIOUS
  <2>2. Kept(stack, stack[i].saved, preprocessed, i - 1)
    BY <1>1 DEF FollowInv
  <2>3. QED
    BY <1>4, <2>1, <2>2, KeptPrefix
<1>5. CASE PopFlip
  <2>1. PICK e : e = [var |-> Top.var, type |-> Opposite(Top.type), first |-> FALSE,
                      saved |-> Top.saved]
    OBVIOUS
  <2>2. e \in Entry /\ e.saved = stack[n].saved /\ Top.var \in F /\ Opposite(Top.type) \in Phase
    BY <1>3, <2>1 DEF Entry, Opposite, Phase
  <2>3. PICK o : o = Decided(Top.saved, Top.var, Opposite(Top.type), n)
    OBVIOUS
  <2>4. /\ stack' = [stack EXCEPT ![n] = e] /\ current' = o.state
        /\ pc' \in {"popping", "loop"} /\ UNCHANGED preprocessed
    BY <1>1, <1>5, <2>1, <2>3, FlipKeepsShape DEF PopFlip
  <2>5. /\ Shape(Top.saved, preprocessed) /\ Top.saved.dissolved[Top.var] = Active
    BY <1>1, <1>3 DEF ShapeInv
  <2>6. PICK stk \in [1..n -> Entry] : stk = stack'
    <3>1. stack \in [1..n -> Entry]
      BY <1>1, <1>2
    <3>2. QED
      BY <2>2, <2>4, <3>1
  <2>7. /\ Len(stk) = n /\ stk[n] = e /\ \A i \in 1..n : stk[i] \in Entry
        /\ \A i \in 1..n - 1 : stk[i] = stack[i]
    <3>1. stack \in [1..n -> Entry]
      BY <1>1, <1>2
    <3>2. QED
      BY <1>3, <2>2, <2>4, <2>6, <3>1
  <2>8. Kept(stk, stack[n].saved, preprocessed, n - 1)
    BY <1>3, <1>4, <2>7
  <2>9. Kept(stk, o.state, preprocessed, n)
    <3>1. stk[(n - 1) + 1].var = Top.var /\ stk[(n - 1) + 1].type = Opposite(Top.type)
      BY <1>3, <2>1, <2>7
    <3>2. \A i \in 1..n - 1 : stk[i] \in Entry
      BY <2>7
    <3>3. Kept(stk, o.state, preprocessed, (n - 1) + 1)
      BY <1>2, <1>3, <2>2, <2>3, <2>5, <2>8, <3>1, <3>2, DecisionKeeps
    <3>4. QED
      BY <1>3, <3>3
  <2>10. ASSUME NEW i \in 1..n
         PROVE  Kept(stk, stk[i].saved, preprocessed, i - 1)
    <3>1. stk[i].saved = stack[i].saved
      BY <2>2, <2>7
    <3>2. QED
      BY <1>4, <2>7, <3>1
  <2>11. QED
    BY <2>4, <2>6, <2>7, <2>9, <2>10 DEF FollowInv
<1>6. CASE PopDiscard
  <2>1. /\ stack' = SubSeq(stack, 1, n - 1) /\ pc' = "popping" /\ UNCHANGED preprocessed
    BY <1>1, <1>6 DEF PopDiscard
  <2>2. PICK stk : stk = stack'
    OBVIOUS
  <2>3. Len(stk) = n - 1 /\ \A i \in 1..n - 1 : i \in 1..n /\ stk[i] = stack[i]
    BY <1>1, <1>2, <1>3, <2>1, <2>2, SubSeqProperties
  <2>4. \A i \in 1..n - 1 : Kept(stk, stk[i].saved, preprocessed, i - 1)
    BY <1>4, <2>3
  <2>5. QED
    BY <2>1, <2>2, <2>3, <2>4 DEF FollowInv
<1>7. QED
  BY <1>5, <1>6

LEMMA FollowKept ==
  BoundsInv /\ ShapeInv /\ TraceInv /\ FollowInv /\ [Next]_vars => FollowInv'
<1> SUFFICES ASSUME BoundsInv, ShapeInv, TraceInv, FollowInv, [Next]_vars
             PROVE  FollowInv'
  OBVIOUS
<1>1. CASE Tighten
  BY <1>1, TightenFollows
<1>2. CASE SolveLp \/ DoneLearning
  BY <1>2 DEF SolveLp, DoneLearning, FollowInv
<1>3. CASE NoSolutionExists
  BY <1>3 DEF NoSolutionExists, StartPop, Stop, FollowInv
<1>4. CASE FoundSolution \/ PopEmpty
  BY <1>4 DEF FoundSolution, PopEmpty, Stop, FollowInv
<1>5. CASE RestoreStart \/ RestoreVariable \/ RestoreDone
  BY <1>5, RestoreFollows
<1>6. CASE \E f \in F, p \in Phase : DissolveReluOnVar(f, p)
  BY <1>6, InvTyped, DecisionFollows
<1>7. CASE PopFlip \/ PopDiscard
  BY <1>7, InvTyped, PopFollows
<1>8. CASE Terminated \/ UNCHANGED vars
  BY <1>8 DEF Terminated, vars, FollowInv
<1>9. QED
  BY <1>1, <1>2, <1>3, <1>4, <1>5, <1>6, <1>7, <1>8 DEF Next

-----------------------------------------------------------------------------
(***************************************************************************)
(* The search that the bounds implement, piece by piece.                   *)
(***************************************************************************)
Mapped(stk) ==
  [i \in 1..Len(stk) |->
     [var |-> stk[i].var, type |-> stk[i].type,
      first |-> stk[i].first, saved |-> stk[i].saved.dissolved]]

SearchStack == Mapped(stack)
SearchPc == IF pc \in {"popping", "done"} THEN pc ELSE "loop"

MappedEntry(e, e0) ==
  /\ e.var = e0.var /\ e.type = e0.type /\ e.first = e0.first
  /\ e.saved = e0.saved.dissolved

LEMMA MappedStack ==
  ASSUME NEW stk \in Seq(Entry)
  PROVE  /\ Mapped(stk) \in Seq(Search!Entry) /\ Len(Mapped(stk)) = Len(stk)
         /\ \A i \in 1..Len(stk) : MappedEntry(Mapped(stk)[i], stk[i])
<1>1. PICK n \in Nat : n = Len(stk)
  OBVIOUS
<1>2. \A i \in 1..n : stk[i] \in Entry
  BY <1>1, ElementOfSeq
<1>3. Mapped(stk) = [i \in 1..n |->
        [var |-> stk[i].var, type |-> stk[i].type,
         first |-> stk[i].first, saved |-> stk[i].saved.dissolved]]
  BY <1>1 DEF Mapped
<1>4. ASSUME NEW i \in 1..n
      PROVE  [var |-> stk[i].var, type |-> stk[i].type, first |-> stk[i].first,
              saved |-> stk[i].saved.dissolved] \in Search!Entry
  BY <1>2 DEF Entry, State, Search!Entry, Search!Phase, Search!Dissolutions,
              Search!Active, Phase, Active
<1>5. Mapped(stk) \in [1..n -> Search!Entry]
  BY <1>3, <1>4
<1>6. Mapped(stk) \in Seq(Search!Entry) /\ Len(Mapped(stk)) = n
  BY <1>5, SeqDef
<1>7. QED
  BY <1>1, <1>3, <1>6 DEF MappedEntry

LEMMA SearchStackFacts ==
  ASSUME Typed
  PROVE  /\ SearchStack \in Seq(Search!Entry) /\ Len(SearchStack) = Len(stack)
         /\ \A i \in 1..Len(stack) : MappedEntry(SearchStack[i], stack[i])
BY TypedFacts, MappedStack DEF SearchStack

LEMMA SearchAgrees ==
  ASSUME Typed, NEW s, NEW k \in 0..Len(stack)
  PROVE  Search!Agrees(Kind(s), k) <=> Agrees(s, k)
<1>1. PICK n \in Nat : n = Len(stack)
  BY TypedFacts
<1>2. \A i \in 1..k : i \in 1..n
  BY <1>1
<1>3. ASSUME NEW i \in 1..k
      PROVE  SearchStack[i].type \in Kind(s)[SearchStack[i].var]
               <=> Fits(s, stack[i].var, stack[i].type)
  <2>1. stack[i] \in Entry
    BY <1>1, <1>2, TypedFacts, ElementOfSeq
  <2>2. stack[i].var \in F /\ stack[i].type \in Phase
    BY <2>1 DEF Entry
  <2>3. SearchStack[i].var = stack[i].var /\ SearchStack[i].type = stack[i].type
    BY <1>1, <1>2, SearchStackFacts DEF MappedEntry
  <2>4. QED
    BY <2>2, <2>3 DEF Kind
<1>4. QED
  BY <1>3 DEF Search!Agrees, Agrees, SearchStack, Mapped

LEMMA SearchRefuted ==
  ASSUME Typed, NEW k \in 0..Len(stack), Refuted(k)
  PROVE  Search!Refuted(k)
BY SearchAgrees DEF Refuted, Search!Refuted

\* What every solution that follows the decisions fits is implied.
LEMMA SearchImplied ==
  ASSUME Typed, NEW f \in F, NEW p \in Phase,
         \A s \in solutions : Agrees(s, Len(stack)) => Fits(s, f, p)
  PROVE  Search!Implied(f, p)
<1>1. Len(stack) \in Nat /\ Len(stack) \in 0..Len(stack)
  BY TypedFacts
<1>2. Len(SearchStack) = Len(stack)
  BY SearchStackFacts
<1>3. \A s \in solutions : Agrees(s, Len(stack)) => p \in Kind(s)[f]
  BY DEF Kind
<1>4. \A s \in solutions : Search!Agrees(Kind(s), Len(SearchStack)) => p \in Kind(s)[f]
  BY <1>1, <1>2, <1>3, SearchAgrees
<1>5. QED
  BY <1>4 DEF Search!Implied, SearchStack, Mapped

\* A step that changes nothing that the search knows.
LEMMA SearchStutters ==
  ASSUME UNCHANGED <<solutions, stack, currentStackDepth, violatingLevel, status>>,
         SearchPc' = SearchPc, DissolvedSeen' = DissolvedSeen
  PROVE  UNCHANGED Search!vars
BY DEF Search!vars, SearchPc

LEMMA StartPopSimulated ==
  ASSUME NEW v, StartPop(v), stack' \in Seq(Entry)
  PROVE  Search!StartPop(v)
<1>1. Len(SearchStack') = Len(stack')
  BY MappedStack DEF SearchStack
<1>2. QED
  BY <1>1 DEF StartPop, Stop, Search!StartPop, Search!Stop, SearchStack, Mapped

\* Solutions that follow the decisions obey justified bounds.
LEMMA FollowersFit ==
  ASSUME BoundsInv, NEW st, Good(solutions, stack, st, Len(stack)),
         NEW s \in solutions, Agrees(s, Len(stack)), NEW x \in Var
  PROVE  /\ s[x] \in Int /\ st.lower[x].val \in Int /\ st.upper[x].val \in Int
         /\ st.lower[x].val <= s[x] /\ s[x] <= st.upper[x].val
<1>1. Len(stack) \in Nat /\ Len(stack) \in 0..Len(stack)
  BY StateFacts
<1>2. s \in FollowersOf(solutions, stack)[Len(stack)]
  BY <1>1 DEF Agrees, FollowersOf
<1>3. Obeys(s, st, Len(stack))
  BY <1>1, <1>2, FollowersObey
<1>4. st.lower[x].level <= Len(stack) /\ st.upper[x].level <= Len(stack)
  BY DEF Good, JustifiedBy
<1>5. st.lower[x].val \in Int /\ st.upper[x].val \in Int
  BY DEF Good, State, Bound
<1>6. s[x] \in Int
  <2>1. s \in [Var -> Values] /\ Values \subseteq Int
    BY BoundsAssumption DEF BoundsInv, TypeOK, Assignments
  <2>2. QED
    BY <2>1
<1>7. QED
  BY <1>3, <1>4, <1>5, <1>6 DEF Obeys

(***************************************************************************)
(* A learned bound dissolves no pair, or one in a phase that the decisions *)
(* imply, or is a conflict at a level that it refutes.                     *)
(***************************************************************************)
LEMMA UpdateSimulated ==
  ASSUME Typed, pc \notin {"popping", "done", "restoring"},
         NEW o, Dissolves(current, o), current' = o.state,
         UNCHANGED <<solutions, stack, currentStackDepth>>,
         \A s \in solutions : Agrees(s, Len(stack)) => \A x \in Var :
           /\ s[x] \in Int /\ o.state.lower[x].val \in Int /\ o.state.upper[x].val \in Int
           /\ o.state.lower[x].val <= s[x] /\ s[x] <= o.state.upper[x].val,
         o.conflict = NoConflict =>
           /\ pc' \notin {"popping", "done", "restoring"}
           /\ UNCHANGED <<violatingLevel, status>>,
         o.conflict # NoConflict => \E k \in 0..Len(stack) : Refuted(k) /\ StartPop(k)
  PROVE  Search!Next \/ UNCHANGED Search!vars
<1>1. DissolvedSeen = current.dissolved /\ SearchPc = "loop"
  BY DEF DissolvedSeen, SearchPc
<1>2. current.dissolved \in [F -> Phase \cup {Active}]
  BY TypedFacts DEF State
<1>3. CASE o.conflict = NoConflict
  <2>1. DissolvedSeen' = o.state.dissolved /\ SearchPc' = SearchPc
    BY <1>1, <1>3 DEF DissolvedSeen, SearchPc
  <2>2. CASE o.state.dissolved = current.dissolved
    BY <1>1, <1>3, <2>1, <2>2, SearchStutters
  <2>3. CASE o.state.dissolved # current.dissolved
    <3>1. PICK f \in F, p \in Phase :
            /\ current.dissolved[f] = Active
            /\ o.state.dissolved = [current.dissolved EXCEPT ![f] = p]
            /\ p = "SPLIT" => o.state.upper[B[f]].val <= 0
            /\ p = "MERGE" => o.state.lower[B[f]].val >= 0
      BY <2>3 DEF Dissolves, Phase
    <3>2. ASSUME NEW s \in solutions, Agrees(s, Len(stack))
          PROVE  Fits(s, f, p)
      <4>1. B[f] \in Var
        BY PairFacts
      <4>2. QED
        BY <3>1, <3>2, <4>1 DEF Fits, Phase
    <3>3. Search!Implied(f, p)
      BY <3>2, SearchImplied
    <3>4. PICK D : D = {f}
      OBVIOUS
    <3>5. PICK phase \in [D -> Phase] : phase[f] = p
      <4>1. [d \in D |-> p] \in [D -> Phase] /\ [d \in D |-> p][f] = p
        BY <3>4
      <4>2. QED
        BY <4>1
    <3>6. D \in (SUBSET Search!ActivePairs) \ {{}}
      BY <1>1, <3>1, <3>4 DEF Search!ActivePairs, Search!Active, Active
    <3>7. \A g \in D : Search!Implied(g, phase[g])
      BY <3>3, <3>4, <3>5
    <3>8. DissolvedSeen' = [g \in F |-> IF g \in D THEN phase[g] ELSE DissolvedSeen[g]]
      BY <1>1, <1>2, <2>1, <3>1, <3>4, <3>5
    <3>9. phase \in [D -> Search!Phase]
      BY DEF Phase, Search!Phase
    <3>10. Search!LearnBounds
      BY <1>1, <1>3, <2>1, <3>6, <3>7, <3>8, <3>9
         DEF Search!LearnBounds, Search!Running, SearchPc
    <3>11. QED
      BY <3>10 DEF Search!Next, Search!Search
  <2>4. QED
    BY <2>2, <2>3
<1>4. CASE o.conflict # NoConflict
  <2>1. PICK k \in 0..Len(stack) : Refuted(k) /\ StartPop(k)
    BY <1>4
  <2>2. pc' \in {"popping", "done"} /\ Search!Refuted(k)
    BY <2>1, SearchRefuted DEF StartPop, Stop
  <2>3. DissolvedSeen' = o.state.dissolved
    BY <2>2 DEF DissolvedSeen
  <2>4. \/ DissolvedSeen' = DissolvedSeen
        \/ \E f \in Search!ActivePairs : DissolvedSeen' = [DissolvedSeen EXCEPT ![f] = "SPLIT"]
    BY <1>1, <1>4, <2>3 DEF Dissolves, Search!ActivePairs, Search!Active, Active
  <2>5. Search!StartPop(k)
    BY <2>1, TypedFacts, StartPopSimulated
  <2>6. Search!BoundConflict(k)
    BY <1>1, <2>2, <2>4, <2>5 DEF Search!BoundConflict, Search!Running, SearchPc
  <2>7. k \in 0..Len(SearchStack)
    BY <2>1, SearchStackFacts
  <2>8. QED
    BY <2>6, <2>7 DEF Search!Next, Search!Search, SearchStack, Mapped
<1>5. QED
  BY <1>3, <1>4

LEMMA LearningSimulated ==
  ASSUME BoundsInv, BoundsInv', ShapeInv, Tighten
  PROVE  Search!Next \/ UNCHANGED Search!vars
<1>1. PICK x \in Var, v \in Values, l \in Levels :
        \/ TightenLower(x, v, l)
        \/ TightenUpper(x, v, l)
        \/ ApplyStoredLower(x, v, l)
        \/ ApplyStoredUpper(x, v, l)
  BY DEF Tighten
<1>2. /\ v \in Int /\ l \in Nat /\ current \in State
      /\ UNCHANGED <<solutions, stack, currentStackDepth>>
      /\ pc \in {"loop", "learning"}
  BY <1>1, BoundsAssumption, StateFacts
     DEF Levels, TightenLower, TightenUpper, ApplyStoredLower, ApplyStoredUpper
<1>3. PICK o : /\ Apply(o, pc) /\ ShapeSoFar(o)
               /\ o = UpdateLowerBound(current, x, v, l) \/ o = UpdateUpperBound(current, x, v, l)
  BY <1>1, LearnedShape DEF TightenLower, TightenUpper, ApplyStoredLower, ApplyStoredUpper
<1>4. Dissolves(current, o) /\ current' = o.state
  BY <1>2, <1>3, UpperDissolves, LowerDissolves DEF Apply
<1>5. Good(solutions, stack, o.state, Len(stack))
  BY <1>2, <1>4 DEF BoundsInv
<1>6. o.conflict = NoConflict => pc' = pc /\ UNCHANGED <<violatingLevel, status>>
  BY <1>3 DEF Apply
<1>7. ASSUME o.conflict # NoConflict
      PROVE  \E k \in 0..Len(stack) : Refuted(k) /\ StartPop(k)
  <2>1. StartPop(o.conflict)
    BY <1>3, <1>7 DEF Apply
  <2>2. o.conflict \in 0..Len(stack) /\ Refuted(o.conflict)
    BY <1>3, <1>5, <1>7, ContradictionRefutes DEF ShapeSoFar
  <2>3. QED
    BY <2>1, <2>2
<1>8. ASSUME NEW s \in solutions, Agrees(s, Len(stack)), NEW y \in Var
      PROVE  /\ s[y] \in Int /\ o.state.lower[y].val \in Int /\ o.state.upper[y].val \in Int
             /\ o.state.lower[y].val <= s[y] /\ s[y] <= o.state.upper[y].val
  BY <1>5, <1>8, FollowersFit
<1>9. QED
  BY <1>2, <1>4, <1>6, <1>7, <1>8, InvTyped, UpdateSimulated

\* The LP solver's verdict, when all decisions in force are refuted.
LEMMA VerdictSimulated ==
  ASSUME Typed, pc \notin {"popping", "done"}, StartPop(currentStackDepth),
         Refuted(Len(stack)), DissolvedSeen' = DissolvedSeen,
         UNCHANGED <<solutions, stack, currentStackDepth>>
  PROVE  Search!Next
<1>1. Len(stack) \in Nat /\ Len(stack) \in 0..Len(stack) /\ stack \in Seq(Entry)
  BY TypedFacts
<1>2. Search!Refuted(Len(SearchStack))
  BY <1>1, SearchRefuted, SearchStackFacts
<1>3. Search!StartPop(currentStackDepth)
  <2>1. PICK d : d = currentStackDepth
    OBVIOUS
  <2>2. StartPop(d) /\ stack' \in Seq(Entry)
    BY <1>1, <2>1
  <2>3. Search!StartPop(d)
    BY <2>2, StartPopSimulated
  <2>4. QED
    BY <2>1, <2>3 DEF Search!StartPop, Search!Stop
<1>4. Search!NoSolutionExists
  BY <1>2, <1>3
     DEF Search!NoSolutionExists, Search!Running, SearchStack, Mapped
<1>5. QED
  BY <1>4 DEF Search!Next, Search!Search

LEMMA LpSimulated ==
  ASSUME BoundsInv, NoSolutionExists
  PROVE  Search!Next
<1>1. Len(stack) \in Nat /\ Len(stack) \in 0..Len(stack)
  BY StateFacts
<1>2. ASSUME NEW s \in solutions, Agrees(s, Len(stack))
      PROVE  FALSE
  <2>1. s \in FollowersOf(solutions, stack)[Len(stack)]
    BY <1>1, <1>2 DEF Agrees, FollowersOf
  <2>2. Obeys(s, current, Len(stack))
    BY <1>1, <2>1, FollowersObey DEF BoundsInv
  <2>3. QED
    BY <2>2 DEF NoSolutionExists
<1>3. Refuted(Len(stack))
  BY <1>2 DEF Refuted
<1>4. /\ pc = "loop" /\ StartPop(currentStackDepth) /\ pc' \in {"popping", "done"}
      /\ UNCHANGED <<solutions, stack, currentStackDepth, current>>
  BY DEF NoSolutionExists, StartPop, Stop
<1>5. DissolvedSeen' = DissolvedSeen
  BY <1>4 DEF DissolvedSeen
<1>6. QED
  BY <1>3, <1>4, <1>5, InvTyped, VerdictSimulated

(***************************************************************************)
(* An accepted solution follows the decisions and fits the dissolved pairs.*)
(***************************************************************************)
LEMMA AcceptedFits ==
  ASSUME Typed, ShapeInv, pc = "loop", NEW s \in solutions, Accepted(s),
         NEW f \in F, current.dissolved[f] # Active
  PROVE  Fits(s, f, current.dissolved[f])
<1>1. /\ Shape(current, preprocessed) /\ current \in State
      /\ f \in Var /\ B[f] \in Var
  BY TypedFacts, PairFacts DEF ShapeInv
<1>2. ASSUME NEW x \in Var
      PROVE  s[x] \in Int /\ current.lower[x].val \in Int /\ current.upper[x].val \in Int
  <2>1. s \in [Var -> Values] /\ Values \subseteq Int
    BY BoundsAssumption DEF Typed, Assignments
  <2>2. QED
    BY <1>1, <2>1 DEF State, Bound
<1>3. ASSUME NEW x \in Var, Seen(current, x)
      PROVE  current.lower[x].val <= s[x] /\ s[x] <= current.upper[x].val
  BY <1>3, SeenIsNotMerged DEF Accepted
<1>4. Seen(current, f) /\ (current.dissolved[f] # "MERGE" => Seen(current, B[f]))
  BY PairFacts, BoundsAssumption DEF Seen
<1>5. PairShape(current, preprocessed, f)
  BY <1>1 DEF Shape
<1>6. CASE current.dissolved[f] = "SPLIT"
  <2>1. current.upper[B[f]].val <= 0 /\ s[B[f]] <= current.upper[B[f]].val
    BY <1>1, <1>3, <1>4, <1>5, <1>6 DEF PairShape
  <2>2. QED
    BY <1>1, <1>2, <1>6, <2>1 DEF Fits
<1>7. CASE current.dissolved[f] = "MERGE"
  <2>1. s[B[f]] = s[f]
    BY <1>7 DEF Accepted
  <2>2. current.lower[f].val >= 0 /\ current.lower[f].val <= s[f]
    BY <1>1, <1>3, <1>4, <1>5 DEF PairShape
  <2>3. QED
    BY <1>1, <1>2, <1>7, <2>1, <2>2 DEF Fits
<1>8. QED
  BY <1>1, <1>6, <1>7 DEF State, Phase

LEMMA FoundSimulated ==
  ASSUME Typed, ShapeInv, FollowInv, FoundSolution
  PROVE  Search!Next
<1>1. /\ pc = "loop" /\ pc' = "done" /\ status' = "SAT"
      /\ UNCHANGED <<solutions, stack, currentStackDepth, current, violatingLevel>>
  BY DEF FoundSolution, Stop
<1>2. PICK s \in solutions : Accepted(s)
  BY DEF FoundSolution
<1>3. PICK n \in Nat : n = Len(stack)
  BY TypedFacts
<1>4. Agrees(s, n)
  <2>1. ASSUME NEW i \in 1..n
        PROVE  Fits(s, stack[i].var, stack[i].type)
    <3>1. stack[i] \in Entry
      BY <1>3, TypedFacts, ElementOfSeq
    <3>2. stack[i].var \in F /\ stack[i].type \in Phase
      BY <3>1 DEF Entry
    <3>3. current.dissolved[stack[i].var] = stack[i].type
      BY <1>1, <1>3 DEF FollowInv, Kept, Follows
    <3>4. current.dissolved[stack[i].var] # Active
      BY <3>2, <3>3 DEF Phase, Active
    <3>5. Fits(s, stack[i].var, current.dissolved[stack[i].var])
      BY <1>1, <1>2, <3>2, <3>4, AcceptedFits
    <3>6. QED
      BY <3>3, <3>5
  <2>2. QED
    BY <2>1 DEF Agrees
<1>5. Search!Agrees(Kind(s), Len(SearchStack))
  BY <1>3, <1>4, SearchAgrees, SearchStackFacts
<1>6. DissolvedSeen = current.dissolved /\ DissolvedSeen' = DissolvedSeen
  BY <1>1 DEF DissolvedSeen
<1>7. ASSUME NEW f \in F \ Search!ActivePairs
      PROVE  DissolvedSeen[f] \in Kind(s)[f]
  <2>1. current.dissolved[f] \in Phase
    BY <1>6, TypedFacts DEF Search!ActivePairs, Search!Active, State, Active
  <2>2. Fits(s, f, current.dissolved[f])
    BY <1>1, <1>2, <2>1, AcceptedFits DEF Phase, Active
  <2>3. QED
    BY <1>6, <2>1, <2>2 DEF Kind
<1>8. Search!FoundSolution
  BY <1>1, <1>2, <1>5, <1>6, <1>7
     DEF Search!FoundSolution, Search!Running, Search!Stop, SearchStack, Mapped
<1>9. QED
  BY <1>8 DEF Search!Next, Search!Search

-----------------------------------------------------------------------------
(***************************************************************************)
(* Decisions and pops, one to one.                                         *)
(***************************************************************************)
MappedOf(e) ==
  [var |-> e.var, type |-> e.type, first |-> e.first, saved |-> e.saved.dissolved]

LEMMA MappedAppend ==
  ASSUME NEW stk \in Seq(Entry), NEW e \in Entry
  PROVE  Mapped(Append(stk, e)) = Append(Mapped(stk), MappedOf(e))
<1>1. PICK n \in Nat : n = Len(stk)
  OBVIOUS
<1>2. PICK long : long = Append(stk, e)
  OBVIOUS
<1>3. Len(long) = n + 1 /\ long[n + 1] = e /\ \A i \in 1..n : long[i] = stk[i]
  BY <1>1, <1>2
<1>4. PICK t \in Seq(Search!Entry) : t = Mapped(long)
  <2>1. long \in Seq(Entry)
    BY <1>2
  <2>2. QED
    BY <2>1, MappedStack
<1>5. PICK s \in Seq(Search!Entry) : s = Mapped(stk)
  BY MappedStack
<1>6. Len(t) = n + 1 /\ Len(s) = n
  <2>1. long \in Seq(Entry)
    BY <1>2
  <2>2. QED
    BY <1>1, <1>3, <1>4, <1>5, <2>1, MappedStack
<1>7. PICK m : m = MappedOf(e)
  OBVIOUS
<1>8. t[n + 1] = m /\ \A i \in 1..n : t[i] = s[i]
  BY <1>1, <1>3, <1>4, <1>5, <1>7 DEF Mapped, MappedOf
<1>9. m \in Search!Entry
  BY <1>6, <1>8, ElementOfSeq
<1>10. PICK u : u = Append(s, m)
  OBVIOUS
<1>11. /\ u \in Seq(Search!Entry)
       /\ Len(u) = n + 1 /\ u[n + 1] = m /\ \A i \in 1..n : u[i] = s[i]
  BY <1>6, <1>9, <1>10, AppendProperties
<1>12. \A i \in 1..Len(t) : t[i] = u[i]
  BY <1>6, <1>8, <1>11
<1>13. t = u
  BY <1>6, <1>11, <1>12, SeqEqual
<1>14. QED
  BY <1>2, <1>4, <1>5, <1>7, <1>10, <1>13

LEMMA MappedExcept ==
  ASSUME NEW stk \in Seq(Entry), NEW n \in 1..Len(stk), NEW e \in Entry
  PROVE  Mapped([stk EXCEPT ![n] = e]) = [Mapped(stk) EXCEPT ![n] = MappedOf(e)]
<1>1. PICK m \in Nat : m = Len(stk)
  OBVIOUS
<1>2. stk \in [1..m -> Entry] /\ n \in 1..m
  BY <1>1
<1>3. PICK new \in [1..m -> Entry] : new = [stk EXCEPT ![n] = e]
  BY <1>2
<1>4. Len(new) = m /\ \A i \in 1..m : new[i] = IF i = n THEN e ELSE stk[i]
  BY <1>2, <1>3
<1>5. Mapped(new) = [i \in 1..m |-> MappedOf(new[i])]
  BY <1>4 DEF Mapped, MappedOf
<1>6. Mapped(stk) = [i \in 1..m |-> MappedOf(stk[i])]
  BY <1>1 DEF Mapped, MappedOf
<1>7. [Mapped(stk) EXCEPT ![n] = MappedOf(e)]
        = [i \in 1..m |-> IF i = n THEN MappedOf(e) ELSE Mapped(stk)[i]]
  BY <1>2, <1>6
<1>8. \A i \in 1..m : MappedOf(new[i]) = IF i = n THEN MappedOf(e) ELSE Mapped(stk)[i]
  BY <1>4, <1>6
<1>9. QED
  BY <1>3, <1>5, <1>7, <1>8

LEMMA MappedFront ==
  ASSUME NEW stk \in Seq(Entry), stk # <<>>
  PROVE  Mapped(SubSeq(stk, 1, Len(stk) - 1))
           = SubSeq(Mapped(stk), 1, Len(Mapped(stk)) - 1)
<1>1. PICK n \in Nat : n = Len(stk)
  OBVIOUS
<1>2. n > 0
  BY <1>1, EmptySeq
<1>3. PICK short : short = SubSeq(stk, 1, n - 1)
  OBVIOUS
<1>4. Len(short) = n - 1 /\ \A i \in 1..n - 1 : short[i] = stk[i]
  BY <1>1, <1>2, <1>3, SubSeqProperties
<1>5. Mapped(short) = [i \in 1..n - 1 |-> MappedOf(short[i])]
  BY <1>4 DEF Mapped, MappedOf
<1>6. Mapped(stk) = [i \in 1..n |-> MappedOf(stk[i])]
  BY <1>1 DEF Mapped, MappedOf
<1>7. Len(Mapped(stk)) = n
  BY <1>1, MappedStack
<1>8. SubSeq(Mapped(stk), 1, n - 1) = [i \in 1..n - 1 |-> Mapped(stk)[i]]
  BY <1>2, <1>7
<1>9. \A i \in 1..n - 1 : MappedOf(short[i]) = Mapped(stk)[i]
  BY <1>2, <1>4, <1>6
<1>10. QED
  BY <1>1, <1>3, <1>5, <1>7, <1>8, <1>9

LEMMA DissolveSimulated ==
  ASSUME Typed, ShapeInv, NEW f \in F, NEW p \in Phase, DissolveReluOnVar(f, p)
  PROVE  Search!Next
<1>1. PICK e : e = [var |-> f, type |-> p, first |-> TRUE, saved |-> current]
  OBVIOUS
<1>2. PICK o : o = Decided(current, f, p, Len(stack) + 1)
  OBVIOUS
<1>3. /\ pc = "loop" /\ pc' = "loop" /\ current.dissolved[f] = Active
      /\ stack' = Append(stack, e) /\ currentStackDepth' = Len(stack')
      /\ Apply(o, "loop") /\ UNCHANGED <<solutions, preprocessed, violatingLevel, status>>
  BY <1>1, <1>2, DissolveKeepsShape DEF DissolveReluOnVar
<1>4. current' = o.state /\ DissolvedSeen = current.dissolved /\ DissolvedSeen' = o.state.dissolved
  BY <1>3 DEF Apply, DissolvedSeen
<1>5. /\ preprocessed \in State /\ current \in State /\ Shape(current, preprocessed)
      /\ stack \in Seq(Entry) /\ e \in Entry /\ Len(stack) + 1 \in Nat
  BY <1>1, <1>3, TypedFacts DEF ShapeInv, Entry
<1>6. o.state.dissolved = [current.dissolved EXCEPT ![f] = p]
  BY <1>2, <1>3, <1>5, DecisionDissolves
<1>7. MappedOf(e) = [var |-> f, type |-> p, first |-> TRUE, saved |-> DissolvedSeen]
  BY <1>1, <1>4 DEF MappedOf
<1>8. /\ stack' \in Seq(Entry)
      /\ SearchStack' = Append(SearchStack,
           [var |-> f, type |-> p, first |-> TRUE, saved |-> DissolvedSeen])
  <2>1. stack' \in Seq(Entry)
    BY <1>3, <1>5, AppendProperties
  <2>2. Mapped(Append(stack, e)) = Append(Mapped(stack), MappedOf(e))
    BY <1>5, MappedAppend
  <2>3. SearchStack' = Append(SearchStack, MappedOf(e))
    BY <1>3, <2>2 DEF SearchStack
  <2>4. QED
    BY <1>7, <2>1, <2>3
<1>9. Len(SearchStack') = Len(stack')
  BY <1>8, MappedStack DEF SearchStack
<1>10. Search!Decide(f, p)
  BY <1>3, <1>4, <1>8 DEF Search!Decide, Search!Running, Search!Active, Active, SearchStack, Mapped
<1>11. Search!DissolveReluOnVar(f, p)
  BY <1>3, <1>4, <1>6, <1>9, <1>10 DEF Search!DissolveReluOnVar, SearchStack, Mapped
<1>12. p \in Search!Phase
  BY DEF Phase, Search!Phase
<1>13. QED
  BY <1>11, <1>12 DEF Search!Next, Search!Search

LEMMA FlipSimulated ==
  ASSUME Typed, ShapeInv, PopFlip
  PROVE  Search!Next
<1>1. PICK n \in Nat : n = Len(stack)
  BY TypedFacts
<1>2. stack \in Seq(Entry) /\ stack # <<>> /\ preprocessed \in State
  BY TypedFacts DEF PopFlip
<1>3. n \in 1..n /\ Top = stack[n] /\ stack[n] \in Entry
  BY <1>1, <1>2, EmptySeq, ElementOfSeq DEF Top
<1>4. PICK f, p, st : f = Top.var /\ p = Opposite(Top.type) /\ st = Top.saved
  OBVIOUS
<1>5. f \in F /\ p \in Phase /\ Top.type \in Phase
  BY <1>3, <1>4 DEF Entry, Opposite, Phase
<1>6. PICK e : e = [var |-> f, type |-> p, first |-> FALSE, saved |-> st]
  OBVIOUS
<1>7. PICK o : o = Decided(st, f, p, n)
  OBVIOUS
<1>8. e \in Entry
  BY <1>3, <1>4, <1>5, <1>6 DEF Entry
<1>9. /\ pc = "popping" /\ Top.first
      /\ stack' = [stack EXCEPT ![n] = e] /\ current' = o.state
      /\ UNCHANGED <<solutions, currentStackDepth, violatingLevel>>
  BY <1>1, <1>4, <1>6, <1>7 DEF PopFlip
<1>10. /\ pc' = IF n > violatingLevel THEN "popping" ELSE "loop"
       /\ UNCHANGED status
  BY <1>1, FlipKeepsShape
<1>11. Shape(st, preprocessed) /\ st.dissolved[f] = Active
  BY <1>1, <1>3, <1>4 DEF ShapeInv
<1>12. o.state.dissolved = [st.dissolved EXCEPT ![f] = p]
  BY <1>2, <1>5, <1>7, <1>11, DecisionDissolves
<1>13. DissolvedSeen' = [st.dissolved EXCEPT ![f] = p]
  BY <1>9, <1>10, <1>12 DEF DissolvedSeen
<1>14. /\ Len(SearchStack) = n /\ SearchStack # <<>>
       /\ MappedEntry(SearchStack[n], stack[n])
  BY <1>1, <1>2, <1>3, SearchStackFacts, EmptySeq
<1>15. /\ SearchStack[n].var = f /\ Search!Opposite(SearchStack[n].type) = p
       /\ SearchStack[n].first /\ SearchStack[n].saved = st.dissolved
  BY <1>3, <1>4, <1>5, <1>9, <1>14 DEF MappedEntry, Opposite, Search!Opposite
<1>16. SearchStack' = [SearchStack EXCEPT ![n] =
         [var |-> f, type |-> p, first |-> FALSE, saved |-> st.dissolved]]
  <2>1. MappedOf(e) = [var |-> f, type |-> p, first |-> FALSE, saved |-> st.dissolved]
    BY <1>6 DEF MappedOf
  <2>2. Mapped([stack EXCEPT ![n] = e]) = [SearchStack EXCEPT ![n] = MappedOf(e)]
    BY <1>1, <1>2, <1>3, <1>8, MappedExcept DEF SearchStack
  <2>3. QED
    BY <1>9, <2>1, <2>2 DEF SearchStack
<1>17. Search!Top = SearchStack[n]
  BY <1>14 DEF Search!Top, SearchStack, Mapped
<1>18. Search!Flip
  BY <1>9, <1>14, <1>15, <1>16, <1>17 DEF Search!Flip, SearchStack, Mapped
<1>19. Search!PopFlip
  BY <1>9, <1>10, <1>13, <1>14, <1>15, <1>17, <1>18 DEF Search!PopFlip, SearchStack, Mapped
<1>20. QED
  BY <1>19 DEF Search!Next, Search!Pop

LEMMA DiscardSimulated ==
  ASSUME Typed, PopDiscard
  PROVE  Search!Next
<1>1. PICK n \in Nat : n = Len(stack)
  BY TypedFacts
<1>2. stack \in Seq(Entry) /\ stack # <<>>
  BY TypedFacts DEF PopDiscard
<1>3. n \in 1..n /\ Top = stack[n]
  BY <1>1, <1>2, EmptySeq DEF Top
<1>4. /\ pc = "popping" /\ pc' = "popping" /\ ~Top.first
      /\ stack' = SubSeq(stack, 1, Len(stack) - 1) /\ current' = Top.saved
      /\ currentStackDepth' = n - 1 /\ UNCHANGED <<solutions, violatingLevel, status>>
  BY <1>1 DEF PopDiscard
<1>5. DissolvedSeen' = Top.saved.dissolved
  BY <1>4 DEF DissolvedSeen
<1>6. /\ Len(SearchStack) = n /\ SearchStack # <<>>
      /\ MappedEntry(SearchStack[n], stack[n])
  BY <1>1, <1>2, <1>3, SearchStackFacts, EmptySeq
<1>7. SearchStack' = SubSeq(SearchStack, 1, Len(SearchStack) - 1)
  BY <1>2, <1>4, MappedFront DEF SearchStack
<1>8. Search!Top = SearchStack[n]
  BY <1>6 DEF Search!Top, SearchStack, Mapped
<1>9. ~Search!Top.first /\ Search!Top.saved = Top.saved.dissolved
  BY <1>3, <1>4, <1>6, <1>8 DEF MappedEntry
<1>10. Search!PopDiscard
  BY <1>4, <1>5, <1>6, <1>7, <1>9 DEF Search!PopDiscard, SearchStack, Mapped
<1>11. QED
  BY <1>10 DEF Search!Next, Search!Pop

LEMMA EmptySimulated ==
  ASSUME Typed, PopEmpty
  PROVE  Search!Next
<1>1. SearchStack = <<>>
  <2>1. SearchStack \in Seq(Search!Entry) /\ Len(SearchStack) = Len(stack)
    BY SearchStackFacts
  <2>2. Len(stack) = 0
    BY DEF PopEmpty
  <2>3. QED
    BY <2>1, <2>2, EmptySeq
<1>2. DissolvedSeen' = DissolvedSeen
  BY DEF PopEmpty, Stop, DissolvedSeen
<1>3. Search!PopEmpty
  BY <1>1, <1>2 DEF PopEmpty, Stop, Search!PopEmpty, Search!Stop, SearchStack, Mapped
<1>4. QED
  BY <1>3 DEF Search!Next, Search!Pop

(***************************************************************************)
(* A restoration is not visible: it meets no conflict, and it ends with    *)
(* the pairs that were dissolved when it began.                            *)
(***************************************************************************)
LEMMA RestorationHidden ==
  ASSUME BoundsInv, ShapeInv, TraceInv, FollowInv,
         RestoreStart \/ RestoreVariable \/ RestoreDone
  PROVE  UNCHANGED Search!vars
<1>1. CASE RestoreStart
  BY <1>1, SearchStutters DEF RestoreStart, SearchPc, DissolvedSeen
<1>2. CASE RestoreVariable
  <2>1. index \in Var
    BY <1>2, BoundsAssumption DEF RestoreVariable, BoundsInv, TypeOK, Var
  <2>2. pc = "restoring" /\ Reasserted(index).conflict = NoConflict
    BY <1>2, <2>1, RestorationAdmitted DEF RestoreVariable
  <2>3. /\ pc' = "restoring" /\ backup' = backup
        /\ UNCHANGED <<solutions, stack, currentStackDepth, violatingLevel, status>>
    BY <1>2, <2>2 DEF RestoreVariable, Apply
  <2>4. QED
    BY <2>2, <2>3, SearchStutters DEF SearchPc, DissolvedSeen
<1>3. CASE RestoreDone
  <2>1. pc = "restoring" /\ index = NumVariables
    BY <1>3 DEF RestoreDone
  <2>2. current.dissolved = backup.dissolved
    BY <2>1, ReproducedIsExact DEF RestoreExact
  <2>3. QED
    BY <1>3, <2>2, SearchStutters DEF RestoreDone, SearchPc, DissolvedSeen
<1>4. QED
  BY <1>1, <1>2, <1>3

LEMMA StepSimulated ==
  BoundsInv /\ BoundsInv' /\ ShapeInv /\ TraceInv /\ FollowInv /\ [Next]_vars
    => [Search!Next]_(Search!vars)
<1> SUFFICES ASSUME BoundsInv, BoundsInv', ShapeInv, TraceInv, FollowInv, [Next]_vars
             PROVE  Search!Next \/ UNCHANGED Search!vars
  OBVIOUS
<1>1. CASE Tighten
  BY <1>1, LearningSimulated
<1>2. CASE SolveLp \/ DoneLearning
  BY <1>2, SearchStutters DEF SolveLp, DoneLearning, SearchPc, DissolvedSeen
<1>3. CASE NoSolutionExists
  BY <1>3, LpSimulated
<1>4. CASE FoundSolution
  BY <1>4, InvTyped, FoundSimulated
<1>5. CASE RestoreStart \/ RestoreVariable \/ RestoreDone
  BY <1>5, RestorationHidden
<1>6. CASE \E f \in F, p \in Phase : DissolveReluOnVar(f, p)
  BY <1>6, InvTyped, DissolveSimulated
<1>7. CASE PopFlip
  BY <1>7, InvTyped, FlipSimulated
<1>8. CASE PopDiscard
  BY <1>8, InvTyped, DiscardSimulated
<1>9. CASE PopEmpty
  BY <1>9, InvTyped, EmptySimulated
<1>10. CASE Terminated \/ UNCHANGED vars
  BY <1>10, SearchStutters DEF Terminated, vars, SearchPc, DissolvedSeen
<1>11. QED
  BY <1>1, <1>2, <1>3, <1>4, <1>5, <1>6, <1>7, <1>8, <1>9, <1>10 DEF Next

-----------------------------------------------------------------------------
(***************************************************************************)
(* The initial states: the kinds of the solutions are kinds, and a pair    *)
(* that the bounds before the main loop dissolved is in a phase that all   *)
(* solutions fit.                                                          *)
(***************************************************************************)
LEMMA KindIsKind ==
  ASSUME NEW s \in [Var -> Int]
  PROVE  Kind(s) \in [F -> {{"SPLIT"}, {"MERGE"}, Phase}]
<1>1. ASSUME NEW f \in F
      PROVE  {p \in Phase : Fits(s, f, p)} \in {{"SPLIT"}, {"MERGE"}, Phase}
  <2>1. s[B[f]] \in Int
    BY PairFacts
  <2>2. s[B[f]] <= 0 \/ s[B[f]] >= 0
    BY <2>1
  <2>3. /\ Fits(s, f, "SPLIT") <=> s[B[f]] <= 0
        /\ Fits(s, f, "MERGE") <=> s[B[f]] >= 0
    BY DEF Fits
  <2>4. CASE Fits(s, f, "SPLIT") /\ Fits(s, f, "MERGE")
    BY <2>4 DEF Phase
  <2>5. CASE ~Fits(s, f, "SPLIT")
    <3>1. Fits(s, f, "MERGE")
      BY <2>2, <2>3, <2>5
    <3>2. {p \in Phase : Fits(s, f, p)} = {"MERGE"}
      BY <2>5, <3>1 DEF Phase
    <3>3. QED
      BY <3>2
  <2>6. CASE ~Fits(s, f, "MERGE")
    <3>1. Fits(s, f, "SPLIT")
      BY <2>2, <2>3, <2>6
    <3>2. {p \in Phase : Fits(s, f, p)} = {"SPLIT"}
      BY <2>6, <3>1 DEF Phase
    <3>3. QED
      BY <3>2
  <2>7. QED
    BY <2>4, <2>5, <2>6
<1>2. QED
  BY <1>1 DEF Kind

LEMMA PreprocessedFits ==
  ASSUME NEW p \in Preprocessed, NEW s \in [Var -> Int], IsSolution(s, p),
         NEW f \in F, p.dissolved[f] # Active
  PROVE  p.dissolved[f] \in Phase /\ Fits(s, f, p.dissolved[f])
<1>1. /\ p \in State /\ B[f] \in Var /\ s[B[f]] \in Int
      /\ p.lower[B[f]].val \in Int /\ p.upper[B[f]].val \in Int
  BY BoundsAssumption, PairFacts DEF State, Bound
<1>2. p.dissolved[f] \in Phase
  BY <1>1 DEF State
<1>3. p.lower[B[f]].val <= s[B[f]] /\ s[B[f]] <= p.upper[B[f]].val
  BY <1>1 DEF IsSolution
<1>4. /\ p.dissolved[f] = "SPLIT" => p.upper[B[f]].val <= 0
      /\ p.dissolved[f] = "MERGE" => 0 <= p.lower[B[f]].val
  BY InitialPairs
<1>5. QED
  BY <1>1, <1>2, <1>3, <1>4 DEF Fits, Phase

LEMMA InitSimulated == Init => Search!Init
<1> SUFFICES ASSUME Init
             PROVE  Search!Init
  OBVIOUS
<1>1. BoundsInv
  BY InitInv
<1>2. /\ preprocessed \in Preprocessed /\ current = preprocessed /\ pc = "loop"
      /\ \A s \in solutions : s \in [Var -> Int] /\ IsSolution(s, preprocessed)
  <2>1. \A s \in solutions : s \in [Var -> Values] /\ Values \subseteq Int
    BY <1>1, BoundsAssumption DEF BoundsInv, TypeOK, Assignments
  <2>2. QED
    BY <2>1, <1>1 DEF Init, BoundsInv
<1>3. DissolvedSeen = preprocessed.dissolved /\ preprocessed.dissolved \in [F -> Phase \cup {Active}]
  BY <1>1, <1>2, StateFacts DEF DissolvedSeen, State
<1>4. {Kind(s) : s \in solutions} \in SUBSET [F -> {{"SPLIT"}, {"MERGE"}, Phase}]
  BY <1>2, KindIsKind
<1>5. ASSUME NEW f \in F \ Search!ActivePairs
      PROVE  Search!Implied(f, DissolvedSeen[f])
  <2>1. preprocessed.dissolved[f] # Active
    BY <1>3 DEF Search!ActivePairs, Search!Active, Active
  <2>2. PICK p : p = preprocessed.dissolved[f]
    OBVIOUS
  <2>3. p \in Phase
    BY <1>3, <2>1, <2>2
  <2>4. \A s \in solutions : Fits(s, f, p)
    BY <1>2, <2>1, <2>2, PreprocessedFits
  <2>5. Search!Implied(f, p)
    BY <1>1, <2>3, <2>4, InvTyped, SearchImplied
  <2>6. QED
    BY <1>3, <2>2, <2>5
<1>6. SearchStack = <<>>
  <2>1. SearchStack \in Seq(Search!Entry) /\ Len(SearchStack) = Len(stack)
    BY <1>1, InvTyped, SearchStackFacts
  <2>2. Len(stack) = 0
    BY DEF Init
  <2>3. QED
    BY <2>1, <2>2, EmptySeq
<1>7. DissolvedSeen \in Search!Dissolutions
  BY <1>3 DEF Search!Dissolutions, Search!Phase, Search!Active, Phase, Active
<1>8. /\ currentStackDepth = 0 /\ violatingLevel = 0 /\ status = "NONE"
  BY DEF Init
<1>9. QED
  BY <1>2, <1>4, <1>5, <1>6, <1>7, <1>8 DEF Search!Init, SearchStack, Mapped

(***************************************************************************)
(* The bounds implement the search: whatever is learned, decided, popped   *)
(* and restored, pairs are dissolved in phases that the decisions imply,   *)
(* conflicts are reported at levels that they refute, pops restore what    *)
(* decisions saved, and no restoration shows.                              *)
(***************************************************************************)
THEOREM BoundsImplementSearch == Spec => ImplementsSearch
<1>1. Spec => []TraceInv
  BY BoundsInvariant, ShapeInvariant, TraceInitially, TraceKept, PTL DEF Spec
<1>2. Spec => []FollowInv
  BY BoundsInvariant, ShapeInvariant, <1>1, FollowInitially, FollowKept, PTL DEF Spec
<1>3. QED
  BY BoundsInvariant, ShapeInvariant, <1>1, <1>2, InitSimulated, StepSimulated, PTL
     DEF Spec, ImplementsSearch, Search!SafetySpec
=============================================================================
