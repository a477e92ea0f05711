--------------------------- MODULE SmtCoreProofs ---------------------------
(***************************************************************************)
(* Proofs about SmtCore, for every set of pairs, every query, every budget *)
(* of violations and both pop strategies: the type invariant, and by the   *)
(* invariant SearchInv the safety properties.  They hold whatever phases   *)
(* the bounds of the caller close, except that the answer UNSAT is only    *)
(* proved right when they close none, and so is the refinement: SmtCore    *)
(* implements CaseSplitting.  LpRepair takes only steps of SmtCore, so it  *)
(* inherits all of this, whatever the LP solver fails at.                  *)
(***************************************************************************)
EXTENDS LpRepair, SequenceTheorems, WellFoundedInduction, TLAPS

-----------------------------------------------------------------------------
(***************************************************************************)
(* What the four ways to change the stack do to it, entry by entry.        *)
(***************************************************************************)

\* Decide pushes one well-formed entry and leaves the others alone.
LEMMA PushStack ==
  ASSUME TypeOK, NEW e \in Entry, stack' = Append(stack, e)
  PROVE  /\ Len(stack) \in Nat
         /\ stack' \in Seq(Entry)
         /\ Len(stack') = Len(stack) + 1
         /\ \A i \in 1..Len(stack) : stack'[i] = stack[i]
         /\ stack'[Len(stack) + 1] = e
BY DEF TypeOK

\* The entry that Decide pushes.
Decision(f, p) == [var |-> f, type |-> p, first |-> TRUE, saved |-> dissolved]

LEMMA DecisionType ==
  ASSUME TypeOK, NEW f \in F, NEW p \in Phase
  PROVE  Decision(f, p) \in Entry
BY DEF Decision, TypeOK, Entry

\* Flip turns the top entry over and leaves the others alone.
LEMMA FlipStack ==
  ASSUME TypeOK, Flip
  PROVE  /\ Len(stack) \in Nat \ {0}
         /\ Top \in Entry
         /\ stack' \in Seq(Entry)
         /\ Len(stack') = Len(stack)
         /\ \A i \in 1..Len(stack) - 1 : stack'[i] = stack[i]
         /\ stack'[Len(stack)] = [var |-> Top.var, type |-> Opposite(Top.type),
                                  first |-> FALSE, saved |-> Top.saved]
<1> DEFINE e == [var |-> Top.var, type |-> Opposite(Top.type), first |-> FALSE,
                 saved |-> Top.saved]
<1>1. /\ stack \in Seq(Entry)
      /\ stack # <<>>
      /\ stack' = [stack EXCEPT ![Len(stack)] = e]
  BY DEF TypeOK, Flip
<1>2. Len(stack) \in Nat \ {0} /\ Top \in Entry
  BY <1>1, EmptySeq, ElementOfSeq DEF Top
<1>3. e \in Entry
  BY <1>2 DEF Entry, Opposite, Phase
<1> HIDE DEF e
<1>4. /\ stack' \in Seq(Entry)
      /\ Len(stack') = Len(stack)
      /\ \A i \in 1..Len(stack) - 1 : stack'[i] = stack[i]
      /\ stack'[Len(stack)] = e
  BY <1>1, <1>2, <1>3
<1>5. QED
  BY <1>2, <1>4 DEF e

\* A sequence without its last element.
LEMMA AllButLast ==
  ASSUME NEW S, NEW s \in Seq(S), s # <<>>
  PROVE  LET t == SubSeq(s, 1, Len(s) - 1)
         IN  /\ t \in Seq(S)
             /\ Len(t) = Len(s) - 1
             /\ \A i \in 1..Len(s) - 1 : t[i] = s[i]
<1>1. PICK n \in Nat : Len(s) = n + 1
  <2>1. Len(s) \in Nat \ {0}
    BY EmptySeq
  <2>2. Len(s) - 1 \in Nat /\ Len(s) = (Len(s) - 1) + 1
    BY <2>1
  <2>3. QED
    BY <2>2
<1>2. Len(s) - 1 = n
  BY <1>1
<1>3. SubSeq(s, 1, n) \in Seq(S) /\ Len(SubSeq(s, 1, n)) = n
  BY <1>1
<1>4. \A i \in 1..n : SubSeq(s, 1, n)[i] = s[i]
  BY <1>1
<1>5. QED
  BY <1>2, <1>3, <1>4

\* PopDiscard removes the top entry and leaves the others alone.
LEMMA DiscardStack ==
  ASSUME TypeOK, PopDiscard
  PROVE  /\ Len(stack) \in Nat \ {0}
         /\ Top \in Entry
         /\ stack' \in Seq(Entry)
         /\ Len(stack') = Len(stack) - 1
         /\ \A i \in 1..Len(stack) - 1 : stack'[i] = stack[i]
<1>1. /\ stack \in Seq(Entry)
      /\ stack # <<>>
      /\ stack' = SubSeq(stack, 1, Len(stack) - 1)
  BY DEF TypeOK, PopDiscard
<1>2. Len(stack) \in Nat \ {0} /\ Top \in Entry
  BY <1>1, EmptySeq, ElementOfSeq DEF Top
<1>3. /\ stack' \in Seq(Entry)
      /\ Len(stack') = Len(stack) - 1
      /\ \A i \in 1..Len(stack) - 1 : stack'[i] = stack[i]
  BY <1>1, AllButLast, Zenon
<1>4. QED
  BY <1>2, <1>3

-----------------------------------------------------------------------------
(***************************************************************************)
(* Type correctness.                                                       *)
(***************************************************************************)
LEMMA InitTypeOK == Init => TypeOK
<1> SUFFICES ASSUME Init PROVE TypeOK
  OBVIOUS
<1>1. stack \in Seq(Entry)
  BY EmptySeq DEF Init
<1>2. feasible \subseteq Kinds
  BY SmtCoreAssumption DEF Init
<1>3. dissolved \in Dissolutions /\ fToViolations \in [F -> Nat]
  BY DEF Init, Dissolutions
<1>4. QED
  BY <1>1, <1>2, <1>3 DEF Init, TypeOK

LEMMA StartPopType ==
  ASSUME NEW v \in Nat, stack' \in Seq(Entry), StartPop(v), TypeOK
  PROVE  /\ pc' \in {"loop", "popping", "done"}
         /\ violatingLevel' \in Nat
         /\ status' \in {"NONE", "SAT", "UNSAT", "NOT_DONE", "ERROR"}
BY DEF StartPop, Stop, TypeOK

LEMMA NextTypeOK == TypeOK /\ [Next]_vars => TypeOK'
<1> SUFFICES ASSUME TypeOK, [Next]_vars PROVE TypeOK'
  OBVIOUS
<1>1. CASE FoundSolution
  BY <1>1 DEF FoundSolution, Stop, TypeOK
<1>2. CASE QuitLoop
  BY <1>2 DEF QuitLoop, Stop, TypeOK
<1>3. CASE ErrorThrown
  BY <1>3 DEF ErrorThrown, Stop, TypeOK
<1>4. CASE LearnBounds
  <2>1. dissolved' \in Dissolutions
    BY <1>4 DEF LearnBounds, ActivePairs, TypeOK, Dissolutions
  <2>2. QED
    BY <1>4, <2>1 DEF LearnBounds, TypeOK
<1>5. ASSUME NEW v \in 0..Len(stack), BoundConflict(v) PROVE TypeOK'
  <2>1. v \in Nat /\ stack' = stack
    BY <1>5 DEF BoundConflict, TypeOK
  <2>2. dissolved' \in Dissolutions
    BY <1>5 DEF BoundConflict, ActivePairs, TypeOK, Dissolutions, Phase
  <2>3. QED
    BY <1>5, <2>1, <2>2, StartPopType DEF BoundConflict, TypeOK
<1>6. CASE NoSolutionExists
  BY <1>6, StartPopType DEF NoSolutionExists, TypeOK
<1>7. ASSUME NEW f \in F, FixBrokenRelu(f) PROVE TypeOK'
  <2>1. fToViolations' \in [F -> Nat]
    BY <1>7 DEF FixBrokenRelu, TypeOK
  <2>2. QED
    BY <1>7, <2>1, StartPopType DEF FixBrokenRelu, TypeOK
<1>8. ASSUME NEW f \in F, NEW p \in Phase, DissolveReluOnVar(f, p)
      PROVE TypeOK'
  <2>1. stack' = Append(stack, Decision(f, p))
    BY <1>8 DEF DissolveReluOnVar, Decide, Decision
  <2>2. stack' \in Seq(Entry) /\ Len(stack') \in Nat
    BY <2>1, DecisionType, PushStack
  <2>3. dissolved' \in Dissolutions /\ fToViolations' \in [F -> Nat]
    BY <1>8 DEF DissolveReluOnVar, TypeOK, Dissolutions
  <2>4. QED
    BY <1>8, <2>2, <2>3 DEF DissolveReluOnVar, TypeOK
<1>9. ASSUME NEW f \in F, NEW p \in Phase, DissolveThrows(f, p)
      PROVE TypeOK'
  <2>1. stack' = Append(stack, Decision(f, p))
    BY <1>9 DEF DissolveThrows, Decide, Decision
  <2>2. stack' \in Seq(Entry) /\ Len(stack') \in Nat
    BY <2>1, DecisionType, PushStack
  <2>3. dissolved' \in Dissolutions /\ fToViolations' \in [F -> Nat]
    BY <1>9 DEF DissolveThrows, TypeOK, Dissolutions
  <2>4. StartPop(Len(stack'))
    BY <1>9 DEF DissolveThrows
  <2>5. QED
    BY <1>9, <2>2, <2>3, <2>4, StartPopType DEF DissolveThrows, TypeOK
<1>10. CASE PopFlip
  <2>1. Flip
    BY <1>10 DEF PopFlip
  <2>2. dissolved' \in Dissolutions
    BY <1>10, <2>1, FlipStack DEF PopFlip, Entry, Dissolutions, Opposite, Phase
  <2>3. QED
    BY <1>10, <2>1, <2>2, FlipStack DEF PopFlip, TypeOK
<1>11. CASE PopFlipThrows
  <2>1. Flip
    BY <1>11 DEF PopFlipThrows
  <2>2. dissolved' \in Dissolutions
    BY <1>11, <2>1, FlipStack DEF PopFlipThrows, Entry, Dissolutions, Phase
  <2>3. QED
    BY <1>11, <2>1, <2>2, FlipStack DEF PopFlipThrows, Stop, TypeOK
<1>12. CASE PopDiscard
  <2>1. dissolved' \in Dissolutions
    BY <1>12, DiscardStack DEF PopDiscard, Entry
  <2>2. currentStackDepth' \in Nat
    BY <1>12, DiscardStack DEF PopDiscard
  <2>3. QED
    BY <1>12, <2>1, <2>2, DiscardStack DEF PopDiscard, TypeOK
<1>13. CASE PopEmpty
  BY <1>13 DEF PopEmpty, Stop, TypeOK
<1>14. CASE Quit
  BY <1>14 DEF Quit, TypeOK
<1>15. CASE Terminated \/ UNCHANGED vars
  BY <1>15 DEF Terminated, vars, TypeOK
<1>16. QED
  BY <1>1, <1>2, <1>3, <1>4, <1>5, <1>6, <1>7, <1>8, <1>9, <1>10, <1>11,
     <1>12, <1>13, <1>14, <1>15 DEF Next, Search, Pop

(***************************************************************************)
(* Every variable keeps its type, in every run of the solver.              *)
(***************************************************************************)
THEOREM TypeCorrect == Spec => []TypeOK
BY InitTypeOK, NextTypeOK, PTL DEF Spec, SafetySpec

-----------------------------------------------------------------------------
(***************************************************************************)
(* A set of naturals has a least element.                                  *)
(***************************************************************************)
LEMMA LeastElement ==
  ASSUME NEW T, T \subseteq Nat, T # {}
  PROVE  \E x \in T : \A y \in T : x <= y
<1> DEFINE Less == {ss \in Nat \X Nat : ss[1] < ss[2]}
<1>1. IsWellFoundedOn(Less, Nat)
  BY NatLessThanWellFounded DEF OpToRel
<1> HIDE DEF Less
<1>2. PICK x \in T : \A y \in T : <<y, x>> \notin Less
  BY <1>1, WFMin
<1>3. ASSUME NEW y \in T PROVE x <= y
  <2>1. x \in Nat /\ y \in Nat
    OBVIOUS
  <2>2. ~(y < x)
    BY <1>2, <2>1 DEF Less
  <2>3. QED
    BY <2>1, <2>2
<1>4. QED
  BY <1>3

(***************************************************************************)
(* Refuting fewer decisions refutes more of them.                          *)
(***************************************************************************)
LEMMA RefutedAbove ==
  ASSUME NEW k \in Nat, NEW m \in Nat, k <= m, Refuted(k)
  PROVE  Refuted(m)
BY DEF Refuted, Agrees

(***************************************************************************)
(* The argument for backjumping over decisions without an attempt left: a  *)
(* solution that leaves the stack first at one of them is excluded by what *)
(* refuted its other phase.                                                *)
(***************************************************************************)
LEMMA RefutedBelow ==
  ASSUME TypeOK, SiblingsRefuted, NEW d \in 0..Len(stack),
         \A i \in d + 1 .. Len(stack) : ~stack[i].first,
         Refuted(Len(stack))
  PROVE  Refuted(d)
<1> SUFFICES ASSUME NEW s \in feasible, Agrees(s, d) PROVE FALSE
  BY DEF Refuted
<1> DEFINE Leaves == {i \in 1..Len(stack) : stack[i].type \notin s[stack[i].var]}
<1>1. Len(stack) \in Nat /\ Leaves \subseteq Nat
  BY DEF TypeOK
<1>2. Leaves # {}
  BY DEF Refuted, Agrees
<1>3. PICK i \in Leaves : \A j \in Leaves : i <= j
  BY <1>1, <1>2, LeastElement
<1>4. i \in d + 1 .. Len(stack)
  BY <1>1 DEF Agrees
<1>5. Agrees(s, i - 1)
  BY <1>1, <1>3 DEF Agrees
<1>6. stack[i] \in Entry /\ s \in Kinds
  BY ElementOfSeq DEF TypeOK
<1>7. Opposite(stack[i].type) \in s[stack[i].var]
  BY <1>6 DEF Entry, Kinds, Phase, Opposite
<1>8. SiblingRefuted(i)
  BY <1>4 DEF SiblingsRefuted
<1>9. QED
  BY <1>5, <1>7, <1>8 DEF SiblingRefuted

(***************************************************************************)
(* What a prefix of the stack refutes depends on that prefix alone.        *)
(***************************************************************************)
LEMMA SamePrefix ==
  ASSUME NEW k \in Nat, \A i \in 1..k : stack'[i] = stack[i],
         feasible' = feasible
  PROVE  /\ \A s : Agrees(s, k)' <=> Agrees(s, k)
         /\ Refuted(k)' <=> Refuted(k)
BY DEF Agrees, Refuted

LEMMA SameSiblings ==
  ASSUME NEW k \in Nat, \A i \in 1..k : stack'[i] = stack[i],
         feasible' = feasible, NEW i \in 1..k
  PROVE  SiblingRefuted(i)' <=> SiblingRefuted(i)
<1>1. i - 1 \in Nat /\ \A j \in 1..i - 1 : stack'[j] = stack[j]
  OBVIOUS
<1>2. \A s : Agrees(s, i - 1)' <=> Agrees(s, i - 1)
  BY <1>1, SamePrefix
<1>3. QED
  BY <1>2 DEF SiblingRefuted

-----------------------------------------------------------------------------
(***************************************************************************)
(* SearchInv holds initially.                                              *)
(***************************************************************************)
LEMMA InitSearchInv == Init => SearchInv
<1> SUFFICES ASSUME Init PROVE SearchInv
  OBVIOUS
<1>1. TypeOK
  BY InitTypeOK
<1>2. stack = <<>> /\ Len(stack) = 0 /\ pc = "loop" /\ currentStackDepth = 0
  BY EmptySeq DEF Init
<1>3. QueryObeysBounds /\ DissolvedSound
  <2>1. \A f \in F \ ActivePairs : Implied(f, dissolved[f])
    BY DEF Init
  <2>2. QED
    BY <2>1 DEF Init, QueryObeysBounds, DissolvedSound
<1>4. SiblingsRefuted /\ SavedSound /\ SavedBeforeDecision
  BY <1>2 DEF SiblingsRefuted, SavedSound, SavedBeforeDecision
<1>5. PopStaysJustified /\ DepthLags
  BY <1>2 DEF PopStaysJustified, DepthLags
<1>6. QED
  BY <1>1, <1>3, <1>4, <1>5 DEF SearchInv

(***************************************************************************)
(* A step that changes neither the stack nor what is restored with it      *)
(* keeps SearchInv, unless it starts a pop without a reason.               *)
(***************************************************************************)
LEMMA SameStack ==
  ASSUME SearchInv, TypeOK',
         UNCHANGED <<feasible, stack, dissolved, currentStackDepth>>,
         pc' = "loop" => pc = "loop",
         pc' # "done" => pc # "done",
         pc' = "popping" => Refuted(PopTarget')
  PROVE  SearchInv'
<1>1. QueryObeysBounds' /\ SiblingsRefuted' /\ SavedSound'
  BY DEF SearchInv, QueryObeysBounds, SiblingsRefuted, SiblingRefuted,
         SavedSound, Agrees
<1>2. PopStaysJustified'
  BY DEF PopStaysJustified, PopTarget, Refuted, Agrees
<1>3. DepthLags' /\ SavedBeforeDecision'
  BY DEF SearchInv, DepthLags, SavedBeforeDecision
<1>4. DissolvedSound'
  BY DEF SearchInv, DissolvedSound, ActivePairs, Implied, Agrees
<1>5. QED
  BY <1>1, <1>2, <1>3, <1>4 DEF SearchInv

(***************************************************************************)
(* A pop that starts at a refuted level of the stack is justified.         *)
(***************************************************************************)
LEMMA StartPopJustified ==
  ASSUME Len(stack') \in Nat, NEW v \in 0..Len(stack'), Refuted(v)', StartPop(v),
         pc # "done"
  PROVE  /\ pc' = "popping" => Refuted(PopTarget)'
         /\ pc' # "loop"
<1>1. violatingLevel' \in {v, Len(stack')} \/ pc' = "done"
  BY DEF StartPop, Stop
<1>2. PopTarget' \in {v, Len(stack')} \/ pc' = "done"
  BY <1>1 DEF PopTarget
<1>3. Refuted(Len(stack))'
  BY DEF Refuted, Agrees
<1>4. QED
  BY <1>2, <1>3 DEF StartPop, Stop

(***************************************************************************)
(* The steps of the main loop.                                             *)
(***************************************************************************)
LEMMA ConflictKeepsInv ==
  ASSUME SearchInv, TypeOK', NEW v \in 0..Len(stack), Refuted(v), StartPop(v),
         pc # "done",
         UNCHANGED <<feasible, stack, currentStackDepth>>
  PROVE  SearchInv'
<1>1. Len(stack') \in Nat /\ v \in 0..Len(stack') /\ Refuted(v)'
  BY DEF SearchInv, TypeOK, Refuted, Agrees
<1>2. /\ pc' = "popping" => Refuted(PopTarget)'
      /\ pc' # "loop"
  BY <1>1, StartPopJustified
<1>3. QueryObeysBounds' /\ SiblingsRefuted' /\ SavedSound'
  BY DEF SearchInv, QueryObeysBounds, SiblingsRefuted, SiblingRefuted,
         SavedSound, Agrees
<1>4. DepthLags' /\ SavedBeforeDecision'
  BY <1>2 DEF SearchInv, DepthLags, SavedBeforeDecision
<1>5. DissolvedSound'
  <2>1. \A s \in feasible : ~Agrees(s, Len(stack))
    BY DEF Refuted, Agrees
  <2>2. QED
    BY <2>1 DEF DissolvedSound, Implied, Agrees
<1>6. QED
  BY <1>2, <1>3, <1>4, <1>5 DEF SearchInv, PopStaysJustified

\* The default level of progress() is the remembered depth.
LEMMA DefaultLevelRefuted ==
  ASSUME SearchInv, pc = "loop", Refuted(Len(stack))
  PROVE  currentStackDepth \in 0..Len(stack) /\ Refuted(currentStackDepth)
<1>1. TypeOK /\ SiblingsRefuted /\ DepthLags
  BY DEF SearchInv
<1>2. currentStackDepth \in 0..Len(stack)
  BY <1>1 DEF DepthLags, TypeOK
<1>3. \A i \in currentStackDepth + 1 .. Len(stack) : ~stack[i].first
  BY <1>1 DEF DepthLags
<1>4. QED
  BY <1>1, <1>2, <1>3, RefutedBelow

LEMMA LearnKeepsInv ==
  ASSUME SearchInv, TypeOK', LearnBounds
  PROVE  SearchInv'
<1>1. UNCHANGED <<feasible, stack, currentStackDepth, pc, violatingLevel>>
  BY DEF LearnBounds
<1>2. PICK D \in (SUBSET ActivePairs) \ {{}} : \E phase \in [D -> Phase] :
        /\ \A f \in D : Implied(f, phase[f]) /\ <<f, phase[f]>> \notin ClosedPhases
        /\ dissolved' = [f \in F |-> IF f \in D THEN phase[f] ELSE dissolved[f]]
  BY DEF LearnBounds
<1>3. PICK phase \in [D -> Phase] :
        /\ \A f \in D : Implied(f, phase[f])
        /\ dissolved' = [f \in F |-> IF f \in D THEN phase[f] ELSE dissolved[f]]
  BY <1>2
<1>4. QueryObeysBounds' /\ SiblingsRefuted' /\ SavedSound' /\ PopStaysJustified'
  BY <1>1 DEF SearchInv, QueryObeysBounds, SiblingsRefuted, SiblingRefuted,
              SavedSound, PopStaysJustified, PopTarget, Refuted, Agrees
<1>5. DepthLags'
  BY <1>1 DEF SearchInv, DepthLags
<1>6. \A f \in F : dissolved'[f] # Active <=> (f \in D \/ dissolved[f] # Active)
  BY <1>3 DEF Phase, Active
<1>7. SavedBeforeDecision'
  <2>1. \A i \in 1..Len(stack) : stack[i] \in Entry
    BY ElementOfSeq DEF SearchInv, TypeOK
  <2>2. \A i \in 1..Len(stack) : stack[i].var \in F
    BY <2>1 DEF Entry
  <2>3. QED
    BY <1>1, <1>6, <2>2 DEF SearchInv, SavedBeforeDecision
<1>8. \A f \in F : dissolved'[f] # Active => Implied(f, dissolved'[f])
  BY <1>3 DEF LearnBounds, Running, SearchInv, DissolvedSound, ActivePairs
<1>9. DissolvedSound'
  BY <1>1, <1>8 DEF DissolvedSound, ActivePairs, Implied, Agrees
<1>10. QED
  BY <1>4, <1>5, <1>7, <1>9 DEF SearchInv

(***************************************************************************)
(* A decision, whether its bound update goes through or throws: the pushed *)
(* state is as justified as the one it was copied from.                    *)
(***************************************************************************)
LEMMA PushKeepsInv ==
  ASSUME SearchInv, pc = "loop", NEW f \in F, NEW p \in Phase,
         dissolved[f] = Active,
         stack' = Append(stack, Decision(f, p)),
         feasible' = feasible,
         \A g \in F : dissolved'[g] = dissolved[g] \/ (g = f /\ dissolved'[g] = p)
  PROVE  /\ QueryObeysBounds' /\ SiblingsRefuted' /\ SavedSound' /\ DissolvedSound'
         /\ \A i \in 1..Len(stack') : stack'[i].saved[stack'[i].var] = Active
         /\ \A i \in 1..Len(stack') : \A j \in 1..i - 1 :
              stack'[i].saved[stack'[j].var] # Active
<1>1. /\ TypeOK /\ SiblingsRefuted /\ SavedSound /\ DissolvedSound
      /\ SavedBeforeDecision /\ QueryObeysBounds
  BY DEF SearchInv
<1>0. PICK n \in Nat : n = Len(stack)
  BY DEF SearchInv, TypeOK
<1>2. /\ n \in Nat
      /\ Len(stack) = n
      /\ Len(stack') = n + 1
      /\ \A i \in 1..n : stack'[i] = stack[i]
      /\ stack'[n + 1] = Decision(f, p)
  BY <1>0, <1>1, DecisionType, PushStack
<1>3. /\ stack'[n + 1].var = f
      /\ stack'[n + 1].type = p
      /\ stack'[n + 1].first
      /\ stack'[n + 1].saved = dissolved
  BY <1>2 DEF Decision
<1>4. \A i \in 1..n + 1 : i \in 1..n \/ i = n + 1
  BY <1>2
<1>6. \A g \in F : dissolved[g] # Active =>
        \A s \in feasible : Agrees(s, n) => dissolved[g] \in s[g]
  BY <1>1, <1>2 DEF DissolvedSound, ActivePairs, Implied
<1>7. QueryObeysBounds'
  BY <1>1 DEF QueryObeysBounds
<1>8. SiblingsRefuted'
  <2>1. \A i \in 1..n : SiblingRefuted(i)' <=> SiblingRefuted(i)
    BY <1>2, SameSiblings
  <2>2. \A i \in 1..n : ~stack'[i].first => SiblingRefuted(i)'
    BY <1>1, <1>2, <2>1 DEF SiblingsRefuted
  <2>3. QED
    BY <1>2, <1>3, <1>4, <2>2 DEF SiblingsRefuted
<1>9. SavedSound'
  <2> SUFFICES ASSUME NEW i \in 1..n + 1, NEW g \in F, NEW s \in feasible,
                      stack'[i].saved[g] # Active, Agrees(s, i - 1)'
               PROVE  stack'[i].saved[g] \in s[g]
    BY <1>2 DEF SavedSound
  <2>1. Agrees(s, i - 1)
    BY <1>2 DEF Agrees
  <2>2. CASE i \in 1..n
    BY <1>1, <1>2, <2>1, <2>2 DEF SavedSound
  <2>3. CASE i = n + 1
    BY <1>2, <1>3, <1>6, <2>1, <2>3
  <2>4. QED
    BY <1>4, <2>2, <2>3
<1>10. DissolvedSound'
  <2> SUFFICES ASSUME NEW g \in F, NEW s \in feasible,
                      dissolved'[g] # Active, Agrees(s, n + 1)'
               PROVE  dissolved'[g] \in s[g]
    BY <1>2 DEF DissolvedSound, ActivePairs, Implied
  <2>1. Agrees(s, n) /\ p \in s[f]
    BY <1>2, <1>3 DEF Agrees
  <2>2. QED
    BY <1>6, <2>1
<1>11. \A i \in 1..n + 1 : stack'[i].saved[stack'[i].var] = Active
  BY <1>1, <1>2, <1>3, <1>4 DEF SavedBeforeDecision
<1>12. \A i \in 1..n + 1 : \A j \in 1..i - 1 :
         stack'[i].saved[stack'[j].var] # Active
  <2>1. ASSUME NEW i \in 1..n, NEW j \in 1..i - 1
        PROVE  stack'[i].saved[stack'[j].var] # Active
    <3>1. j \in 1..n
      BY <1>2
    <3>2. QED
      BY <1>1, <1>2, <3>1 DEF SavedBeforeDecision
  <2>2. \A j \in 1..n : stack'[n + 1].saved[stack'[j].var] # Active
    BY <1>1, <1>2, <1>3 DEF SavedBeforeDecision
  <2>3. n + 1 - 1 = n
    BY <1>2
  <2>4. QED
    BY <1>2, <1>4, <2>1, <2>2, <2>3
<1>13. QED
  BY <1>2, <1>7, <1>8, <1>9, <1>10, <1>11, <1>12

LEMMA DissolveKeepsInv ==
  ASSUME SearchInv, TypeOK', NEW f \in F, NEW p \in Phase, DissolveReluOnVar(f, p)
  PROVE  SearchInv'
<1>1. /\ pc = "loop" /\ pc' = "loop" /\ feasible' = feasible
      /\ dissolved[f] = Active
      /\ stack' = Append(stack, Decision(f, p))
      /\ dissolved' = [dissolved EXCEPT ![f] = p]
      /\ currentStackDepth' = Len(stack')
  BY DEF DissolveReluOnVar, Decide, Decision, Running
<1>2. dissolved'[f] = p /\ \A g \in F \ {f} : dissolved'[g] = dissolved[g]
  BY <1>1 DEF SearchInv, TypeOK, Dissolutions
<1>3. /\ QueryObeysBounds' /\ SiblingsRefuted' /\ SavedSound' /\ DissolvedSound'
      /\ \A i \in 1..Len(stack') : stack'[i].saved[stack'[i].var] = Active
      /\ \A i \in 1..Len(stack') : \A j \in 1..i - 1 :
           stack'[i].saved[stack'[j].var] # Active
  BY <1>1, <1>2, PushKeepsInv
<1>4. Len(stack') \in Nat
  BY DEF TypeOK
<1>5. PopStaysJustified' /\ DepthLags'
  BY <1>1, <1>4 DEF PopStaysJustified, DepthLags
<1>6. \A i \in 1..Len(stack') : dissolved'[stack'[i].var] # Active
  <2>1. TypeOK
    BY DEF SearchInv
  <2>2. /\ Len(stack) \in Nat
        /\ Len(stack') = Len(stack) + 1
        /\ \A i \in 1..Len(stack) : stack'[i] = stack[i]
        /\ stack'[Len(stack) + 1] = Decision(f, p)
    BY <1>1, <2>1, DecisionType, PushStack
  <2>3. \A i \in 1..Len(stack) : stack[i] \in Entry
    BY <2>1, ElementOfSeq DEF TypeOK
  <2>4. \A i \in 1..Len(stack) :
          stack[i].var \in F /\ dissolved[stack[i].var] # Active
    BY <1>1, <2>3 DEF SearchInv, SavedBeforeDecision, Entry
  <2>5. p # Active
    BY DEF Phase, Active
  <2>6. \A i \in 1..Len(stack) : dissolved'[stack'[i].var] # Active
    BY <1>2, <2>2, <2>4, <2>5
  <2>7. QED
    BY <1>2, <2>2, <2>5, <2>6 DEF Decision
<1>7. SavedBeforeDecision'
  BY <1>3, <1>6 DEF SavedBeforeDecision
<1>8. QED
  BY <1>3, <1>5, <1>7 DEF SearchInv

LEMMA ThrowKeepsInv ==
  ASSUME SearchInv, TypeOK', NEW f \in F, NEW p \in Phase, DissolveThrows(f, p)
  PROVE  SearchInv'
<1>1. /\ pc = "loop" /\ feasible' = feasible
      /\ currentStackDepth' = currentStackDepth
      /\ dissolved[f] = Active
      /\ <<f, p>> \in ClosedPhases
      /\ stack' = Append(stack, Decision(f, p))
      /\ StartPop(Len(stack'))
  BY DEF DissolveThrows, Decide, Decision, Running
<1>2. \A g \in F : dissolved'[g] = dissolved[g] \/ (g = f /\ dissolved'[g] = p)
  BY DEF DissolveThrows, SearchInv, TypeOK, Dissolutions
<1>3. /\ QueryObeysBounds' /\ SiblingsRefuted' /\ SavedSound' /\ DissolvedSound'
      /\ \A i \in 1..Len(stack') : stack'[i].saved[stack'[i].var] = Active
      /\ \A i \in 1..Len(stack') : \A j \in 1..i - 1 :
           stack'[i].saved[stack'[j].var] # Active
  BY <1>1, <1>2, PushKeepsInv
<1>4. TypeOK
  BY DEF SearchInv
<1>5. PICK n \in Nat : n = Len(stack)
  BY <1>4 DEF TypeOK
<1>6. /\ Len(stack') = n + 1
      /\ \A i \in 1..n : stack'[i] = stack[i]
      /\ stack'[n + 1] = Decision(f, p)
  BY <1>1, <1>4, <1>5, DecisionType, PushStack
<1>7. Refuted(n + 1)'
  <2> SUFFICES ASSUME NEW s \in feasible, Agrees(s, n + 1)' PROVE FALSE
    BY <1>1 DEF Refuted
  <2>1. p \in s[f]
    BY <1>6 DEF Agrees, Decision
  <2>2. QED
    BY <1>1, <2>1 DEF SearchInv, QueryObeysBounds
<1>8. PopStaysJustified' /\ pc' # "loop"
  <2>1. /\ pc' = "popping" => Refuted(PopTarget)'
        /\ pc' # "loop"
    BY <1>1, <1>6, <1>7, StartPopJustified
  <2>2. QED
    BY <2>1 DEF PopStaysJustified
<1>9. DepthLags'
  <2>1. currentStackDepth \in 0..n /\ \A i \in currentStackDepth + 1 .. n : ~stack[i].first
    BY <1>1, <1>4, <1>5 DEF SearchInv, DepthLags, TypeOK
  <2>2. \A i \in currentStackDepth + 1 .. n + 1 : stack'[i].first => i = n + 1
    BY <1>6, <2>1
  <2>3. QED
    BY <1>1, <1>6, <1>8, <2>1, <2>2 DEF DepthLags
<1>10. SavedBeforeDecision'
  BY <1>3, <1>8 DEF SavedBeforeDecision
<1>11. QED
  BY <1>3, <1>8, <1>9, <1>10 DEF SearchInv

-----------------------------------------------------------------------------
(***************************************************************************)
(* The steps of pop().  A flipped decision is in its second attempt        *)
(* because its first one was refuted.                                      *)
(***************************************************************************)
LEMMA FlipKeepsInv ==
  ASSUME SearchInv, Flip, feasible' = feasible
  PROVE  /\ QueryObeysBounds' /\ SiblingsRefuted' /\ SavedSound'
         /\ \A i \in 1..Len(stack') : stack'[i].saved[stack'[i].var] = Active
         /\ \A i \in 1..Len(stack') : \A j \in 1..i - 1 :
              stack'[i].saved[stack'[j].var] # Active
         /\ \A s \in feasible : Agrees(s, Len(stack))' =>
              /\ Opposite(Top.type) \in s[Top.var]
              /\ \A g \in F : Top.saved[g] # Active => Top.saved[g] \in s[g]
<1>1. /\ TypeOK /\ SiblingsRefuted /\ SavedSound /\ SavedBeforeDecision
      /\ QueryObeysBounds /\ PopStaysJustified /\ pc = "popping"
  BY DEF SearchInv, Flip
<1>2. PICK n \in Nat \ {0} : n = Len(stack)
  BY <1>1, FlipStack
<1>3. /\ Top = stack[n]
      /\ Top \in Entry
      /\ Len(stack') = n
      /\ \A i \in 1..n - 1 : stack'[i] = stack[i]
      /\ stack'[n] = [var |-> Top.var, type |-> Opposite(Top.type),
                      first |-> FALSE, saved |-> Top.saved]
  BY <1>1, <1>2, FlipStack DEF Top
<1>4. /\ stack'[n].var = stack[n].var
      /\ stack'[n].type = Opposite(stack[n].type)
      /\ stack'[n].saved = stack[n].saved
      /\ Opposite(stack'[n].type) = stack[n].type
  BY <1>3 DEF Entry, Phase, Opposite
<1>5. \A i \in 1..n : i \in 1..n - 1 \/ i = n
  OBVIOUS
<1>6. QueryObeysBounds'
  BY <1>1 DEF QueryObeysBounds
<1>7. Refuted(n)
  <2>1. PopTarget \in 0..n /\ Refuted(PopTarget)
    BY <1>1, <1>2 DEF PopTarget, PopStaysJustified, TypeOK
  <2>2. QED
    BY <2>1, RefutedAbove
<1>8. SiblingsRefuted'
  <2>1. n - 1 \in Nat
    BY <1>2
  <2>2. \A i \in 1..n - 1 : SiblingRefuted(i)' <=> SiblingRefuted(i)
    BY <1>3, <2>1, SameSiblings
  <2>3. \A i \in 1..n - 1 : ~stack'[i].first => SiblingRefuted(i)'
    BY <1>1, <1>2, <1>3, <2>2 DEF SiblingsRefuted
  <2>4. SiblingRefuted(n)'
    <3> SUFFICES ASSUME NEW s \in feasible, Agrees(s, n - 1)',
                        Opposite(stack'[n].type) \in s[stack'[n].var]
                 PROVE  FALSE
      BY DEF SiblingRefuted
    <3>1. Agrees(s, n)
      BY <1>2, <1>3, <1>4, <1>5 DEF Agrees
    <3>2. QED
      BY <1>7, <3>1 DEF Refuted
  <2>5. QED
    BY <1>3, <1>5, <2>3, <2>4 DEF SiblingsRefuted
<1>9. SavedSound'
  <2> SUFFICES ASSUME NEW i \in 1..n, NEW g \in F, NEW s \in feasible,
                      stack'[i].saved[g] # Active, Agrees(s, i - 1)'
               PROVE  stack'[i].saved[g] \in s[g]
    BY <1>3 DEF SavedSound
  <2>1. Agrees(s, i - 1)
    BY <1>2, <1>3 DEF Agrees
  <2>2. stack'[i].saved = stack[i].saved
    BY <1>3, <1>4, <1>5
  <2>3. QED
    BY <1>1, <1>2, <2>1, <2>2 DEF SavedSound
<1>10. \A i \in 1..n : stack'[i].saved = stack[i].saved /\ stack'[i].var = stack[i].var
  BY <1>3, <1>4, <1>5
<1>11. /\ \A i \in 1..n : stack'[i].saved[stack'[i].var] = Active
       /\ \A i \in 1..n : \A j \in 1..i - 1 :
            stack'[i].saved[stack'[j].var] # Active
  BY <1>1, <1>2, <1>10 DEF SavedBeforeDecision
<1>12. ASSUME NEW s \in feasible, Agrees(s, n)'
       PROVE  /\ Opposite(Top.type) \in s[Top.var]
              /\ \A g \in F : Top.saved[g] # Active => Top.saved[g] \in s[g]
  <2>1. Opposite(Top.type) \in s[Top.var]
    BY <1>2, <1>3, <1>4, <1>12 DEF Agrees
  <2>2. Agrees(s, n - 1)
    BY <1>2, <1>3, <1>12 DEF Agrees
  <2>3. QED
    BY <1>1, <1>2, <1>3, <2>1, <2>2 DEF SavedSound
<1>13. \A s \in feasible : Agrees(s, Len(stack))' => Agrees(s, n)'
  BY <1>2, <1>3 DEF Agrees
<1>14. QED
  BY <1>3, <1>6, <1>8, <1>9, <1>11, <1>12, <1>13

LEMMA FlipKeepsDepth ==
  ASSUME SearchInv, Flip, currentStackDepth' = currentStackDepth
  PROVE  DepthLags'
<1>1. TypeOK
  BY DEF SearchInv
<1>2. PICK n \in Nat \ {0} : n = Len(stack)
  BY <1>1, FlipStack
<1>3. /\ Len(stack') = n
      /\ \A i \in 1..n - 1 : stack'[i] = stack[i]
      /\ ~stack'[n].first
  BY <1>1, <1>2, FlipStack
<1>4. PICK d \in 0..n : d = currentStackDepth
  BY <1>1, <1>2 DEF SearchInv, DepthLags, TypeOK
<1>5. \A i \in d + 1 .. n : i = n \/ ~stack[i].first
  BY <1>2, <1>4 DEF SearchInv, DepthLags
<1>6. \A i \in d + 1 .. n : ~stack'[i].first
  BY <1>3, <1>5
<1>7. QED
  BY <1>3, <1>4, <1>6 DEF DepthLags

LEMMA PopFlipKeepsInv ==
  ASSUME SearchInv, TypeOK', PopFlip
  PROVE  SearchInv'
<1>1. /\ Flip /\ TypeOK /\ feasible' = feasible
      /\ UNCHANGED <<currentStackDepth, violatingLevel>>
      /\ dissolved' = [Top.saved EXCEPT ![Top.var] = Opposite(Top.type)]
      /\ pc' = IF Len(stack) > violatingLevel THEN "popping" ELSE "loop"
      /\ pc = "popping"
  BY DEF PopFlip, Flip, SearchInv
<1>2. PICK n \in Nat \ {0} : n = Len(stack)
  BY <1>1, FlipStack
<1>3. /\ Top \in Entry
      /\ Len(stack') = n
      /\ \A i \in 1..n - 1 : stack'[i] = stack[i]
      /\ stack'[n] = [var |-> Top.var, type |-> Opposite(Top.type),
                      first |-> FALSE, saved |-> Top.saved]
  BY <1>1, <1>2, FlipStack
<1>4. /\ QueryObeysBounds' /\ SiblingsRefuted' /\ SavedSound'
      /\ \A i \in 1..Len(stack') : stack'[i].saved[stack'[i].var] = Active
      /\ \A i \in 1..Len(stack') : \A j \in 1..i - 1 :
           stack'[i].saved[stack'[j].var] # Active
  BY <1>1, FlipKeepsInv
<1>5. \A s \in feasible : Agrees(s, Len(stack))' =>
        /\ Opposite(Top.type) \in s[Top.var]
        /\ \A g \in F : Top.saved[g] # Active => Top.saved[g] \in s[g]
  BY <1>1, FlipKeepsInv
<1>6. dissolved' \in Dissolutions /\ Top.saved \in Dissolutions /\ Top.var \in F
  BY <1>3 DEF TypeOK, Entry
<1>7. \A g \in F : dissolved'[g] = IF g = Top.var THEN Opposite(Top.type)
                                                  ELSE Top.saved[g]
  BY <1>1, <1>6 DEF Dissolutions
<1>8. PopStaysJustified'
  <2> SUFFICES ASSUME pc' = "popping" PROVE Refuted(PopTarget)'
    BY DEF PopStaysJustified
  <2>1. PICK v \in 0..n - 1 : v = violatingLevel
    BY <1>1, <1>2 DEF TypeOK
  <2>2. Refuted(v)
    BY <1>1, <1>2, <2>1 DEF SearchInv, PopStaysJustified, PopTarget
  <2>3. \A i \in 1..v : stack'[i] = stack[i]
    BY <1>3
  <2>4. Refuted(v)'
    BY <1>1, <2>2, <2>3 DEF Refuted, Agrees
  <2>5. PopTarget' = v
    BY <1>1, <1>3, <2>1 DEF PopTarget
  <2>6. QED
    BY <2>4, <2>5 DEF Refuted, Agrees
<1>9. DepthLags'
  BY <1>1, FlipKeepsDepth
<1>10. SavedBeforeDecision'
  <2>1. ASSUME NEW j \in 1..n PROVE dissolved'[stack'[j].var] # Active
    <3>1. stack'[j] \in Entry
      BY <1>3, ElementOfSeq DEF TypeOK
    <3>2. stack'[j].var \in F
      BY <3>1 DEF Entry
    <3>3. j # n => Top.saved[stack'[j].var] # Active
      BY <1>3, <1>4
    <3>4. j = n => stack'[j].var = Top.var
      BY <1>3
    <3>5. Opposite(Top.type) # Active
      BY DEF Opposite, Active
    <3>6. QED
      BY <1>7, <3>2, <3>3, <3>4, <3>5
  <2>2. QED
    BY <1>3, <1>4, <2>1 DEF SavedBeforeDecision
<1>11. DissolvedSound'
  <2> SUFFICES ASSUME NEW g \in F, NEW s \in feasible, dissolved'[g] # Active,
                      Agrees(s, Len(stack))'
               PROVE  dissolved'[g] \in s[g]
    BY <1>1 DEF DissolvedSound, ActivePairs, Implied
  <2>1. QED
    BY <1>5, <1>7
<1>12. QED
  BY <1>4, <1>8, <1>9, <1>10, <1>11 DEF SearchInv

LEMMA PopFlipThrowsKeepsInv ==
  ASSUME SearchInv, TypeOK', PopFlipThrows
  PROVE  SearchInv'
<1>1. /\ Flip /\ TypeOK /\ feasible' = feasible
      /\ currentStackDepth' = currentStackDepth
      /\ pc' = "done"
  BY DEF PopFlipThrows, Stop, SearchInv
<1>2. /\ QueryObeysBounds' /\ SiblingsRefuted' /\ SavedSound'
      /\ \A i \in 1..Len(stack') : stack'[i].saved[stack'[i].var] = Active
      /\ \A i \in 1..Len(stack') : \A j \in 1..i - 1 :
           stack'[i].saved[stack'[j].var] # Active
  BY <1>1, FlipKeepsInv
<1>3. DepthLags'
  BY <1>1, FlipKeepsDepth
<1>4. PopStaysJustified' /\ SavedBeforeDecision' /\ DissolvedSound'
  BY <1>1, <1>2 DEF PopStaysJustified, SavedBeforeDecision, DissolvedSound
<1>5. QED
  BY <1>2, <1>3, <1>4 DEF SearchInv

(***************************************************************************)
(* A decision is dropped only when it is refuted both ways, so the level   *)
(* below it is refuted.                                                    *)
(***************************************************************************)
LEMMA PopDiscardKeepsInv ==
  ASSUME SearchInv, TypeOK', PopDiscard
  PROVE  SearchInv'
<1>1. /\ TypeOK /\ SiblingsRefuted /\ SavedSound /\ SavedBeforeDecision
      /\ QueryObeysBounds /\ PopStaysJustified
  BY DEF SearchInv
<1>2. /\ feasible' = feasible /\ violatingLevel' = violatingLevel
      /\ pc = "popping" /\ pc' = "popping"
      /\ dissolved' = Top.saved
      /\ ~Top.first
      /\ currentStackDepth' = Len(stack) - 1
  BY DEF PopDiscard
<1>3. PICK n \in Nat : n + 1 = Len(stack)
  <2>1. Len(stack) \in Nat \ {0}
    BY <1>1, DiscardStack
  <2>2. Len(stack) - 1 \in Nat /\ (Len(stack) - 1) + 1 = Len(stack)
    BY <2>1
  <2>3. QED
    BY <2>2
<1>4. /\ Len(stack') = n
      /\ \A i \in 1..n : stack'[i] = stack[i]
      /\ Top = stack[n + 1]
  <2>1. /\ Len(stack') = Len(stack) - 1
        /\ \A i \in 1..Len(stack) - 1 : stack'[i] = stack[i]
    BY <1>1, DiscardStack
  <2>2. QED
    BY <1>3, <2>1 DEF Top
<1>5. QueryObeysBounds'
  BY <1>1, <1>2 DEF QueryObeysBounds
<1>6. SiblingsRefuted'
  <2>1. \A i \in 1..n : SiblingRefuted(i)' <=> SiblingRefuted(i)
    BY <1>2, <1>4, SameSiblings
  <2>2. QED
    BY <1>1, <1>3, <1>4, <2>1 DEF SiblingsRefuted
<1>7. SavedSound'
  <2> SUFFICES ASSUME NEW i \in 1..n, NEW g \in F, NEW s \in feasible,
                      stack'[i].saved[g] # Active, Agrees(s, i - 1)'
               PROVE  stack'[i].saved[g] \in s[g]
    BY <1>2, <1>4 DEF SavedSound
  <2>1. Agrees(s, i - 1) /\ stack'[i] = stack[i] /\ i \in 1..Len(stack)
    BY <1>3, <1>4 DEF Agrees
  <2>2. QED
    BY <1>1, <2>1 DEF SavedSound
<1>8. SavedBeforeDecision'
  BY <1>1, <1>2, <1>3, <1>4 DEF SavedBeforeDecision
<1>9. DepthLags'
  BY <1>2, <1>3, <1>4 DEF DepthLags
<1>10. DissolvedSound'
  <2> SUFFICES ASSUME NEW g \in F, NEW s \in feasible, dissolved'[g] # Active,
                      Agrees(s, n)'
               PROVE  dissolved'[g] \in s[g]
    BY <1>2, <1>4 DEF DissolvedSound, ActivePairs, Implied
  <2>1. Agrees(s, n) /\ n + 1 \in 1..Len(stack) /\ n + 1 - 1 = n
    BY <1>3, <1>4 DEF Agrees
  <2>2. QED
    BY <1>1, <1>2, <1>4, <2>1 DEF SavedSound
<1>11. PICK t \in 0..n + 1 : t = PopTarget
  <2>1. violatingLevel \in Nat
    BY <1>1 DEF TypeOK
  <2>2. PopTarget \in 0..n + 1
    BY <1>3, <2>1 DEF PopTarget
  <2>3. QED
    BY <2>2
<1>12. Refuted(t)
  BY <1>1, <1>2, <1>11 DEF PopStaysJustified
<1>13. PopStaysJustified'
  <2>1. CASE t \in 0..n
    <3>1. PopTarget' = t
      BY <1>1, <1>2, <1>3, <1>4, <1>11, <2>1 DEF PopTarget, TypeOK
    <3>2. Refuted(t)'
      BY <1>2, <1>4, <1>12, <2>1 DEF Refuted, Agrees
    <3>3. QED
      BY <3>1, <3>2 DEF PopStaysJustified, Refuted, Agrees
  <2>2. CASE t = n + 1
    <3>1. n \in 0..Len(stack) /\ \A i \in n + 1 .. Len(stack) : ~stack[i].first
      BY <1>2, <1>3, <1>4
    <3>2. Refuted(n)
      BY <1>1, <1>3, <1>12, <2>2, <3>1, RefutedBelow
    <3>3. Refuted(n)'
      BY <1>2, <1>4, <3>2 DEF Refuted, Agrees
    <3>4. PopTarget' = n
      BY <1>1, <1>2, <1>3, <1>4, <1>11, <2>2 DEF PopTarget, TypeOK
    <3>5. QED
      BY <3>3, <3>4 DEF PopStaysJustified, Refuted, Agrees
  <2>3. QED
    BY <2>1, <2>2
<1>14. QED
  BY <1>5, <1>6, <1>7, <1>8, <1>9, <1>10, <1>13 DEF SearchInv

-----------------------------------------------------------------------------
(***************************************************************************)
(* SearchInv is inductive.                                                 *)
(***************************************************************************)
LEMMA NextSearchInv == SearchInv /\ [Next]_vars => SearchInv'
<1> SUFFICES ASSUME SearchInv, [Next]_vars PROVE SearchInv'
  OBVIOUS
<1>0. TypeOK /\ TypeOK'
  BY NextTypeOK DEF SearchInv
<1>1. CASE FoundSolution \/ QuitLoop \/ ErrorThrown
  BY <1>0, <1>1, SameStack DEF FoundSolution, QuitLoop, ErrorThrown, Running, Stop
<1>2. CASE LearnBounds
  BY <1>0, <1>2, LearnKeepsInv
<1>3. ASSUME NEW v \in 0..Len(stack), BoundConflict(v) PROVE SearchInv'
  BY <1>0, <1>3, ConflictKeepsInv DEF BoundConflict, Running
<1>4. CASE NoSolutionExists
  BY <1>0, <1>4, DefaultLevelRefuted, ConflictKeepsInv DEF NoSolutionExists, Running
<1>5. ASSUME NEW f \in F, FixBrokenRelu(f) PROVE SearchInv'
  <2>1. CASE UNCHANGED <<pc, violatingLevel, status>>
    <3>1. pc = "loop"
      BY <1>5 DEF FixBrokenRelu, Running
    <3>2. QED
      BY <1>0, <1>5, <2>1, <3>1, SameStack DEF FixBrokenRelu
  <2>2. CASE Refuted(Len(stack)) /\ StartPop(currentStackDepth)
    BY <1>0, <1>5, <2>2, DefaultLevelRefuted, ConflictKeepsInv
    DEF FixBrokenRelu, Running
  <2>3. QED
    BY <1>5, <2>1, <2>2 DEF FixBrokenRelu
<1>6. ASSUME NEW f \in F, NEW p \in Phase, DissolveReluOnVar(f, p)
      PROVE SearchInv'
  BY <1>0, <1>6, DissolveKeepsInv
<1>7. ASSUME NEW f \in F, NEW p \in Phase, DissolveThrows(f, p)
      PROVE SearchInv'
  BY <1>0, <1>7, ThrowKeepsInv
<1>8. CASE PopFlip
  BY <1>0, <1>8, PopFlipKeepsInv
<1>9. CASE PopFlipThrows
  BY <1>0, <1>9, PopFlipThrowsKeepsInv
<1>10. CASE PopDiscard
  BY <1>0, <1>10, PopDiscardKeepsInv
<1>11. CASE PopEmpty
  BY <1>0, <1>11, SameStack DEF PopEmpty, Stop
<1>12. CASE Quit \/ Terminated \/ UNCHANGED vars
  <2>1. UNCHANGED <<feasible, stack, dissolved, currentStackDepth, pc, violatingLevel>>
    BY <1>12 DEF Quit, Terminated, vars
  <2>2. pc' = "popping" => Refuted(PopTarget')
    BY <2>1 DEF SearchInv, PopStaysJustified, PopTarget
  <2>3. QED
    BY <1>0, <2>1, <2>2, SameStack
<1>13. QED
  BY <1>1, <1>2, <1>3, <1>4, <1>5, <1>6, <1>7, <1>8, <1>9, <1>10, <1>11,
     <1>12 DEF Next, Search, Pop

THEOREM SearchCorrect == Spec => []SearchInv
BY InitSearchInv, NextSearchInv, PTL DEF Spec, SafetySpec

(***************************************************************************)
(* No decision goes to its second phase before the first is exhausted.     *)
(***************************************************************************)
THEOREM FlipsCorrect == Spec => []SiblingsRefuted
<1>1. SearchInv => SiblingsRefuted
  BY DEF SearchInv
<1>2. QED
  BY <1>1, SearchCorrect, PTL

(***************************************************************************)
(* No pop stops before the conflict that started it is exhausted.          *)
(***************************************************************************)
THEOREM BacktrackingCorrect == Spec => []PopStaysJustified
<1>1. SearchInv => PopStaysJustified
  BY DEF SearchInv
<1>2. QED
  BY <1>1, SearchCorrect, PTL

(***************************************************************************)
(* The copy of the stack's depth in Reluplex may lag behind, harmlessly.   *)
(***************************************************************************)
THEOREM StaleDepthIsHarmless == Spec => []StaleDepthHarmless
<1>1. SearchInv => StaleDepthHarmless
  BY DEF SearchInv, DepthLags, StaleDepthHarmless
<1>2. QED
  BY <1>1, SearchCorrect, PTL

(***************************************************************************)
(* What the dissolved pairs say follows from the decisions in force.       *)
(***************************************************************************)
THEOREM DissolutionSound == Spec => []DissolvedSound
<1>1. SearchInv => DissolvedSound
  BY DEF SearchInv
<1>2. QED
  BY <1>1, SearchCorrect, PTL

(***************************************************************************)
(* No pair is decided twice on a branch: the later decision saved a state  *)
(* in which its pair was active and the earlier one's was not.             *)
(***************************************************************************)
THEOREM DecisionsDistinct == Spec => []SplitVarsDistinct
<1>1. ASSUME SearchInv PROVE SplitVarsDistinct
  <2> SUFFICES ASSUME NEW i \in 1..Len(stack), NEW j \in 1..Len(stack),
                      stack[i].var = stack[j].var
               PROVE  i = j
    BY DEF SplitVarsDistinct
  <2>1. Len(stack) \in Nat /\ SavedBeforeDecision
    BY <1>1 DEF SearchInv, TypeOK
  <2>2. ~(j < i) /\ ~(i < j)
    BY <2>1 DEF SavedBeforeDecision
  <2>3. QED
    BY <2>1, <2>2
<1>2. QED
  BY <1>1, SearchCorrect, PTL

(***************************************************************************)
(* The answer UNSAT is right when no bound of the caller closes a phase of *)
(* an active pair.  (When one does, the run smtcore_escape refutes it.)    *)
(***************************************************************************)
LEMMA NextUnsatSound ==
  ASSUME ClosedPhases = {}
  PROVE  SearchInv /\ UnsatSound /\ [Next]_vars => UnsatSound'
<1> SUFFICES ASSUME SearchInv, UnsatSound, [Next]_vars, status' = "UNSAT",
                    status # "UNSAT"
             PROVE  feasible' = {}
  BY DEF UnsatSound, Next, Search, Pop, FoundSolution, QuitLoop, ErrorThrown,
         LearnBounds, BoundConflict, NoSolutionExists, FixBrokenRelu,
         DissolveReluOnVar, DissolveThrows, PopFlip, PopFlipThrows, PopDiscard,
         PopEmpty, Quit, Terminated, vars
<1>1. Refuted(0) => feasible = {}
  BY DEF Refuted, Agrees
<1>2. ASSUME NEW v \in Nat, StartPop(v), Refuted(v), feasible' = feasible
      PROVE  feasible' = {}
  BY <1>1, <1>2 DEF StartPop, Stop
<1>3. CASE FoundSolution \/ QuitLoop \/ ErrorThrown \/ LearnBounds
  BY <1>3 DEF FoundSolution, QuitLoop, ErrorThrown, LearnBounds, Stop
<1>4. ASSUME NEW v \in 0..Len(stack), BoundConflict(v) PROVE feasible' = {}
  BY <1>2, <1>4 DEF BoundConflict, SearchInv, TypeOK
<1>5. CASE NoSolutionExists
  BY <1>2, <1>5, DefaultLevelRefuted DEF NoSolutionExists, Running
<1>6. ASSUME NEW f \in F, FixBrokenRelu(f) PROVE feasible' = {}
  <2>1. Refuted(Len(stack)) /\ StartPop(currentStackDepth)
    BY <1>6 DEF FixBrokenRelu
  <2>2. QED
    BY <1>2, <1>6, <2>1, DefaultLevelRefuted DEF FixBrokenRelu, Running
<1>7. ASSUME NEW f \in F, NEW p \in Phase,
             DissolveReluOnVar(f, p) \/ DissolveThrows(f, p)
      PROVE feasible' = {}
  BY <1>7 DEF DissolveReluOnVar, DissolveThrows
<1>8. CASE PopFlip \/ PopFlipThrows \/ PopDiscard
  BY <1>8 DEF PopFlip, PopFlipThrows, PopDiscard
<1>9. CASE PopEmpty
  <2>1. pc = "popping" /\ Len(stack) = 0 /\ feasible' = feasible
    BY <1>9, EmptySeq DEF PopEmpty
  <2>2. PopTarget = 0
    BY <2>1 DEF PopTarget, SearchInv, TypeOK
  <2>3. QED
    BY <1>1, <2>1, <2>2 DEF SearchInv, PopStaysJustified
<1>10. CASE Quit \/ Terminated \/ UNCHANGED vars
  BY <1>10 DEF Quit, Terminated, vars
<1>11. QED
  BY <1>3, <1>4, <1>5, <1>6, <1>7, <1>8, <1>9, <1>10 DEF Next, Search, Pop

THEOREM UnsatCorrect ==
  ASSUME ClosedPhases = {}
  PROVE  Spec => []UnsatSound
<1>1. Init => UnsatSound
  BY DEF Init, UnsatSound
<1>2. SearchInv /\ UnsatSound /\ [Next]_vars => UnsatSound'
  BY NextUnsatSound
<1>3. QED
  BY <1>1, <1>2, SearchCorrect, PTL DEF Spec, SafetySpec

-----------------------------------------------------------------------------
(***************************************************************************)
(* SmtCore implements CaseSplitting when no bound of the caller closes a   *)
(* phase of an active pair.  Only a conflict refutes kinds; flips and      *)
(* discards rearrange the stack without changing which kinds are open.     *)
(***************************************************************************)
ImplInv == SearchInv /\ UnsatSound /\ (status = "NONE" <=> pc # "done")

LEMMA InitImplInv == Init => ImplInv
BY InitSearchInv DEF Init, ImplInv, UnsatSound

LEMMA NextImplInv ==
  ASSUME ClosedPhases = {}
  PROVE  ImplInv /\ [Next]_vars => ImplInv'
<1> SUFFICES ASSUME ImplInv, [Next]_vars PROVE ImplInv'
  OBVIOUS
<1>1. SearchInv' /\ UnsatSound'
  BY NextSearchInv, NextUnsatSound DEF ImplInv
<1>2. (status = "NONE" <=> pc # "done")'
  BY DEF ImplInv, Next, Search, Pop, FoundSolution, QuitLoop, ErrorThrown,
         LearnBounds, BoundConflict, NoSolutionExists, FixBrokenRelu,
         DissolveReluOnVar, DissolveThrows, Decide, Flip, PopFlip,
         PopFlipThrows, PopDiscard, PopEmpty, Quit, Terminated, vars,
         Running, Stop, StartPop
<1>3. QED
  BY <1>1, <1>2 DEF ImplInv

-----------------------------------------------------------------------------
\* Kind s has, at decision i, the phase that was tried first and refuted.
TriedAt(s, i) ==
  /\ Agrees(s, i - 1)
  /\ Opposite(stack[i].type) \in s[stack[i].var]

LEMMA OpenMember ==
  ASSUME NEW s \in Kinds
  PROVE  s \in Open <=>
           /\ status # "UNSAT"
           /\ \A i \in 1..Len(stack) : ~stack[i].first => ~TriedAt(s, i)
           /\ pc = "popping" => ~Agrees(s, PopTarget)
BY DEF Open, TriedAt

LEMMA OpenMemberNext ==
  ASSUME NEW s \in Kinds
  PROVE  s \in Open' <=>
           /\ status' # "UNSAT"
           /\ \A i \in 1..Len(stack') : ~stack'[i].first => ~TriedAt(s, i)'
           /\ pc' = "popping" => ~Agrees(s, PopTarget)'
BY DEF Open, TriedAt

LEMMA SameOpen ==
  ASSUME UNCHANGED stack, status' # "UNSAT" /\ status # "UNSAT",
         pc # "popping" /\ pc' # "popping"
  PROVE  Open' = Open
BY DEF Open, Agrees

LEMMA SameTried ==
  ASSUME NEW n \in Nat, \A i \in 1..n : stack'[i] = stack[i]
  PROVE  \A s : \A i \in 1..n : TriedAt(s, i)' <=> TriedAt(s, i)
BY DEF TriedAt, Agrees

(***************************************************************************)
(* A conflict refutes the kinds that follow the decisions it depends on.*)
(***************************************************************************)
LEMMA ConflictRefutes ==
  ASSUME ImplInv, pc = "loop", NEW v \in 0..Len(stack), Refuted(v), StartPop(v),
         UNCHANGED <<feasible, stack>>
  PROVE  Abstract!Next
<1>1. status = "NONE"
  BY DEF ImplInv
<1>2. CASE pc' = "done"
  <2>1. Open' = {} /\ status' = "UNSAT" /\ v = 0
    BY <1>2 DEF StartPop, Stop, Open
  <2>2. feasible = {}
    BY <2>1 DEF Refuted, Agrees
  <2>3. Abstract!Refute(Kinds)
    BY <1>1, <2>1, <2>2 DEF Abstract!Refute, Open
  <2>4. QED
    BY <2>3 DEF Abstract!Next, Abstract!Kinds, Abstract!Phase, Kinds, Phase
<1>3. CASE pc' = "popping"
  <2>1. Len(stack) \in Nat
    BY DEF ImplInv, SearchInv, TypeOK
  <2>2. PICK t \in 0..Len(stack) : t = PopTarget' /\ v <= t
    BY <1>3, <2>1 DEF StartPop, Stop, PopTarget
  <2>3. Refuted(t)
    BY <2>1, <2>2, RefutedAbove
  <2> DEFINE S == {s \in Kinds : Agrees(s, t)}
  <2>4. S \cap feasible = {}
    BY <2>3 DEF Refuted
  <2>5. status' = "NONE"
    BY <1>1, <1>3 DEF StartPop, Stop
  <2>6. Open' = Open \ S
    <3> SUFFICES ASSUME NEW s \in Kinds
                 PROVE  s \in Open' <=> s \in Open /\ s \notin S
      BY DEF Open
    <3>1. \A i \in 1..Len(stack) : TriedAt(s, i)' <=> TriedAt(s, i)
      BY DEF TriedAt, Agrees
    <3>2. Agrees(s, PopTarget)' <=> Agrees(s, t)
      BY <2>2 DEF Agrees
    <3>3. QED
      BY <1>1, <1>3, <2>5, <3>1, <3>2, OpenMember, OpenMemberNext
  <2>7. Abstract!Refute(S)
    BY <1>1, <2>4, <2>5, <2>6 DEF Abstract!Refute
  <2>8. S \in SUBSET Kinds
    OBVIOUS
  <2>9. QED
    BY <2>7, <2>8 DEF Abstract!Next, Abstract!Kinds, Abstract!Phase, Kinds, Phase
<1>4. QED
  BY <1>2, <1>3 DEF StartPop, Stop

(***************************************************************************)
(* A new decision is in its first attempt and refutes nothing.             *)
(***************************************************************************)
LEMMA DissolveKeepsOpen ==
  ASSUME ImplInv, NEW f \in F, NEW p \in Phase, DissolveReluOnVar(f, p)
  PROVE  Open' = Open
<1>1. /\ TypeOK /\ pc = "loop" /\ pc' = "loop"
      /\ status = "NONE" /\ status' = "NONE"
      /\ stack' = Append(stack, Decision(f, p))
  BY DEF DissolveReluOnVar, Decide, Decision, Running, ImplInv, SearchInv
<1>2. PICK n \in Nat : n = Len(stack)
  BY <1>1 DEF TypeOK
<1>3. /\ Len(stack') = n + 1
      /\ \A i \in 1..n : stack'[i] = stack[i]
      /\ stack'[n + 1] = Decision(f, p)
  BY <1>1, <1>2, DecisionType, PushStack
<1>4. \A s : \A i \in 1..n : TriedAt(s, i)' <=> TriedAt(s, i)
  BY <1>3, SameTried
<1>5. stack'[n + 1].first /\ \A i \in 1..n + 1 : i \in 1..n \/ i = n + 1
  BY <1>3 DEF Decision
<1>6. ASSUME NEW s \in Kinds PROVE s \in Open' <=> s \in Open
  BY <1>1, <1>2, <1>3, <1>4, <1>5, OpenMember, OpenMemberNext
<1>7. QED
  BY <1>6 DEF Open

(***************************************************************************)
(* At a decision, a kind has one phase or the other.                    *)
(***************************************************************************)
LEMMA EitherPhase ==
  ASSUME TypeOK, NEW n \in 1..Len(stack), NEW s \in Kinds
  PROVE  /\ Agrees(s, n) <=> Agrees(s, n - 1) /\ stack[n].type \in s[stack[n].var]
         /\ stack[n].type \in s[stack[n].var] \/ Opposite(stack[n].type) \in s[stack[n].var]
<1>1. stack[n] \in Entry
  BY ElementOfSeq DEF TypeOK
<1>2. \A i \in 1..n : i \in 1..n - 1 \/ i = n
  BY DEF TypeOK
<1>3. s[stack[n].var] \in {{"SPLIT"}, {"MERGE"}, Phase} /\ stack[n].type \in Phase
  BY <1>1 DEF Entry, Kinds
<1>4. Agrees(s, n) <=> Agrees(s, n - 1) /\ stack[n].type \in s[stack[n].var]
  <2>1. n \in Nat \ {0} /\ n \in 1..n /\ \A i \in 1..n - 1 : i \in 1..n
    BY DEF TypeOK
  <2>2. QED
    BY <1>2, <2>1 DEF Agrees
<1>5. QED
  BY <1>3, <1>4 DEF Phase, Opposite

(***************************************************************************)
(* A flip marks as tried what the pop in progress had refuted already.     *)
(***************************************************************************)
LEMMA PopFlipKeepsOpen ==
  ASSUME ImplInv, PopFlip
  PROVE  Open' = Open
<1>1. /\ Flip /\ TypeOK /\ pc = "popping" /\ status = "NONE" /\ status' = "NONE"
      /\ violatingLevel' = violatingLevel
      /\ pc' = IF Len(stack) > violatingLevel THEN "popping" ELSE "loop"
  BY DEF PopFlip, Flip, ImplInv, SearchInv
<1>2. PICK n \in Nat \ {0} : n = Len(stack)
  BY <1>1, FlipStack
<1>3. /\ Top \in Entry /\ Top = stack[n] /\ Top.first
      /\ Len(stack') = n
      /\ \A i \in 1..n - 1 : stack'[i] = stack[i]
      /\ stack'[n] = [var |-> Top.var, type |-> Opposite(Top.type),
                      first |-> FALSE, saved |-> Top.saved]
  BY <1>1, <1>2, FlipStack DEF Top, Flip
<1>4. \A s : \A i \in 1..n - 1 : TriedAt(s, i)' <=> TriedAt(s, i)
  <2>1. n - 1 \in Nat
    BY <1>2
  <2>2. QED
    BY <1>3, <2>1, SameTried
<1>5. \A i \in 1..n : i \in 1..n - 1 \/ i = n
  OBVIOUS
<1>6. PICK v \in Nat : v = violatingLevel
  BY <1>1 DEF TypeOK
<1>7. ASSUME NEW s \in Kinds PROVE s \in Open' <=> s \in Open
  <2>1. TriedAt(s, n)' <=> Agrees(s, n)
    <3>1. /\ stack'[n].var = stack[n].var
          /\ Opposite(stack'[n].type) = stack[n].type
      BY <1>3 DEF Entry, Phase, Opposite
    <3>2. Agrees(s, n - 1)' <=> Agrees(s, n - 1)
      BY <1>2, <1>3 DEF Agrees
    <3>3. Agrees(s, n) <=> Agrees(s, n - 1) /\ stack[n].type \in s[stack[n].var]
      BY <1>1, <1>2, EitherPhase
    <3>4. QED
      BY <3>1, <3>2, <3>3 DEF TriedAt
  <2>2. ~stack'[n].first /\ stack[n].first
    BY <1>3
  <2>3. s \in Open <=>
          /\ \A i \in 1..n - 1 : ~stack[i].first => ~TriedAt(s, i)
          /\ ~Agrees(s, PopTarget)
    BY <1>1, <1>2, <1>5, <2>2, OpenMember
  <2>4. s \in Open' <=>
          /\ \A i \in 1..n - 1 : ~stack[i].first => ~TriedAt(s, i)
          /\ ~Agrees(s, n)
          /\ pc' = "popping" => ~Agrees(s, PopTarget)'
    <3>1. s \in Open' <=>
          /\ \A i \in 1..n : ~stack'[i].first => ~TriedAt(s, i)'
          /\ pc' = "popping" => ~Agrees(s, PopTarget)'
      BY <1>1, <1>3, OpenMemberNext
    <3>2. QED
      BY <1>2, <1>3, <1>4, <1>5, <2>1, <2>2, <3>1
  <2>5. CASE v < n
    <3>1. pc' = "popping" /\ PopTarget = v /\ PopTarget' = v
      BY <1>1, <1>2, <1>3, <1>6, <2>5 DEF PopTarget
    <3>2. Agrees(s, PopTarget)' <=> Agrees(s, v)
      <4>1. \A i \in 1..v : stack'[i] = stack[i]
        BY <1>2, <1>3, <2>5
      <4>2. QED
        BY <3>1, <4>1 DEF Agrees
    <3>3. Agrees(s, n) => Agrees(s, v)
      BY <1>2, <2>5 DEF Agrees
    <3>4. QED
      BY <2>3, <2>4, <3>1, <3>2, <3>3
  <2>6. CASE n <= v
    <3>1. pc' = "loop" /\ PopTarget = n
      BY <1>1, <1>2, <1>6, <2>6 DEF PopTarget
    <3>2. QED
      BY <2>3, <2>4, <3>1
  <2>7. QED
    BY <1>2, <1>6, <2>5, <2>6
<1>8. QED
  BY <1>7 DEF Open

(***************************************************************************)
(* A discard merges the two refuted phases of a decision into the refuted  *)
(* level below it.                                                         *)
(***************************************************************************)
LEMMA PopDiscardKeepsOpen ==
  ASSUME ImplInv, PopDiscard
  PROVE  Open' = Open
<1>1. /\ TypeOK /\ pc = "popping" /\ pc' = "popping"
      /\ status = "NONE" /\ status' = "NONE"
      /\ violatingLevel' = violatingLevel
      /\ ~Top.first
  BY DEF PopDiscard, ImplInv, SearchInv
<1>2. PICK n \in Nat : n + 1 = Len(stack)
  <2>1. Len(stack) \in Nat \ {0}
    BY <1>1, DiscardStack
  <2>2. Len(stack) - 1 \in Nat /\ (Len(stack) - 1) + 1 = Len(stack)
    BY <2>1
  <2>3. QED
    BY <2>2
<1>3. /\ Len(stack') = n
      /\ \A i \in 1..n : stack'[i] = stack[i]
      /\ Top = stack[n + 1]
  <2>1. /\ Len(stack') = Len(stack) - 1
        /\ \A i \in 1..Len(stack) - 1 : stack'[i] = stack[i]
    BY <1>1, DiscardStack
  <2>2. QED
    BY <1>2, <2>1 DEF Top
<1>4. \A s : \A i \in 1..n : TriedAt(s, i)' <=> TriedAt(s, i)
  BY <1>3, SameTried
<1>5. \A i \in 1..n + 1 : i \in 1..n \/ i = n + 1
  OBVIOUS
<1>6. PICK v \in Nat : v = violatingLevel
  BY <1>1 DEF TypeOK
<1>7. ASSUME NEW s \in Kinds PROVE s \in Open' <=> s \in Open
  <2>1. s \in Open' <=>
          /\ \A i \in 1..n : ~stack[i].first => ~TriedAt(s, i)
          /\ ~Agrees(s, PopTarget)'
    BY <1>1, <1>3, <1>4, OpenMemberNext
  <2>2. s \in Open <=>
          /\ \A i \in 1..n : ~stack[i].first => ~TriedAt(s, i)
          /\ ~TriedAt(s, n + 1)
          /\ ~Agrees(s, PopTarget)
    BY <1>1, <1>2, <1>3, <1>5, OpenMember
  <2>3. n + 1 \in 1..Len(stack) /\ n + 1 - 1 = n
    BY <1>2
  <2>4. Agrees(s, n) <=> TriedAt(s, n + 1) \/ Agrees(s, n + 1)
    BY <1>1, <2>3, EitherPhase DEF TriedAt
  <2>5. Agrees(s, n + 1) => Agrees(s, n)
    BY DEF Agrees
  <2>6. CASE v <= n
    <3>1. PopTarget = v /\ PopTarget' = v
      BY <1>1, <1>2, <1>3, <1>6, <2>6 DEF PopTarget
    <3>2. Agrees(s, PopTarget)' <=> Agrees(s, v)
      BY <1>3, <2>6, <3>1 DEF Agrees
    <3>3. Agrees(s, n) => Agrees(s, v)
      BY <2>6 DEF Agrees
    <3>4. QED
      BY <2>1, <2>2, <2>4, <3>1, <3>2, <3>3
  <2>7. CASE n + 1 <= v
    <3>1. PopTarget = n + 1 /\ PopTarget' = n
      BY <1>1, <1>2, <1>3, <1>6, <2>7 DEF PopTarget
    <3>2. Agrees(s, PopTarget)' <=> Agrees(s, n)
      BY <1>3, <3>1 DEF Agrees
    <3>3. QED
      BY <2>1, <2>2, <2>4, <2>5, <3>1, <3>2
  <2>8. QED
    BY <1>6, <2>6, <2>7
<1>8. QED
  BY <1>7 DEF Open

(***************************************************************************)
(* When the stack runs empty in a pop nothing is open.                     *)
(***************************************************************************)
LEMMA PopEmptyRefutes ==
  ASSUME ImplInv, PopEmpty
  PROVE  Abstract!Next
<1>1. /\ pc = "popping" /\ Len(stack) = 0 /\ status' = "UNSAT"
      /\ feasible' = feasible /\ TypeOK
  BY EmptySeq DEF PopEmpty, Stop, ImplInv, SearchInv
<1>2. status = "NONE"
  BY <1>1 DEF ImplInv
<1>3. PopTarget = 0
  BY <1>1 DEF PopTarget, TypeOK
<1>4. Open = {} /\ Open' = {}
  BY <1>1, <1>2, <1>3 DEF Open, Agrees
<1>5. Abstract!Refute({})
  BY <1>1, <1>2, <1>4 DEF Abstract!Refute
<1>6. QED
  BY <1>5 DEF Abstract!Next

-----------------------------------------------------------------------------
LEMMA InitRefines == Init => Abstract!Init
<1> SUFFICES ASSUME Init PROVE Abstract!Init
  OBVIOUS
<1>1. Open = Kinds
  BY EmptySeq DEF Init, Open
<1>2. feasible \in SUBSET Kinds
  BY SmtCoreAssumption DEF Init
<1>3. QED
  BY <1>1, <1>2 DEF Init, Abstract!Init, Abstract!Kinds, Abstract!Phase, Kinds, Phase

(***************************************************************************)
(* The stack follows a solution: what it finds is still open.              *)
(***************************************************************************)
LEMMA SolutionOpen ==
  ASSUME ImplInv, FoundSolution
  PROVE  Abstract!AnswerSat
<1>1. /\ pc = "loop" /\ pc' = "done" /\ status = "NONE" /\ status' = "SAT"
      /\ UNCHANGED <<feasible, stack>> /\ TypeOK
  BY DEF FoundSolution, Running, Stop, ImplInv, SearchInv
<1>2. PICK s \in feasible : Agrees(s, Len(stack))
  BY DEF FoundSolution
<1>3. s \in Kinds
  BY <1>1 DEF TypeOK
<1>4. \A i \in 1..Len(stack) : ~stack[i].first => ~TriedAt(s, i)
  BY DEF TriedAt, SiblingRefuted, SiblingsRefuted, ImplInv, SearchInv
<1>5. s \in Open
  BY <1>1, <1>3, <1>4, OpenMember
<1>6. Open' = Open
  BY <1>1, SameOpen
<1>7. QED
  BY <1>1, <1>5, <1>6 DEF Abstract!AnswerSat

LEMMA StepRefines ==
  ASSUME ClosedPhases = {}, ImplInv, [Next]_vars
  PROVE  Abstract!Next \/ UNCHANGED <<feasible, Open, status>>
<1>1. TypeOK /\ SearchInv
  BY DEF ImplInv, SearchInv
<1>2. CASE FoundSolution
  BY <1>2, SolutionOpen DEF Abstract!Next
<1>3. CASE QuitLoop \/ ErrorThrown
  <2>1. /\ pc # "done" /\ pc' = "done" /\ UNCHANGED <<feasible, stack>>
        /\ status = "NONE" /\ status' \in {"NOT_DONE", "ERROR"}
    BY <1>3 DEF QuitLoop, ErrorThrown, Running, Stop, ImplInv
  <2>2. Open \subseteq Open' /\ Open' \in SUBSET Kinds
    BY <2>1 DEF Open, Agrees
  <2>3. QED
    BY <2>1, <2>2 DEF Abstract!Next, Abstract!GiveUp, Abstract!Kinds,
                      Abstract!Phase, Kinds, Phase
<1>4. CASE LearnBounds
  <2>1. /\ pc = "loop" /\ pc' = "loop" /\ UNCHANGED <<feasible, stack, status>>
        /\ status = "NONE"
    BY <1>4 DEF LearnBounds, Running, ImplInv
  <2>2. QED
    BY <2>1, SameOpen
<1>5. ASSUME NEW v \in 0..Len(stack), BoundConflict(v) PROVE Abstract!Next
  BY <1>5, ConflictRefutes DEF BoundConflict, Running
<1>6. CASE NoSolutionExists
  BY <1>1, <1>6, DefaultLevelRefuted, ConflictRefutes DEF NoSolutionExists, Running
<1>7. ASSUME NEW f \in F, FixBrokenRelu(f)
      PROVE  Abstract!Next \/ UNCHANGED <<feasible, Open, status>>
  <2>1. pc = "loop" /\ status = "NONE" /\ UNCHANGED <<feasible, stack>>
    BY <1>7 DEF FixBrokenRelu, Running, ImplInv
  <2>2. CASE UNCHANGED <<pc, violatingLevel, status>>
    BY <2>1, <2>2, SameOpen
  <2>3. CASE Refuted(Len(stack)) /\ StartPop(currentStackDepth)
    BY <1>1, <2>1, <2>3, DefaultLevelRefuted, ConflictRefutes
  <2>4. QED
    BY <1>7, <2>2, <2>3 DEF FixBrokenRelu
<1>8. ASSUME NEW f \in F, NEW p \in Phase, DissolveReluOnVar(f, p)
      PROVE  UNCHANGED <<feasible, Open, status>>
  BY <1>8, DissolveKeepsOpen DEF DissolveReluOnVar
<1>9. ASSUME NEW f \in F, NEW p \in Phase PROVE ~DissolveThrows(f, p)
  BY DEF DissolveThrows
<1>10. CASE PopFlip
  BY <1>10, PopFlipKeepsOpen DEF PopFlip
<1>11. ~PopFlipThrows
  BY DEF PopFlipThrows
<1>12. CASE PopDiscard
  BY <1>12, PopDiscardKeepsOpen DEF PopDiscard
<1>13. CASE PopEmpty
  BY <1>13, PopEmptyRefutes
<1>14. CASE Quit \/ Terminated \/ UNCHANGED vars
  <2>1. UNCHANGED <<feasible, stack, pc, violatingLevel, status>>
    BY <1>14 DEF Quit, Terminated, vars
  <2>2. Open' = Open
    BY <2>1 DEF Open, Agrees, PopTarget
  <2>3. QED
    BY <2>1, <2>2
<1>15. QED
  BY <1>2, <1>3, <1>4, <1>5, <1>6, <1>7, <1>8, <1>9, <1>10, <1>11, <1>12,
     <1>13, <1>14 DEF Next, Search, Pop

(***************************************************************************)
(* SmtCore implements CaseSplitting: only infeasible kinds are refuted, *)
(* no refuted pattern is reopened, and SAT and UNSAT are right.            *)
(***************************************************************************)
THEOREM SmtCoreImplementsCaseSplitting ==
  ASSUME ClosedPhases = {}
  PROVE  Spec => ImplementsCaseSplitting
<1>1. Init => ImplInv /\ Abstract!Init
  BY InitImplInv, InitRefines
<1>2. ImplInv /\ [Next]_vars => ImplInv'
  BY NextImplInv
<1>3. ImplInv /\ [Next]_vars => [Abstract!Next]_(Abstract!vars)
  BY StepRefines DEF Abstract!vars
<1>4. QED
  BY <1>1, <1>2, <1>3, PTL DEF Spec, SafetySpec, ImplementsCaseSplitting, Abstract!Spec

-----------------------------------------------------------------------------
(***************************************************************************)
(* What ties the ghost to the variables of the code: after a failed run    *)
(* the answer remembered says so, after two the flag is up.                *)
(***************************************************************************)
FailuresInv ==
  /\ failedRuns \in Nat
  /\ failedRuns >= 1 => previousAnswer = "SOLVER_FAILED"
  /\ failedRuns >= 2 => dontUseSlacks

LEMMA InitFailuresInv == LpInit => FailuresInv
BY DEF LpInit, FailuresInv

(***************************************************************************)
(* Only a failed run raises the ghost, and then by one; the flag is set    *)
(* from the answer that the run before left behind.                        *)
(***************************************************************************)
LEMMA NextFailuresInv ==
  ASSUME FailuresInv, [LpNext]_allVars
  PROVE  FailuresInv'
<1>1. CASE LpFailed
  <2>1. failedRuns' = failedRuns + 1 /\ previousAnswer' = "SOLVER_FAILED"
    BY <1>1 DEF LpFailed
  <2>2. failedRuns' >= 2 => previousAnswer = "SOLVER_FAILED"
    BY <2>1 DEF FailuresInv
  <2>3. previousAnswer = "SOLVER_FAILED" => dontUseSlacks'
    BY <1>1 DEF LpFailed
  <2>4. QED
    BY <2>1, <2>2, <2>3 DEF FailuresInv
<1>2. CASE LpSolutionFound \/ LpNoSolution \/ LpThrows \/ RepairPair
  <2>1. failedRuns' = 0
    BY <1>2 DEF LpSolutionFound, LpNoSolution, LpThrows, RepairPair, LpDone
  <2>2. QED
    BY <2>1 DEF FailuresInv
<1>3. CASE UNCHANGED lpVars
  BY <1>3 DEF lpVars, FailuresInv
<1>4. QED
  BY <1>1, <1>2, <1>3 DEF LpNext, Solve, LpPop, allVars

(***************************************************************************)
(* A run that follows two failed runs does without slack variables.        *)
(***************************************************************************)
THEOREM SlacksGivenUpInTime == LpSpec => []NoSlacksAfterTwoFailures
<1>1. FailuresInv => NoSlacksAfterTwoFailures
  BY DEF FailuresInv, NoSlacksAfterTwoFailures
<1>2. FailuresInv /\ [LpNext]_allVars => FailuresInv'
  BY NextFailuresInv
<1>3. QED
  BY InitFailuresInv, <1>1, <1>2, PTL DEF LpSpec

-----------------------------------------------------------------------------
(***************************************************************************)
(* Every step of the loop is a step of the search, or one the search does  *)
(* not see.                                                                *)
(***************************************************************************)
LEMMA LpStepIsSearchStep == [LpNext]_allVars => [Next]_vars
<1> SUFFICES ASSUME [LpNext]_allVars PROVE [Next]_vars
  OBVIOUS
<1>1. CASE LpSolutionFound
  BY <1>1 DEF LpSolutionFound, Next, Search
<1>2. CASE LpNoSolution
  BY <1>2 DEF LpNoSolution, Next, Search
<1>3. CASE LpThrows
  BY <1>3 DEF LpThrows, Next, Search
<1>4. CASE LpFailed
  BY <1>4 DEF LpFailed, Next
<1>5. CASE RepairPair
  BY <1>5 DEF RepairPair, Next, Search
<1>6. CASE LpPop
  BY <1>6 DEF LpPop, Next
<1>7. CASE FoundSolution \/ QuitLoop \/ Quit \/ Terminated
  BY <1>7 DEF Next, Search
<1>8. CASE UNCHANGED allVars
  BY <1>8 DEF allVars
<1>9. QED
  BY <1>1, <1>2, <1>3, <1>4, <1>5, <1>6, <1>7, <1>8 DEF LpNext, Solve

(***************************************************************************)
(* Whatever the LP solver answers, the search is that of SmtCore.          *)
(***************************************************************************)
THEOREM LpImplementsSearch == LpSpec => SafetySpec
<1>1. LpInit => Init
  BY DEF LpInit
<1>2. QED
  BY <1>1, LpStepIsSearchStep, PTL DEF LpSpec, SafetySpec

(***************************************************************************)
(* So failures and restorations leave the tree of decisions as justified   *)
(* as they found it, and what is dissolved follows from the decisions.     *)
(***************************************************************************)
THEOREM LpBacktrackingCorrect ==
  LpSpec => [](SiblingsRefuted /\ PopStaysJustified /\ DissolvedSound)
<1>1. SearchInv => SiblingsRefuted /\ PopStaysJustified /\ DissolvedSound
  BY DEF SearchInv
<1>2. QED
  BY <1>1, LpImplementsSearch, InitSearchInv, NextSearchInv, PTL DEF SafetySpec

(***************************************************************************)
(* Every case is refuted before UNSAT is answered, with an LP solver that  *)
(* fails as well.                                                          *)
(***************************************************************************)
THEOREM LpImplementsCaseSplitting ==
  ASSUME ClosedPhases = {}
  PROVE  LpSpec => ImplementsCaseSplitting
<1>1. Init => ImplInv /\ Abstract!Init
  BY InitImplInv, InitRefines
<1>2. ImplInv /\ [Next]_vars => ImplInv'
  BY NextImplInv
<1>3. ImplInv /\ [Next]_vars => [Abstract!Next]_(Abstract!vars)
  BY StepRefines DEF Abstract!vars
<1>4. QED
  BY <1>1, <1>2, <1>3, LpImplementsSearch, PTL
     DEF SafetySpec, ImplementsCaseSplitting, Abstract!Spec
=============================================================================
