------------------------- MODULE LinkedTableauProofs -------------------------
(***************************************************************************)
(* Proofs about LinkedTableau.                                             *)
(*                                                                         *)
(* At every turn of every loop the lists of the rows and columns are the   *)
(* entries of the matrix, and what the loops hold is alive.                *)
(*                                                                         *)
(* The linked lists implement a matrix: seen between calls, a pivot, a     *)
(* merge, an elimination, a row written and a copy change the cells as     *)
(* SparseMatrix says, whatever the lists, the order of their entries and   *)
(* the addresses given out.  LinkedInv says what every loop has still to   *)
(* do; MatrixInv what it has done.                                         *)
(***************************************************************************)
EXTENDS LinkedTableau, TLAPS, FiniteSetTheorems

(***************************************************************************)
(* Lists.  Nothing of a chain comes before its first member.               *)
(***************************************************************************)
LEMMA NothingBefore ==
  ASSUME NEW lists, NEW R, NEW first, Chain(lists, R, first), first \in R
  PROVE  lists.prev[first] \notin R
<1>1. PICK e \in R : lists.prev[e] \notin R
  BY DEF Chain
<1> QED BY <1>1 DEF Chain

\* A chain without its first member starts at the next one.
LEMMA ChainTail ==
  ASSUME NEW lists, NEW R, NULL \notin R, NEW first, Chain(lists, R, first),
         first # NULL
  PROVE  /\ first \in R
         /\ Chain(lists, R \ {first}, lists.next[first])
<1>1. first \in R /\ lists.prev[first] \notin R
  BY NothingBefore DEF Chain
<1> DEFINE second == lists.next[first]
           S == R \ {first}
<1>2. second \in S \/ (second = NULL /\ S = {})
  <2>1. CASE second # NULL
    <3>1. second \in R /\ lists.prev[second] = first
      BY <1>1, <2>1 DEF Chain
    <3> QED BY <1>1, <3>1
  <2>2. CASE second = NULL /\ S # {}
    <3>1. PICK e \in S : lists.prev[e] \notin S
      BY <2>2 DEF Chain
    <3>2. lists.prev[e] = first /\ lists.next[first] = e
      BY <3>1 DEF Chain
    <3> QED BY <2>2, <3>1, <3>2
  <2> QED BY <2>1, <2>2
<1>3. ASSUME NEW e \in S
      PROVE  /\ lists.next[e] = NULL
                \/ (lists.next[e] \in S /\ lists.prev[lists.next[e]] = e)
             /\ e # second => (lists.prev[e] \in S /\ lists.next[lists.prev[e]] = e)
  <2>1. lists.next[e] = NULL \/ (lists.next[e] \in R /\ lists.prev[lists.next[e]] = e)
    BY DEF Chain
  <2>2. lists.prev[e] \in R /\ lists.next[lists.prev[e]] = e
    BY DEF Chain
  <2> QED BY <1>1, <2>1, <2>2
<1>4. \A T \in SUBSET S : T # {} => \E e \in T : lists.prev[e] \notin T
  BY DEF Chain
<1> HIDE DEF second, S
<1>5. Chain(lists, S, second)
  BY <1>2, <1>3, <1>4 DEF Chain
<1> QED BY <1>1, <1>5 DEF S, second

\* A chain depends on the links of its members only, and not on what comes
\* before the first.
LEMMA ChainKept ==
  ASSUME NEW A, NEW B, NEW R, NEW first, Chain(A, R, first),
         \A e \in R : B.next[e] = A.next[e],
         \A e \in R \ {first} : B.prev[e] = A.prev[e],
         first \in R => B.prev[first] \notin R
  PROVE  Chain(B, R, first)
<1>1. first \in R \/ (first = NULL /\ R = {})
  BY DEF Chain
<1>2. first \in R => A.prev[first] \notin R
  BY NothingBefore
<1>3. ASSUME NEW e \in R
      PROVE  /\ B.next[e] = NULL \/ (B.next[e] \in R /\ B.prev[B.next[e]] = e)
             /\ e # first => (B.prev[e] \in R /\ B.next[B.prev[e]] = e)
  <2>1. A.next[e] = NULL \/ (A.next[e] \in R /\ A.prev[A.next[e]] = e)
    BY DEF Chain
  <2>2. e # first => (A.prev[e] \in R /\ A.next[A.prev[e]] = e)
    BY DEF Chain
  <2>3. B.next[e] = NULL \/ (B.next[e] \in R /\ B.prev[B.next[e]] = e)
    BY <1>2, <2>1
  <2> QED BY <2>2, <2>3
<1>4. ASSUME NEW T \in SUBSET R, T # {}
      PROVE  \E e \in T : B.prev[e] \notin T
  <2>1. PICK e \in T : A.prev[e] \notin T
    BY <1>4 DEF Chain
  <2> QED BY <2>1
<1> QED BY <1>1, <1>3, <1>4 DEF Chain

\* What a list family records for a list l of the members R.
LEMMA UnlinkChain ==
  ASSUME NEW lists \in ListsOK, NULL \notin Entry, NEW l \in Matrix \X Variable,
         NEW R \in SUBSET Entry, List(lists, R, l), NEW e \in R
  PROVE  List(Unlink(lists, l, e), R \ {e}, l)
<1> DEFINE new == Unlink(lists, l, e)
           S == R \ {e}
           previous == lists.prev[e]
           after == lists.next[e]
<1>t. /\ lists.next \in [Entry -> Link] /\ lists.prev \in [Entry -> Link]
      /\ lists.head \in [Matrix \X Variable -> Link]
  BY DEF ListsOK
<1>1. /\ Chain(lists, R, lists.head[l]) /\ lists.head[l] \in R
      /\ lists.prev[lists.head[l]] = NULL
  BY DEF List, Chain
<1>2. /\ after = NULL \/ (after \in R /\ lists.prev[after] = e)
      /\ e # lists.head[l] => (previous \in R /\ lists.next[previous] = e)
      /\ e = lists.head[l] => previous = NULL
  BY <1>1 DEF Chain
<1>3. previous # e /\ after # e
  <2>1. PICK d \in {e} : lists.prev[d] \notin {e}
    BY <1>1 DEF Chain
  <2> QED BY <1>2, <2>1
<1>4. /\ \A x \in Entry : new.next[x] = IF x = previous THEN after ELSE lists.next[x]
      /\ \A x \in Entry : new.prev[x] = IF x = after THEN previous ELSE lists.prev[x]
      /\ new.head[l] = IF lists.head[l] = e THEN after ELSE lists.head[l]
  BY <1>t DEF Unlink
<1> HIDE DEF new
<1>5. new.head[l] \in S \/ (new.head[l] = NULL /\ S = {})
  <2>1. CASE lists.head[l] # e
    BY <1>1, <1>4, <2>1
  <2>2. CASE lists.head[l] = e
    <3>1. Chain(lists, R \ {e}, after)
      BY <1>1, <2>2, ChainTail
    <3> QED BY <1>4, <2>2, <3>1 DEF Chain
  <2> QED BY <2>1, <2>2
<1>6. ASSUME NEW d \in S
      PROVE  /\ new.next[d] = NULL \/ (new.next[d] \in S /\ new.prev[new.next[d]] = d)
             /\ d # new.head[l] => (new.prev[d] \in S /\ new.next[new.prev[d]] = d)
  <2>1. /\ lists.next[d] = NULL \/ (lists.next[d] \in R /\ lists.prev[lists.next[d]] = d)
        /\ d # lists.head[l] => (lists.prev[d] \in R /\ lists.next[lists.prev[d]] = d)
        /\ d = lists.head[l] => lists.prev[d] = NULL
    BY <1>1 DEF Chain
  <2>2. new.next[d] = NULL \/ (new.next[d] \in S /\ new.prev[new.next[d]] = d)
    <3>1. CASE d = previous
      BY <1>2, <1>3, <1>4, <3>1
    <3>2. CASE d # previous
      <4>1. lists.next[d] # e
        BY <1>2, <2>1, <3>2
      <4>2. lists.next[d] # NULL => lists.next[d] # after
        BY <1>2, <2>1
      <4> QED BY <1>4, <2>1, <3>2, <4>1, <4>2
    <3> QED BY <3>1, <3>2
  <2>3. d # new.head[l] => (new.prev[d] \in S /\ new.next[new.prev[d]] = d)
    <3> SUFFICES ASSUME d # new.head[l]
                 PROVE  new.prev[d] \in S /\ new.next[new.prev[d]] = d
      OBVIOUS
    <3>1. CASE d = after
      <4>1. lists.head[l] # e
        BY <1>4, <3>1
      <4> QED BY <1>2, <1>3, <1>4, <3>1, <4>1
    <3>2. CASE d # after
      <4>1. d # lists.head[l]
        BY <1>4
      <4>2. lists.prev[d] # e
        BY <1>2, <2>1, <3>2, <4>1
      <4>3. lists.prev[d] # previous
        BY <1>2, <2>1, <4>1
      <4> QED BY <1>4, <2>1, <3>2, <4>1, <4>2, <4>3
    <3> QED BY <3>1, <3>2
  <2> QED BY <2>2, <2>3
<1>7. ASSUME NEW T \in SUBSET S, T # {}
      PROVE  \E d \in T : new.prev[d] \notin T
  <2>1. CASE previous \in T /\ after \in T
    <3>0. T \union {e} \in SUBSET R /\ T \union {e} # {}
      OBVIOUS
    <3>1. PICK d \in T \union {e} : lists.prev[d] \notin T \union {e}
      BY <1>1, <3>0 DEF Chain
    <3>2. d # e /\ d # after
      BY <1>2, <2>1, <3>1
    <3> QED BY <1>4, <3>1, <3>2
  <2>2. CASE previous \notin T
    <3>1. PICK d \in T : lists.prev[d] \notin T
      BY <1>1, <1>7 DEF Chain
    <3> QED BY <1>4, <2>2, <3>1
  <2>3. CASE after \notin T
    <3>1. PICK d \in T : lists.prev[d] \notin T
      BY <1>1, <1>7 DEF Chain
    <3> QED BY <1>4, <2>3, <3>1
  <2> QED BY <2>1, <2>2, <2>3
<1>8. new.head[l] # NULL => new.prev[new.head[l]] = NULL
  <2>1. CASE lists.head[l] = e
    BY <1>2, <1>4, <2>1, <1>t
  <2>2. CASE lists.head[l] # e
    <3>1. lists.head[l] # after
      BY <1>1, <1>2, <2>2
    <3> QED BY <1>1, <1>4, <2>2, <3>1
  <2> QED BY <2>1, <2>2
<1> QED BY <1>5, <1>6, <1>7, <1>8 DEF List, Chain, new

\* Other chains, and tails of this one behind e, do not notice.
LEMMA UnlinkKeeps ==
  ASSUME NEW lists \in ListsOK, NULL \notin Entry, NEW l \in Matrix \X Variable,
         NEW R \in SUBSET Entry, List(lists, R, l), NEW e \in R,
         NEW S \in SUBSET Entry, e \notin S, NEW first, Chain(lists, S, first)
  PROVE  Chain(Unlink(lists, l, e), S, first)
<1> DEFINE new == Unlink(lists, l, e)
           previous == lists.prev[e]
           after == lists.next[e]
<1>1. /\ \A x \in Entry : new.next[x] = IF x = previous THEN after ELSE lists.next[x]
      /\ \A x \in Entry : new.prev[x] = IF x = after THEN previous ELSE lists.prev[x]
  BY DEF Unlink
<1> HIDE DEF new
<1>2. previous \notin S
  <2>1. e = lists.head[l] => previous = NULL
    BY DEF List
  <2>2. e # lists.head[l] => lists.next[previous] = e
    BY DEF List, Chain
  <2> QED BY <2>1, <2>2 DEF Chain
<1>3. after \in S => after = first
  <2>1. after = NULL \/ lists.prev[after] = e
    BY DEF List, Chain
  <2> QED BY <2>1 DEF Chain
<1>4. first \in S => lists.prev[first] \notin S
  BY NothingBefore
<1>5. /\ \A x \in S : new.next[x] = lists.next[x]
      /\ \A x \in S \ {first} : new.prev[x] = lists.prev[x]
      /\ first \in S => new.prev[first] \notin S
  BY <1>1, <1>2, <1>3, <1>4
<1>6. Chain(new, S, first)
  BY <1>5, ChainKept
<1> QED BY <1>6 DEF new

\* A new entry at the front of its list.
LEMMA PushChain ==
  ASSUME NEW lists \in ListsOK, NULL \notin Entry, NEW l \in Matrix \X Variable,
         NEW R \in SUBSET Entry, List(lists, R, l), NEW e \in Entry \ R
  PROVE  List(PushFront(lists, l, e), R \union {e}, l)
<1> DEFINE new == PushFront(lists, l, e)
           S == R \union {e}
           head == lists.head[l]
<1>t. /\ lists.next \in [Entry -> Link] /\ lists.prev \in [Entry -> Link]
      /\ lists.head \in [Matrix \X Variable -> Link]
  BY DEF ListsOK
<1>1. /\ Chain(lists, R, head)
      /\ head # NULL => lists.prev[head] = NULL
      /\ head \in R \/ (head = NULL /\ R = {})
  BY DEF List, Chain
<1>2. /\ \A x \in Entry : new.next[x] = IF x = e THEN head ELSE lists.next[x]
      /\ \A x \in Entry : new.prev[x] = IF x = e THEN NULL
                                        ELSE IF x = head THEN e ELSE lists.prev[x]
      /\ new.head[l] = e
  BY <1>t DEF PushFront
<1> HIDE DEF new
<1>3. ASSUME NEW d \in S
      PROVE  /\ new.next[d] = NULL \/ (new.next[d] \in S /\ new.prev[new.next[d]] = d)
             /\ d # e => (new.prev[d] \in S /\ new.next[new.prev[d]] = d)
  <2>1. CASE d = e
    BY <1>1, <1>2, <2>1
  <2>2. CASE d # e
    <3>1. /\ lists.next[d] = NULL \/ (lists.next[d] \in R /\ lists.prev[lists.next[d]] = d)
          /\ d # head => (lists.prev[d] \in R /\ lists.next[lists.prev[d]] = d)
      BY <1>1, <2>2 DEF Chain
    <3>2. lists.next[d] # NULL => lists.next[d] # head
      BY <1>1, <3>1
    <3> QED BY <1>1, <1>2, <2>2, <3>1, <3>2
  <2> QED BY <2>1, <2>2
<1>4. ASSUME NEW T \in SUBSET S, T # {}
      PROVE  \E d \in T : new.prev[d] \notin T
  <2>1. CASE e \in T
    BY <1>2, <2>1
  <2>2. CASE e \notin T
    <3>1. T \in SUBSET R
      BY <2>2
    <3>2. PICK d \in T : lists.prev[d] \notin T
      BY <1>1, <1>4, <3>1 DEF Chain
    <3> QED BY <1>2, <2>2, <3>2
  <2> QED BY <2>1, <2>2
<1>5. Chain(new, S, e)
  BY <1>3, <1>4 DEF Chain
<1> QED BY <1>2, <1>5 DEF List, new

\* Every chain without the new entry stays one.
LEMMA PushKeeps ==
  ASSUME NEW lists \in ListsOK, NULL \notin Entry, NEW l \in Matrix \X Variable,
         lists.head[l] # NULL => lists.prev[lists.head[l]] = NULL,
         NEW S \in SUBSET Entry, NEW e \in Entry \ S, NEW first, Chain(lists, S, first)
  PROVE  Chain(PushFront(lists, l, e), S, first)
<1> DEFINE new == PushFront(lists, l, e)
           head == lists.head[l]
<1>1. /\ \A x \in Entry : new.next[x] = IF x = e THEN head ELSE lists.next[x]
      /\ \A x \in Entry : new.prev[x] = IF x = e THEN NULL
                                        ELSE IF x = head THEN e ELSE lists.prev[x]
  BY DEF PushFront, ListsOK
<1> HIDE DEF new
<1>2. head \in S => head = first
  BY DEF Chain
<1>3. first \in S => lists.prev[first] \notin S
  BY NothingBefore
<1>4. Chain(new, S, first)
  BY <1>1, <1>2, <1>3, ChainKept
<1> QED BY <1>4 DEF new

(***************************************************************************)
(* A family of lists holds the entries of S, each on the list of its key;  *)
(* the lists in X are being freed.                                         *)
(***************************************************************************)
ListOf(S, key, l) == {e \in S : key[e] = l}
Linked(lists, S, key, X) ==
  \A l \in (Matrix \X Variable) \ X : List(lists, ListOf(S, key, l), l)
Counted(lists, S, key, X) ==
  \A l \in (Matrix \X Variable) \ X : lists.size[l] = Cardinality(ListOf(S, key, l))

\* An insertion keeps the family linked, and counts the entry.
LEMMA PushFamily ==
  ASSUME NEW lists \in ListsOK, NULL \notin Entry, NEW S \in SUBSET Entry,
         NEW key, NEW newKey, NEW X, Linked(lists, S, key, X),
         NEW l \in (Matrix \X Variable) \ X, NEW e \in Entry \ S,
         newKey[e] = l, \A d \in S : newKey[d] = key[d]
  PROVE  /\ PushFront(lists, l, e) \in ListsOK
         /\ Linked(PushFront(lists, l, e), S \union {e}, newKey, X)
         /\ IsFiniteSet(S) /\ Counted(lists, S, key, X) =>
              Counted(PushFront(lists, l, e), S \union {e}, newKey, X)
<1> DEFINE new == PushFront(lists, l, e)
<1>1. new \in ListsOK
  BY DEF PushFront, ListsOK, Link
<1>2. List(lists, ListOf(S, key, l), l)
  BY DEF Linked
<1>3. ASSUME NEW k \in (Matrix \X Variable) \ X
      PROVE  List(new, ListOf(S \union {e}, newKey, k), k)
  <2>1. CASE k = l
    <3>1. ListOf(S \union {e}, newKey, k) = ListOf(S, key, l) \union {e}
      BY <2>1 DEF ListOf
    <3>2. ListOf(S, key, l) \in SUBSET Entry /\ e \in Entry \ ListOf(S, key, l)
      BY DEF ListOf
    <3>3. List(new, ListOf(S, key, l) \union {e}, l)
      BY <1>2, <3>2, PushChain
    <3> QED BY <2>1, <3>1, <3>3
  <2>2. CASE k # l
    <3> DEFINE R == ListOf(S, key, k)
    <3>1. ListOf(S \union {e}, newKey, k) = R
      BY <2>2 DEF ListOf
    <3>2. R \in SUBSET Entry /\ e \in Entry \ R /\ R \intersect ListOf(S, key, l) = {}
      BY <2>2 DEF ListOf
    <3>3. Chain(lists, R, lists.head[k]) /\ (lists.head[k] # NULL => lists.prev[lists.head[k]] = NULL)
      BY DEF Linked, List
    <3>4. lists.head[l] # NULL => lists.prev[lists.head[l]] = NULL
      BY <1>2 DEF List
    <3> HIDE DEF R
    <3>5. Chain(new, R, lists.head[k])
      BY <3>2, <3>3, <3>4, PushKeeps
    <3>6. new.head[k] = lists.head[k]
      BY <2>2 DEF PushFront, ListsOK
    <3>7. lists.head[k] # NULL => new.prev[lists.head[k]] = NULL
      <4>1. lists.head[k] # NULL => lists.head[k] \in R
        BY <3>3 DEF Chain
      <4>2. lists.head[l] # NULL => lists.head[l] \in ListOf(S, key, l)
        BY <1>2 DEF List, Chain
      <4> QED BY <3>2, <3>3, <4>1, <4>2 DEF PushFront
    <3>8. List(new, R, k)
      BY <3>5, <3>6, <3>7 DEF List
    <3> QED BY <3>1, <3>8
  <2> QED BY <2>1, <2>2
<1>4. ASSUME IsFiniteSet(S), Counted(lists, S, key, X), NEW k \in (Matrix \X Variable) \ X
      PROVE  new.size[k] = Cardinality(ListOf(S \union {e}, newKey, k))
  <2>0. lists.size[k] = Cardinality(ListOf(S, key, k))
    BY <1>4 DEF Counted
  <2>1. CASE k = l
    <3>1. ListOf(S \union {e}, newKey, k) = ListOf(S, key, l) \union {e}
      BY <2>1 DEF ListOf
    <3>2. IsFiniteSet(ListOf(S, key, l)) /\ e \notin ListOf(S, key, l)
      BY <1>4, FS_Subset DEF ListOf
    <3>3. Cardinality(ListOf(S, key, l) \union {e}) = Cardinality(ListOf(S, key, l)) + 1
      BY <3>2, FS_AddElement
    <3>4. new.size[k] = lists.size[k] + 1
      BY <2>1 DEF PushFront, ListsOK
    <3> QED BY <2>0, <2>1, <3>1, <3>3, <3>4
  <2>2. CASE k # l
    <3>1. ListOf(S \union {e}, newKey, k) = ListOf(S, key, k)
      BY <2>2 DEF ListOf
    <3>2. new.size[k] = lists.size[k]
      BY <2>2 DEF PushFront, ListsOK
    <3> QED BY <2>0, <3>1, <3>2
  <2> QED BY <2>1, <2>2
<1> QED BY <1>1, <1>3, <1>4 DEF Linked, Counted

\* An erased entry leaves the family linked, and is no longer counted.
LEMMA UnlinkFamily ==
  ASSUME NEW lists \in ListsOK, NULL \notin Entry, NEW S \in SUBSET Entry,
         NEW key, NEW X, Linked(lists, S, key, X),
         NEW e \in S, NEW l \in (Matrix \X Variable) \ X, key[e] = l
  PROVE  /\ Unlink(lists, l, e) \in ListsOK
         /\ Linked(Unlink(lists, l, e), S \ {e}, key, X)
         /\ IsFiniteSet(S) /\ Counted(lists, S, key, X) =>
              Counted(Unlink(lists, l, e), S \ {e}, key, X)
<1> DEFINE new == Unlink(lists, l, e)
           L == ListOf(S, key, l)
<1>1. new \in ListsOK
  <2>1. lists.next[e] \in Link /\ lists.prev[e] \in Link
    BY DEF ListsOK
  <2> QED BY <2>1 DEF Unlink, ListsOK
<1>2. List(lists, L, l) /\ e \in L /\ L \in SUBSET Entry
  BY DEF Linked, ListOf
<1>3. ASSUME NEW k \in (Matrix \X Variable) \ X
      PROVE  List(new, ListOf(S \ {e}, key, k), k)
  <2>1. CASE k = l
    <3>1. ListOf(S \ {e}, key, k) = L \ {e}
      BY <2>1 DEF ListOf
    <3> HIDE DEF L
    <3>3. List(new, L \ {e}, l)
      BY <1>2, UnlinkChain
    <3> QED BY <2>1, <3>1, <3>3
  <2>2. CASE k # l
    <3> DEFINE R == ListOf(S, key, k)
    <3>1. ListOf(S \ {e}, key, k) = R
      BY <2>2 DEF ListOf
    <3>2. R \in SUBSET Entry /\ e \notin R /\ R \intersect L = {}
      BY <2>2 DEF ListOf
    <3>3. Chain(lists, R, lists.head[k]) /\ (lists.head[k] # NULL => lists.prev[lists.head[k]] = NULL)
      BY DEF Linked, List
    <3> HIDE DEF R, L
    <3>5. Chain(new, R, lists.head[k])
      BY <1>2, <3>2, <3>3, UnlinkKeeps
    <3>6. new.head[k] = lists.head[k]
      BY <2>2 DEF Unlink, ListsOK
    <3>7. lists.head[k] # NULL => new.prev[lists.head[k]] = NULL
      <4>1. lists.head[k] # NULL => lists.head[k] \in R
        BY <3>3 DEF Chain
      <4>2. lists.next[e] # NULL => lists.next[e] \in L
        BY <1>2 DEF List, Chain
      <4> QED BY <3>2, <3>3, <4>1, <4>2 DEF Unlink
    <3>8. List(new, R, k)
      BY <3>5, <3>6, <3>7 DEF List
    <3> QED BY <3>1, <3>8
  <2> QED BY <2>1, <2>2
<1>4. ASSUME IsFiniteSet(S), Counted(lists, S, key, X), NEW k \in (Matrix \X Variable) \ X
      PROVE  new.size[k] = Cardinality(ListOf(S \ {e}, key, k))
  <2>0. lists.size[k] = Cardinality(ListOf(S, key, k))
    BY <1>4 DEF Counted
  <2>1. CASE k = l
    <3>1. ListOf(S \ {e}, key, k) = L \ {e}
      BY <2>1 DEF ListOf
    <3>2. IsFiniteSet(L) /\ e \in L
      BY <1>4, FS_Subset DEF ListOf
    <3>3. Cardinality(L \ {e}) = Cardinality(L) - 1
      BY <3>2, FS_RemoveElement
    <3>4. new.size[k] = lists.size[k] - 1
      BY <2>1 DEF Unlink, ListsOK
    <3> QED BY <2>0, <2>1, <3>1, <3>3, <3>4
  <2>2. CASE k # l
    <3>1. ListOf(S \ {e}, key, k) = ListOf(S, key, k)
      BY <2>2 DEF ListOf
    <3>2. new.size[k] = lists.size[k]
      BY <2>2 DEF Unlink, ListsOK
    <3> QED BY <2>0, <3>1, <3>2
  <2> QED BY <2>1, <2>2
<1> QED BY <1>1, <1>3, <1>4 DEF Linked, Counted

-----------------------------------------------------------------------------
(***************************************************************************)
(* The constants, and the arithmetic of the values.                        *)
(***************************************************************************)
LEMMA Constants ==
  /\ Size \in Nat \ {0} /\ 0 \in Variable
  /\ NULL \notin Entry
  /\ 0 \in Value /\ MinusOne \in Value \ {0}
  /\ Weight \subseteq Value /\ GlpkWeight \subseteq Value
  /\ InitialBasic \subseteq Variable
  /\ \A pair \in Pairs : pair[1] \in Variable /\ pair[2] \in Variable /\ pair[1] # pair[2]
  /\ MaxOperations \in Nat
BY SizesAssumption DEF Variable, Value, MinusOne

\* Sums and products of values are values.
LEMMA Sums ==
  ASSUME NEW x \in Value, NEW y \in Value
  PROVE  Plus(x, y) \in Value /\ Times(x, y) \in Value
<1>1. Modulus \in Nat \ {0} /\ x \in Nat /\ y \in Nat
  BY SizesAssumption DEF Value
<1>2. x + y \in Nat /\ x * y \in Nat
  BY <1>1
<1>3. \A n \in Nat : n % Modulus \in 0 .. Modulus - 1
  BY <1>1
<1> QED BY <1>2, <1>3 DEF Plus, Times, Value

(***************************************************************************)
(* The heap: the lists of the rows but for X, those of the columns but for *)
(* Y, and no cell with two entries.                                        *)
(***************************************************************************)
RowKey == [e \in Entry |-> RowList(e)]
ColumnKey == [e \in Entry |-> ColumnList(e)]
HeapType ==
  /\ live \in SUBSET Entry
  /\ cell \in [Entry -> CellOK]
  /\ byRow \in ListsOK /\ byColumn \in ListsOK
HeapLinked(X, Y) ==
  /\ HeapType
  /\ IsFiniteSet(live)
  /\ Linked(byRow, live, RowKey, X)
  /\ Linked(byColumn, live, ColumnKey, Y)
  /\ CellsUnique
HeapCounted(X, Y) ==
  /\ Counted(byRow, live, RowKey, X)
  /\ Counted(byColumn, live, ColumnKey, Y)

\* Rows and columns are the lists of the keys.
LEMMA Keys ==
  ASSUME HeapType, NEW m \in Matrix, NEW i \in Variable
  PROVE  /\ InRow(m, i) = ListOf(live, RowKey, <<m, i>>)
         /\ InColumn(m, i) = ListOf(live, ColumnKey, <<m, i>>)
         /\ InRow(m, i) = {e \in live : cell[e].matrix = m /\ cell[e].row = i}
         /\ InColumn(m, i) = {e \in live : cell[e].matrix = m /\ cell[e].column = i}
BY DEF HeapType, InRow, InColumn, ListOf, RowKey, ColumnKey, RowList, ColumnList

\* An entry's cell has a row, a column and their lists.
LEMMA CellFacts ==
  ASSUME HeapType, NEW e \in Entry
  PROVE  /\ cell[e].matrix \in Matrix /\ cell[e].row \in Variable
         /\ cell[e].column \in Variable /\ cell[e].value \in Value
         /\ RowKey[e] = <<cell[e].matrix, cell[e].row>> /\ RowKey[e] = RowList(e)
         /\ ColumnKey[e] = <<cell[e].matrix, cell[e].column>> /\ ColumnKey[e] = ColumnList(e)
         /\ RowList(e) \in Matrix \X Variable /\ ColumnList(e) \in Matrix \X Variable
BY DEF HeapType, CellOK, RowKey, ColumnKey, RowList, ColumnList

(***************************************************************************)
(* What an insertion leaves alone.                                         *)
(***************************************************************************)
Inserted(m, r, c, v) ==
  /\ \E e \in Entry \ live :
       /\ live' = live \union {e}
       /\ cell' = [cell EXCEPT ![e] = [matrix |-> m, row |-> r, column |-> c, value |-> v]]
  /\ \A Q \in SUBSET live : \A first :
       /\ Chain(byRow, Q, first) => Chain(byRow', Q, first)
       /\ Chain(byColumn, Q, first) => Chain(byColumn', Q, first)

\* A new entry of an empty cell joins the list of its row and its column.
LEMMA AddEntryLinks ==
  ASSUME NEW X, NEW Y, HeapLinked(X, Y),
         NEW m \in Matrix, NEW r \in Variable, NEW c \in Variable, NEW v \in Value \ {0},
         <<m, r>> \notin X, <<m, c>> \notin Y,
         \A d \in live : ~(RowList(d) = <<m, r>> /\ ColumnList(d) = <<m, c>>),
         AddEntry(m, r, c, v)
  PROVE  /\ HeapLinked(X, Y)'
         /\ HeapCounted(X, Y) => HeapCounted(X, Y)'
         /\ Inserted(m, r, c, v)
<1>t. /\ live \in SUBSET Entry /\ cell \in [Entry -> CellOK] /\ IsFiniteSet(live)
      /\ byRow \in ListsOK /\ byColumn \in ListsOK /\ NULL \notin Entry
      /\ Linked(byRow, live, RowKey, X) /\ Linked(byColumn, live, ColumnKey, Y)
      /\ <<m, r>> \in (Matrix \X Variable) \ X /\ <<m, c>> \in (Matrix \X Variable) \ Y
  BY Constants DEF HeapLinked, HeapType
<1>1. PICK e \in Entry \ live :
        /\ live' = live \union {e}
        /\ cell' = [cell EXCEPT ![e] = [matrix |-> m, row |-> r, column |-> c, value |-> v]]
        /\ byRow' = PushFront(byRow, <<m, r>>, e)
        /\ byColumn' = PushFront(byColumn, <<m, c>>, e)
  <2>1. live # Entry /\ live \subseteq Entry
    BY <1>t DEF AddEntry
  <2>2. (CHOOSE x \in Entry \ live : TRUE) \in Entry \ live
    BY <2>1
  <2> QED BY <2>2 DEF AddEntry
<1>2. /\ cell' \in [Entry -> CellOK]
      /\ cell'[e] = [matrix |-> m, row |-> r, column |-> c, value |-> v]
      /\ \A d \in Entry : d # e => cell'[d] = cell[d]
  BY <1>t, <1>1 DEF CellOK
<1>3. /\ RowKey'[e] = <<m, r>> /\ ColumnKey'[e] = <<m, c>>
      /\ \A d \in live : RowKey'[d] = RowKey[d] /\ ColumnKey'[d] = ColumnKey[d]
  BY <1>t, <1>1, <1>2 DEF RowKey, ColumnKey, RowList, ColumnList
<1>4. /\ byRow' \in ListsOK
      /\ Linked(byRow', live', RowKey', X)
      /\ Counted(byRow, live, RowKey, X) => Counted(byRow', live', RowKey', X)
  BY <1>t, <1>1, <1>3, PushFamily
<1>5. /\ byColumn' \in ListsOK
      /\ Linked(byColumn', live', ColumnKey', Y)
      /\ Counted(byColumn, live, ColumnKey, Y) => Counted(byColumn', live', ColumnKey', Y)
  BY <1>t, <1>1, <1>3, PushFamily
<1>6. CellsUnique'
  <2> SUFFICES ASSUME NEW a \in live', NEW b \in live',
                      RowList(a)' = RowList(b)', ColumnList(a)' = ColumnList(b)'
               PROVE  a = b
    BY DEF CellsUnique
  <2>1. \A d \in live : RowList(d)' = RowList(d) /\ ColumnList(d)' = ColumnList(d)
    BY <1>t, <1>1, <1>2 DEF RowList, ColumnList
  <2>2. RowList(e)' = <<m, r>> /\ ColumnList(e)' = <<m, c>>
    BY <1>2 DEF RowList, ColumnList
  <2>3. \A x, y \in live : RowList(x) = RowList(y) /\ ColumnList(x) = ColumnList(y) => x = y
    BY DEF HeapLinked, CellsUnique
  <2> QED BY <1>1, <2>1, <2>2, <2>3
<1>7. IsFiniteSet(live')
  BY <1>t, <1>1, FS_AddElement
<1>8. Inserted(m, r, c, v)
  <2>1. /\ byRow.head[<<m, r>>] # NULL => byRow.prev[byRow.head[<<m, r>>]] = NULL
        /\ byColumn.head[<<m, c>>] # NULL => byColumn.prev[byColumn.head[<<m, c>>]] = NULL
    BY <1>t DEF Linked, List
  <2>2. ASSUME NEW Q \in SUBSET live, NEW first
        PROVE  /\ Chain(byRow, Q, first) => Chain(byRow', Q, first)
               /\ Chain(byColumn, Q, first) => Chain(byColumn', Q, first)
    <3>1. Q \in SUBSET Entry /\ e \in Entry \ Q
      BY <1>t, <1>1
    <3>2. Chain(byRow, Q, first) => Chain(byRow', Q, first)
      BY <1>t, <1>1, <2>1, <3>1, PushKeeps
    <3>3. Chain(byColumn, Q, first) => Chain(byColumn', Q, first)
      BY <1>t, <1>1, <2>1, <3>1, PushKeeps
    <3> QED BY <3>2, <3>3
  <2> QED BY <1>1, <2>2 DEF Inserted
<1> QED BY <1>1, <1>2, <1>4, <1>5, <1>6, <1>7, <1>8 DEF HeapLinked, HeapType, HeapCounted

(***************************************************************************)
(* What a changed value, or the erasure of a zero, leaves alone.           *)
(***************************************************************************)
Assigned(e, v) ==
  /\ live' = IF v = 0 THEN live \ {e} ELSE live
  /\ cell' = [cell EXCEPT ![e] = [cell[e] EXCEPT !.value = v]]
  /\ RowKey' = RowKey /\ ColumnKey' = ColumnKey
  /\ \A Q \in SUBSET live : \A first : e \notin Q =>
       /\ Chain(byRow, Q, first) => Chain(byRow', Q, first)
       /\ Chain(byColumn, Q, first) => Chain(byColumn', Q, first)

\* An entry that lost its value leaves both its lists.
LEMMA SetValueLinks ==
  ASSUME NEW X, NEW Y, HeapLinked(X, Y), NEW e \in live, NEW v \in Value,
         RowList(e) \notin X, ColumnList(e) \notin Y, SetValue(e, v)
  PROVE  /\ HeapLinked(X, Y)'
         /\ HeapCounted(X, Y) => HeapCounted(X, Y)'
         /\ Assigned(e, v)
<1>t. /\ live \in SUBSET Entry /\ cell \in [Entry -> CellOK] /\ IsFiniteSet(live)
      /\ byRow \in ListsOK /\ byColumn \in ListsOK /\ NULL \notin Entry
      /\ Linked(byRow, live, RowKey, X) /\ Linked(byColumn, live, ColumnKey, Y)
      /\ e \in Entry /\ HeapType
  BY Constants DEF HeapLinked, HeapType
<1>k. /\ RowKey[e] = RowList(e) /\ RowList(e) \in (Matrix \X Variable) \ X
      /\ ColumnKey[e] = ColumnList(e) /\ ColumnList(e) \in (Matrix \X Variable) \ Y
  BY <1>t, CellFacts
<1>1. cell' = [cell EXCEPT ![e] = [cell[e] EXCEPT !.value = v]]
  BY DEF SetValue
<1>2. /\ cell' \in [Entry -> CellOK]
      /\ \A d \in Entry : /\ cell'[d].matrix = cell[d].matrix /\ cell'[d].row = cell[d].row
                          /\ cell'[d].column = cell[d].column
  BY <1>t, <1>1 DEF CellOK
<1>3. RowKey' = RowKey /\ ColumnKey' = ColumnKey
  BY <1>2 DEF RowKey, ColumnKey, RowList, ColumnList
<1>4. CASE v # 0
  <2>1. UNCHANGED <<live, byRow, byColumn>>
    BY <1>4 DEF SetValue
  <2>2. CellsUnique'
    <3>1. \A d \in Entry : RowList(d)' = RowList(d) /\ ColumnList(d)' = ColumnList(d)
      BY <1>2 DEF RowList, ColumnList
    <3> QED BY <1>t, <2>1, <3>1 DEF HeapLinked, CellsUnique
  <2>3. Assigned(e, v)
    BY <1>1, <1>3, <1>4, <2>1 DEF Assigned
  <2> QED BY <1>t, <1>2, <1>3, <2>1, <2>2, <2>3 DEF HeapLinked, HeapType, HeapCounted
<1>5. CASE v = 0
  <2>1. /\ live' = live \ {e}
        /\ byRow' = Unlink(byRow, RowList(e), e)
        /\ byColumn' = Unlink(byColumn, ColumnList(e), e)
    BY <1>5 DEF SetValue
  <2>2. /\ byRow' \in ListsOK
        /\ Linked(byRow', live', RowKey', X)
        /\ Counted(byRow, live, RowKey, X) => Counted(byRow', live', RowKey', X)
    BY <1>t, <1>k, <1>3, <2>1, UnlinkFamily
  <2>3. /\ byColumn' \in ListsOK
        /\ Linked(byColumn', live', ColumnKey', Y)
        /\ Counted(byColumn, live, ColumnKey, Y) => Counted(byColumn', live', ColumnKey', Y)
    BY <1>t, <1>k, <1>3, <2>1, UnlinkFamily
  <2>4. CellsUnique'
    <3>1. \A d \in Entry : RowList(d)' = RowList(d) /\ ColumnList(d)' = ColumnList(d)
      BY <1>2 DEF RowList, ColumnList
    <3> QED BY <1>t, <2>1, <3>1 DEF HeapLinked, CellsUnique
  <2>5. IsFiniteSet(live')
    BY <1>t, <2>1, FS_RemoveElement
  <2>6. Assigned(e, v)
    <3>1. /\ List(byRow, ListOf(live, RowKey, RowList(e)), RowList(e))
          /\ e \in ListOf(live, RowKey, RowList(e))
          /\ ListOf(live, RowKey, RowList(e)) \in SUBSET Entry
      BY <1>t, <1>k DEF Linked, ListOf
    <3>2. /\ List(byColumn, ListOf(live, ColumnKey, ColumnList(e)), ColumnList(e))
          /\ e \in ListOf(live, ColumnKey, ColumnList(e))
          /\ ListOf(live, ColumnKey, ColumnList(e)) \in SUBSET Entry
      BY <1>t, <1>k DEF Linked, ListOf
    <3>3. ASSUME NEW Q \in SUBSET live, NEW first, e \notin Q
          PROVE  /\ Chain(byRow, Q, first) => Chain(byRow', Q, first)
                 /\ Chain(byColumn, Q, first) => Chain(byColumn', Q, first)
      <4>1. Q \in SUBSET Entry
        BY <1>t
      <4>2. Chain(byRow, Q, first) => Chain(byRow', Q, first)
        BY <1>t, <1>k, <2>1, <3>1, <3>3, <4>1, UnlinkKeeps
      <4>3. Chain(byColumn, Q, first) => Chain(byColumn', Q, first)
        BY <1>t, <1>k, <2>1, <3>2, <3>3, <4>1, UnlinkKeeps
      <4> QED BY <4>2, <4>3
    <3> QED BY <1>1, <1>3, <1>5, <2>1, <3>3 DEF Assigned
  <2> QED BY <1>2, <2>1, <2>2, <2>3, <2>4, <2>5, <2>6 DEF HeapLinked, HeapType, HeapCounted
<1> QED BY <1>4, <1>5

\* An entry on a list that is being freed may go without being unlinked.
LEMMA FreedFamily ==
  ASSUME NEW lists, NEW S, NEW key, NEW X, NEW e, key[e] \in X
  PROVE  /\ Linked(lists, S, key, X) => Linked(lists, S \ {e}, key, X)
         /\ Counted(lists, S, key, X) => Counted(lists, S \ {e}, key, X)
<1>1. \A l \in (Matrix \X Variable) \ X : ListOf(S \ {e}, key, l) = ListOf(S, key, l)
  BY DEF ListOf
<1> QED BY <1>1 DEF Linked, Counted

\* The heap knows its lists by their rows and columns.
LEMMA HeapLists ==
  HeapLinked(ErasedRows, ErasedColumns) <=>
    HeapType /\ IsFiniteSet(live) /\ ListsLinked /\ CellsUnique
<1> SUFFICES ASSUME HeapType
             PROVE  ListsLinked <=> /\ Linked(byRow, live, RowKey, ErasedRows)
                                    /\ Linked(byColumn, live, ColumnKey, ErasedColumns)
  BY DEF HeapLinked
<1>1. \A m \in Matrix, i \in Variable :
        /\ InRow(m, i) = ListOf(live, RowKey, <<m, i>>)
        /\ InColumn(m, i) = ListOf(live, ColumnKey, <<m, i>>)
  BY Keys
<1>2. ASSUME ListsLinked
      PROVE  /\ Linked(byRow, live, RowKey, ErasedRows)
             /\ Linked(byColumn, live, ColumnKey, ErasedColumns)
  <2>1. ASSUME NEW l \in Matrix \X Variable
        PROVE  /\ l \notin ErasedRows => List(byRow, ListOf(live, RowKey, l), l)
               /\ l \notin ErasedColumns => List(byColumn, ListOf(live, ColumnKey, l), l)
    <3>1. PICK m \in Matrix, i \in Variable : l = <<m, i>>
      OBVIOUS
    <3>2. /\ <<m, i>> \notin ErasedRows => List(byRow, InRow(m, i), <<m, i>>)
          /\ <<m, i>> \notin ErasedColumns => List(byColumn, InColumn(m, i), <<m, i>>)
      BY <1>2 DEF ListsLinked
    <3> QED BY <1>1, <3>1, <3>2
  <2> QED BY <2>1 DEF Linked
<1>3. ASSUME Linked(byRow, live, RowKey, ErasedRows), Linked(byColumn, live, ColumnKey, ErasedColumns)
      PROVE  ListsLinked
  <2> SUFFICES ASSUME NEW m \in Matrix, NEW i \in Variable
               PROVE  /\ <<m, i>> \notin ErasedRows => List(byRow, InRow(m, i), <<m, i>>)
                      /\ <<m, i>> \notin ErasedColumns => List(byColumn, InColumn(m, i), <<m, i>>)
    BY DEF ListsLinked
  <2>1. <<m, i>> \in Matrix \X Variable
    OBVIOUS
  <2>2. /\ <<m, i>> \notin ErasedRows => List(byRow, ListOf(live, RowKey, <<m, i>>), <<m, i>>)
        /\ <<m, i>> \notin ErasedColumns => List(byColumn, ListOf(live, ColumnKey, <<m, i>>), <<m, i>>)
    BY <1>3, <2>1 DEF Linked
  <2> QED BY <1>1, <2>2
<1> QED BY <1>2, <1>3

-----------------------------------------------------------------------------
(***************************************************************************)
(* The inductive invariant.  To the heap and to what the loops hold it     *)
(* adds: the source and the target of a sum differ; the loop of pivot only *)
(* clears cells of the entering variable's column, and of no row to come;  *)
(* the rows are written in order; and the copy counts what is left.        *)
(***************************************************************************)
ScanInv ==
  /\ op.kind = "none" => cursor = NULL
  /\ op.kind = "eraseRow" => Chain(byRow, InRow("tableau", op.source), cursor)
  /\ op.kind = "eraseColumn" => Chain(byColumn, InColumn("tableau", op.source), cursor)
  /\ op.kind = "addScaledRow" => op.source # op.target /\ RowScanned
  /\ op.kind = "addColumn" => op.source # op.target /\ ColumnScanned

Uncopied(Q) ==
  Q \union {e \in live : cell[e].matrix = op.matrix /\ cell[e].row > op.source}
CopyCounted(lists, S, key, m, U) ==
  \A i \in Variable :
    /\ lists.size[<<m, i>>] = Cardinality(ListOf(S, key, <<m, i>>))
    /\ lists.size[<<Other(m), i>>] = lists.size[<<m, i>>]
    /\ Cardinality(ListOf(S, key, <<Other(m), i>>)) + Cardinality(ListOf(U, key, <<m, i>>))
         = lists.size[<<m, i>>]
Copying(Q) ==
  /\ \A d \in live : cell[d].matrix = Other(op.matrix) =>
       \/ cell[d].row < op.source
       \/ cell[d].row = op.source /\ \A e \in Q : cell[e].column # cell[d].column
  /\ CopyCounted(byRow, live, RowKey, op.matrix, Uncopied(Q))
  /\ CopyCounted(byColumn, live, ColumnKey, op.matrix, Uncopied(Q))
CopyInv == op.kind = "copy" => 
  \E Q \in Left(byRow, InRow(op.matrix, op.source), cursor) : Copying(Q)

ToClear(Q) ==
  op.kind # "none" =>
    /\ op.kind = "addScaledRow" /\ op.source = pivoting.nonBasic
    /\ op.index = pivoting.nonBasic /\ op.value = 0
    /\ \A e \in Q : cell[e].row # op.target
PivotInv == pivoting.stage = "column" => 
  \E Q \in Left(byColumn, InColumn("tableau", pivoting.nonBasic), pivoting.cursor) :
    ToClear(Q)

FillInv ==
  filling < Size * Size =>
    /\ Idle
    /\ \A e \in live : cell[e].matrix = "tableau" =>
         cell[e].row * Size + cell[e].column < filling

SizesInv == op.kind # "copy" => HeapCounted(ErasedRows, ErasedColumns)

LinkedInv ==
  /\ TableauTypeOK
  /\ HeapLinked(ErasedRows, ErasedColumns)
  /\ ScanInv /\ CopyInv /\ PivotInv /\ FillInv /\ SizesInv

\* The types of the invariant, one by one.
LEMMA Typing ==
  ASSUME TableauTypeOK
  PROVE  /\ HeapType /\ NULL \notin Entry /\ live \in SUBSET Entry
         /\ op \in OpOK /\ op.source \in Variable /\ op.target \in Variable
         /\ op.matrix \in Matrix /\ op.index \in Variable /\ op.value \in Value
         /\ op.scale \in Value
         /\ cursor \in Link /\ dense \in [Variable -> Link] /\ pivoting \in PivotOK
         /\ pivoting.nonBasic \in Variable /\ pivoting.basic \in Variable
         /\ pivoting.cursor \in Link
         /\ NoOp \in OpOK /\ NoPivot \in PivotOK /\ NoDense \in [Variable -> Link]
         /\ NULL \in Link
BY Constants DEF TableauTypeOK, HeapType, OpOK, PivotOK, NoOp, NoPivot, NoDense, Link, Matrix

\* Two loops run under pivot only; the others leave its cursor alone.
LEMMA OtherLoops ==
  ASSUME PivotInv, op.kind \notin {"none", "addScaledRow"}, pivoting' = pivoting
  PROVE  PivotInv'
<1>1. pivoting.stage # "column"
  BY DEF PivotInv, ToClear
<1> QED BY <1>1 DEF PivotInv

\* The rows are not being written while a loop is under way.
LEMMA NotFilling ==
  ASSUME FillInv, op.kind # "none" \/ pivoting.stage # "none", filling' = filling
  PROVE  FillInv'
BY DEF FillInv, Idle, Returned

\* A loop that ends between two turns changes nothing else.
LEMMA ReturnKeeps ==
  ASSUME LinkedInv, op.kind \in {"addScaledRow", "addColumn"}, Return,
         UNCHANGED <<heap, pivoting, client>>
  PROVE  LinkedInv'
<1>1. /\ op' = NoOp /\ cursor' = NULL /\ dense' = NoDense /\ op'.kind = "none"
      /\ UNCHANGED <<live, cell, byRow, byColumn, pivoting, basicVariables, dropped, filling,
                     stored, operations>>
  BY DEF Return, NoOp, heap, client
<1>2. TableauTypeOK'
  BY <1>1, Typing DEF LinkedInv, TableauTypeOK
<1>3. ErasedRows' = ErasedRows /\ ErasedColumns' = ErasedColumns
  BY <1>1 DEF ErasedRows, ErasedColumns
<1>4. /\ RowKey' = RowKey /\ ColumnKey' = ColumnKey /\ CellsUnique' = CellsUnique
      /\ HeapType' = HeapType
  BY <1>1 DEF RowKey, ColumnKey, RowList, ColumnList, CellsUnique, HeapType
<1>5. HeapLinked(ErasedRows, ErasedColumns)'
  BY <1>1, <1>3, <1>4 DEF LinkedInv, HeapLinked
<1>6. SizesInv'
  BY <1>1, <1>3, <1>4 DEF LinkedInv, SizesInv, HeapCounted
<1>7. ScanInv' /\ CopyInv'
  BY <1>1 DEF ScanInv, CopyInv
<1>8. PivotInv'
  <2> SUFFICES ASSUME pivoting.stage = "column"
               PROVE  \E Q \in Left(byColumn, InColumn("tableau", pivoting.nonBasic),
                                    pivoting.cursor)' : ToClear(Q)'
    BY <1>1 DEF PivotInv
  <2>1. PICK Q \in Left(byColumn, InColumn("tableau", pivoting.nonBasic), pivoting.cursor) : TRUE
    BY DEF LinkedInv, PivotInv
  <2>2. Q \in Left(byColumn, InColumn("tableau", pivoting.nonBasic), pivoting.cursor)'
    BY <1>1, <2>1 DEF InColumn, ColumnList
  <2>3. ToClear(Q)'
    BY <1>1 DEF ToClear
  <2> QED BY <2>2, <2>3
<1>9. FillInv'
  BY <1>1, NotFilling DEF LinkedInv
<1> QED BY <1>2, <1>5, <1>6, <1>7, <1>8, <1>9 DEF LinkedInv

(***************************************************************************)
(* addScaledRow.                                                           *)
(***************************************************************************)
LEMMA AddScaledRowStepKeeps ==
  ASSUME LinkedInv, AddScaledRowStep, UNCHANGED <<pivoting, client>>
  PROVE  LinkedInv'
<1>1. CASE cursor = NULL
  <2>1. op.kind = "addScaledRow" /\ Return /\ UNCHANGED heap
    BY <1>1 DEF AddScaledRowStep
  <2> QED BY <2>1, ReturnKeeps
<1>2. CASE cursor # NULL
  <2>t. /\ op.kind = "addScaledRow" /\ op' = op
        /\ UNCHANGED <<pivoting, basicVariables, dropped, filling, stored, operations>>
    BY <1>2 DEF AddScaledRowStep, client
  <2>y. /\ HeapType /\ live \in SUBSET Entry /\ NULL \notin Entry
        /\ dense \in [Variable -> Link] /\ TableauTypeOK
        /\ op.source \in Variable /\ op.target \in Variable
    BY Typing DEF LinkedInv
  <2>h. /\ HeapLinked(ErasedRows, ErasedColumns) /\ HeapCounted(ErasedRows, ErasedColumns)
        /\ ErasedRows = {} /\ ErasedColumns = {} /\ ErasedRows' = {} /\ ErasedColumns' = {}
        /\ CellsUnique
    BY <2>t DEF LinkedInv, SizesInv, ErasedRows, ErasedColumns, HeapLinked
  <2>1. PICK Q \in Left(byRow, InRow("tableau", op.source), cursor) :
          \A e \in Q, d \in InRow("tableau", op.target) :
            cell[d].column = cell[e].column => dense[cell[e].column] = d
    BY <2>t DEF LinkedInv, ScanInv, RowScanned
  <2>2. /\ op.source # op.target
        /\ \A c \in Variable : dense[c] # NULL =>
             dense[c] \in InRow("tableau", op.target) /\ cell[dense[c]].column = c
    BY <2>t DEF LinkedInv, ScanInv, RowScanned
  <2>3. Q \subseteq live /\ Q \subseteq InRow("tableau", op.source) /\ Chain(byRow, Q, cursor)
    BY <2>1 DEF Left, InRow
  <2>4. PICK S \in SUBSET Q : S = Q \ {cursor}
    OBVIOUS
  <2>5. cursor \in Q /\ Chain(byRow, S, byRow.next[cursor])
    BY <1>2, <2>3, <2>4, <2>y, ChainTail
  <2>6. PICK column \in Variable : column = cell[cursor].column
    BY <2>3, <2>5, <2>y, CellFacts
  <2>7. PICK entry \in Link : entry = dense[column]
    BY <2>y
  <2>8. PICK sum \in Value :
          sum = IF column = op.index THEN op.value
                ELSE IF entry = NULL THEN Times(cell[cursor].value, op.scale)
                ELSE Plus(cell[entry].value, Times(cell[cursor].value, op.scale))
    <3>1. cell[cursor].value \in Value /\ op.scale \in Value /\ op.value \in Value
      BY <2>3, <2>5, <2>y, CellFacts, Typing
    <3>2. entry # NULL => cell[entry].value \in Value
      BY <2>7, <2>y, CellFacts DEF Link
    <3>3. Times(cell[cursor].value, op.scale) \in Value
      BY <3>1, Sums
    <3>4. entry # NULL => Plus(cell[entry].value, Times(cell[cursor].value, op.scale)) \in Value
      BY <3>2, <3>3, Sums
    <3> QED BY <3>1, <3>3, <3>4
  <2>9. /\ cursor' = byRow.next[cursor]
        /\ entry = NULL => AddEntry("tableau", op.target, column, sum) /\ dense' = dense
        /\ entry # NULL => /\ SetValue(entry, sum)
                           /\ dense' = IF sum = 0 THEN [dense EXCEPT ![column] = NULL] ELSE dense
    BY <1>2, <2>6, <2>7, <2>8 DEF AddScaledRowStep
  <2>10. cursor' \in Link
    BY <2>9, <2>3, <2>5, <2>y DEF HeapType, ListsOK
  <2>11. \A e \in S : cell[e].column # column
    <3>1. \A e \in S : e \in live /\ cursor \in live /\ RowList(e) = RowList(cursor) /\ e # cursor
      BY <2>3, <2>4, <2>5 DEF InRow
    <3>2. \A e \in S : cell[e].matrix = cell[cursor].matrix
      BY <3>1 DEF RowList
    <3>3. \A e \in S : ColumnList(e) # ColumnList(cursor)
      BY <3>1, <2>h DEF CellsUnique
    <3> QED BY <3>2, <3>3, <2>6 DEF ColumnList
  <2>12. SUFFICES /\ HeapLinked(ErasedRows, ErasedColumns)'
                  /\ HeapCounted(ErasedRows, ErasedColumns)'
                  /\ dense' \in [Variable -> Link]
                  /\ RowScanned' /\ PivotInv'
    <3> SUFFICES ASSUME /\ HeapLinked(ErasedRows, ErasedColumns)'
                        /\ HeapCounted(ErasedRows, ErasedColumns)'
                        /\ dense' \in [Variable -> Link]
                        /\ RowScanned' /\ PivotInv'
                 PROVE  LinkedInv'
      OBVIOUS
    <3>1. TableauTypeOK'
      BY <2>t, <2>y, <2>10 DEF TableauTypeOK, HeapLinked, HeapType
    <3>2. ScanInv' /\ CopyInv' /\ SizesInv'
      BY <2>t, <2>2 DEF ScanInv, CopyInv, SizesInv
    <3>3. FillInv'
      BY <2>t, NotFilling DEF LinkedInv
    <3> QED BY <3>1, <3>2, <3>3 DEF LinkedInv
  <2>13. ASSUME HeapType', \A e \in Q : e \in S => e \in live' /\ cell'[e] = cell[e],
                Chain(byRow', S, byRow.next[cursor]),
                \A c \in Variable : dense'[c] # NULL =>
                  /\ dense'[c] \in live' /\ cell'[dense'[c]].matrix = "tableau"
                  /\ cell'[dense'[c]].row = op.target /\ cell'[dense'[c]].column = c,
                \A e \in S, d \in live' :
                  RowList(d)' = <<"tableau", op.target>> /\ cell'[d].column = cell[e].column =>
                    dense'[cell[e].column] = d
         PROVE  RowScanned'
    <3>1. S \in Left(byRow, InRow("tableau", op.source), cursor)'
      BY <2>3, <2>4, <2>9, <2>t, <2>13 DEF Left, InRow, RowList
    <3>2. \A e \in S, d \in InRow("tableau", op.target)' :
            cell'[d].column = cell'[e].column => dense'[cell'[e].column] = d
      BY <2>4, <2>t, <2>13 DEF InRow
    <3>3. \A c \in Variable : dense'[c] # NULL =>
            dense'[c] \in InRow("tableau", op.target)' /\ cell'[dense'[c]].column = c
      BY <2>t, <2>13 DEF InRow, RowList
    <3> QED BY <3>1, <3>2, <3>3, <2>t DEF RowScanned
  <2>14. ASSUME pivoting.stage = "column"
         PROVE  \E P \in SUBSET live :
                  /\ P \in Left(byColumn, InColumn("tableau", pivoting.nonBasic), pivoting.cursor)
                  /\ \A e \in P : cell[e].row # op.target
    BY <2>t, <2>14 DEF LinkedInv, PivotInv, ToClear, Left, InColumn
  <2>15. ASSUME NEW P \in SUBSET live, pivoting.stage = "column",
                P \in Left(byColumn, InColumn("tableau", pivoting.nonBasic), pivoting.cursor),
                \A e \in P : cell[e].row # op.target,
                \A e \in P : e \in live' /\ cell'[e] = cell[e],
                Chain(byColumn', P, pivoting.cursor)
         PROVE  PivotInv'
    <3>1. P \in Left(byColumn, InColumn("tableau", pivoting.nonBasic), pivoting.cursor)'
      BY <2>15, <2>t DEF Left, InColumn, ColumnList
    <3>2. ToClear(P)'
      <4>1. PICK R \in Left(byColumn, InColumn("tableau", pivoting.nonBasic), pivoting.cursor) :
              ToClear(R)
        BY <2>15 DEF LinkedInv, PivotInv
      <4> QED BY <4>1, <2>15, <2>t DEF ToClear
    <3> QED BY <3>1, <3>2 DEF PivotInv
  <2>16. CASE entry = NULL /\ sum = 0
    <3>1. UNCHANGED <<live, cell, byRow, byColumn, dense>>
      BY <2>9, <2>16 DEF AddEntry, heap
    <3>2. HeapLinked(ErasedRows, ErasedColumns)' /\ HeapCounted(ErasedRows, ErasedColumns)'
      <4>1. /\ RowKey' = RowKey /\ ColumnKey' = ColumnKey /\ CellsUnique' = CellsUnique
            /\ HeapType' = HeapType
        BY <3>1 DEF RowKey, ColumnKey, RowList, ColumnList, CellsUnique, HeapType
      <4> QED BY <2>h, <3>1, <4>1 DEF HeapLinked, HeapCounted
    <3>3. RowScanned'
      <4>1. HeapType' /\ \A d \in live : RowList(d)' = RowList(d)
        BY <2>y, <3>1 DEF HeapType, RowList
      <4>2. \A c \in Variable : dense'[c] # NULL =>
              /\ dense'[c] \in live' /\ cell'[dense'[c]].matrix = "tableau"
              /\ cell'[dense'[c]].row = op.target /\ cell'[dense'[c]].column = c
        BY <2>2, <3>1 DEF InRow, RowList
      <4>3. \A e \in S, d \in live' :
              RowList(d)' = <<"tableau", op.target>> /\ cell'[d].column = cell[e].column =>
                dense'[cell[e].column] = d
        BY <2>1, <2>4, <3>1, <4>1 DEF InRow
      <4>4. Chain(byRow', S, byRow.next[cursor]) /\ \A e \in S : e \in live' /\ cell'[e] = cell[e]
        BY <2>3, <2>4, <2>5, <3>1
      <4> QED BY <2>13, <4>1, <4>2, <4>3, <4>4
    <3>4. PivotInv'
      <4>1. CASE pivoting.stage = "column"
        BY <2>14, <2>15, <3>1, <4>1 DEF Left
      <4>2. CASE pivoting.stage # "column"
        BY <2>t, <4>2 DEF PivotInv
      <4> QED BY <4>1, <4>2
    <3> QED BY <2>12, <2>y, <3>1, <3>2, <3>3, <3>4
  <2>17. CASE entry = NULL /\ sum # 0
    <3>1. \A d \in live : ~(RowList(d) = <<"tableau", op.target>> /\ ColumnList(d) = <<"tableau", column>>)
      <4>1. ASSUME NEW d \in live, RowList(d) = <<"tableau", op.target>>,
                   ColumnList(d) = <<"tableau", column>>
            PROVE  FALSE
        <5>1. d \in InRow("tableau", op.target) /\ cell[d].column = column
          BY <4>1 DEF InRow, ColumnList
        <5>2. dense[column] = d
          BY <2>1, <2>5, <2>6, <5>1
        <5> QED BY <2>7, <2>17, <2>y, <5>2
      <4> QED BY <4>1
    <3>2. AddEntry("tableau", op.target, column, sum) /\ dense' = dense
      BY <2>9, <2>17
    <3>3. /\ HeapLinked({}, {})' /\ HeapCounted({}, {})'
          /\ Inserted("tableau", op.target, column, sum)
      <4>1. "tableau" \in Matrix /\ sum \in Value \ {0}
        BY <2>17 DEF Matrix
      <4>2. PICK none : none = {} /\ HeapLinked(none, none) /\ HeapCounted(none, none)
        BY <2>h
      <4>3. PICK target \in Variable : target = op.target
        BY <2>y
      <4>4. /\ \A d \in live : ~(RowList(d) = <<"tableau", target>> /\ ColumnList(d) = <<"tableau", column>>)
            /\ AddEntry("tableau", target, column, sum)
        BY <3>1, <3>2, <4>3
      <4>5. <<"tableau", target>> \notin none /\ <<"tableau", column>> \notin none
        BY <4>2
      <4>6. /\ HeapLinked(none, none)' /\ HeapCounted(none, none)'
            /\ Inserted("tableau", target, column, sum)
        BY <4>1, <4>2, <4>4, <4>5, AddEntryLinks
      <4> QED BY <4>2, <4>3, <4>6
    <3>4. PICK new \in Entry \ live :
            /\ live' = live \union {new}
            /\ cell' = [cell EXCEPT ![new] = [matrix |-> "tableau", row |-> op.target,
                                             column |-> column, value |-> sum]]
      BY <3>3 DEF Inserted
    <3>5. /\ new \notin live /\ live' = live \union {new}
          /\ \A e \in live : cell'[e] = cell[e]
          /\ cell'[new].column = column
          /\ Chain(byRow', S, byRow.next[cursor])
      BY <2>3, <2>5, <2>y, <3>3, <3>4 DEF Inserted, HeapType
    <3>6. HeapType'
      BY <3>3 DEF HeapLinked
    <3>7. RowScanned'
      <4>1. \A d \in live : RowList(d)' = RowList(d)
        BY <3>5 DEF RowList
      <4>2. \A c \in Variable : dense[c] # NULL => dense[c] \in live
        BY <2>2 DEF InRow
      <4>3. \A e \in S, d \in live' :
              RowList(d)' = <<"tableau", op.target>> /\ cell'[d].column = cell[e].column =>
                dense'[cell[e].column] = d
        <5>1. ASSUME NEW e \in S, NEW d \in live', RowList(d)' = <<"tableau", op.target>>,
                     cell'[d].column = cell[e].column
              PROVE  dense[cell[e].column] = d
          <6>1. d # new
            BY <2>11, <3>5, <5>1
          <6>2. d \in live /\ RowList(d) = <<"tableau", op.target>> /\ cell[d].column = cell[e].column
            BY <3>5, <4>1, <5>1, <6>1
          <6> QED BY <2>1, <2>4, <6>2 DEF InRow
        <5> QED BY <3>2, <5>1
      <4>4. \A c \in Variable : dense'[c] # NULL =>
              /\ dense'[c] \in live' /\ cell'[dense'[c]].matrix = "tableau"
              /\ cell'[dense'[c]].row = op.target /\ cell'[dense'[c]].column = c
        BY <2>2, <3>2, <3>5, <4>2 DEF InRow, RowList
      <4>5. \A e \in S : e \in live' /\ cell'[e] = cell[e]
        BY <2>3, <2>4, <3>5
      <4> QED BY <2>13, <3>5, <3>6, <4>3, <4>4, <4>5
    <3>8. PivotInv'
      <4>1. CASE pivoting.stage = "column"
        <5>1. PICK P \in SUBSET live :
                /\ P \in Left(byColumn, InColumn("tableau", pivoting.nonBasic), pivoting.cursor)
                /\ \A e \in P : cell[e].row # op.target
          BY <2>14, <4>1
        <5>2. Chain(byColumn', P, pivoting.cursor)
          BY <3>3, <5>1 DEF Inserted, Left
        <5> QED BY <2>15, <3>5, <4>1, <5>1, <5>2
      <4>2. CASE pivoting.stage # "column"
        BY <2>t, <4>2 DEF PivotInv
      <4> QED BY <4>1, <4>2
    <3> QED BY <2>h, <2>12, <2>y, <3>2, <3>3, <3>7, <3>8
  <2>18. CASE entry # NULL
    <3>1. /\ entry \in live /\ RowList(entry) = <<"tableau", op.target>> /\ cell[entry].column = column
          /\ SetValue(entry, sum)
          /\ dense' = IF sum = 0 THEN [dense EXCEPT ![column] = NULL] ELSE dense
      BY <2>2, <2>7, <2>9, <2>18 DEF InRow
    <3>2. /\ HeapLinked({}, {})' /\ HeapCounted({}, {})' /\ Assigned(entry, sum)
      BY <2>h, <3>1, SetValueLinks
    <3>3. /\ live' = IF sum = 0 THEN live \ {entry} ELSE live
          /\ \A e \in Entry : e # entry => cell'[e] = cell[e]
          /\ \A e \in Entry : cell'[e].column = cell[e].column /\ RowList(e)' = RowList(e)
          /\ cell[entry].row = op.target
      BY <2>y, <3>1, <3>2 DEF Assigned, HeapType, CellOK, RowList
    <3>4. entry \notin S
      BY <2>2, <2>3, <2>4, <3>1 DEF InRow
    <3>5. Chain(byRow', S, byRow.next[cursor])
      BY <2>3, <2>5, <3>2, <3>4 DEF Assigned
    <3>6. HeapType' /\ dense' \in [Variable -> Link]
      BY <2>y, <3>1, <3>2 DEF HeapLinked, Link
    <3>7. RowScanned'
      <4>1. \A e \in S : e \in live' /\ cell'[e] = cell[e]
        BY <2>3, <2>y, <3>3, <3>4
      <4>2. ASSUME NEW c \in Variable, dense'[c] # NULL
            PROVE  /\ dense'[c] \in live' /\ cell'[dense'[c]].matrix = "tableau"
                   /\ cell'[dense'[c]].row = op.target /\ cell'[dense'[c]].column = c
        <5>1. dense'[c] = dense[c] /\ (c = column => sum # 0)
          BY <2>y, <3>1, <4>2
        <5>2. PICK d \in live : /\ d = dense[c] /\ RowList(d) = <<"tableau", op.target>>
                                /\ cell[d].column = c
          BY <2>2, <4>2, <5>1 DEF InRow
        <5>3. d \in live'
          BY <3>1, <3>3, <5>1, <5>2
        <5>4. cell'[d].column = c /\ RowList(d)' = <<"tableau", op.target>>
          BY <2>y, <3>3, <5>2
        <5> QED BY <5>1, <5>2, <5>3, <5>4 DEF RowList
      <4>3. \A e \in S, d \in live' :
              RowList(d)' = <<"tableau", op.target>> /\ cell'[d].column = cell[e].column =>
                dense'[cell[e].column] = d
        <5>1. ASSUME NEW e \in S, NEW d \in live', RowList(d)' = <<"tableau", op.target>>,
                     cell'[d].column = cell[e].column
              PROVE  dense'[cell[e].column] = d
          <6>1. d \in live /\ RowList(d) = <<"tableau", op.target>> /\ cell[d].column = cell[e].column
            BY <2>y, <3>3, <5>1
          <6>2. dense[cell[e].column] = d
            BY <2>1, <2>4, <6>1 DEF InRow
          <6>3. cell[e].column \in Variable /\ cell[e].column # column
            BY <2>3, <2>11, <2>y, CellFacts
          <6> QED BY <2>y, <3>1, <6>2, <6>3
        <5> QED BY <5>1
      <4> QED BY <2>13, <3>5, <3>6, <4>1, <4>2, <4>3
    <3>8. PivotInv'
      <4>1. CASE pivoting.stage = "column"
        <5>1. PICK P \in SUBSET live :
                /\ P \in Left(byColumn, InColumn("tableau", pivoting.nonBasic), pivoting.cursor)
                /\ \A e \in P : cell[e].row # op.target
          BY <2>14, <4>1
        <5>2. entry \notin P
          BY <3>3, <5>1
        <5>3. Chain(byColumn', P, pivoting.cursor)
          BY <3>2, <5>1, <5>2 DEF Assigned, Left
        <5>4. \A e \in P : e \in live' /\ cell'[e] = cell[e]
          BY <2>y, <3>3, <5>2
        <5> QED BY <2>15, <4>1, <5>1, <5>3, <5>4
      <4>2. CASE pivoting.stage # "column"
        BY <2>t, <4>2 DEF PivotInv
      <4> QED BY <4>1, <4>2
    <3> QED BY <2>h, <2>12, <3>2, <3>6, <3>7, <3>8
  <2> QED BY <2>16, <2>17, <2>18
<1> QED BY <1>1, <1>2

(***************************************************************************)
(* eraseRow and eraseColumn: a list is freed entry by entry, its head last.*)
(***************************************************************************)
\* The links alone decide where the lists that keep their head are linked.
LEMMA SameLinks ==
  ASSUME NEW lists, NEW new, NEW S, NEW T, NEW key, NEW X, NEW Y,
         Linked(lists, S, key, X),
         new.next = lists.next, new.prev = lists.prev,
         \A l \in (Matrix \X Variable) \ Y :
           \/ new.head[l] = NULL /\ ListOf(T, key, l) = {}
           \/ /\ l \notin X /\ new.head[l] = lists.head[l]
              /\ ListOf(T, key, l) = ListOf(S, key, l)
  PROVE  Linked(new, T, key, Y)
<1> SUFFICES ASSUME NEW l \in (Matrix \X Variable) \ Y
             PROVE  List(new, ListOf(T, key, l), l)
  BY DEF Linked
<1>1. CASE new.head[l] = NULL /\ ListOf(T, key, l) = {}
  BY <1>1 DEF List, Chain
<1>2. CASE /\ l \notin X /\ new.head[l] = lists.head[l]
           /\ ListOf(T, key, l) = ListOf(S, key, l)
  <2>1. List(lists, ListOf(T, key, l), l)
    BY <1>2 DEF Linked
  <2> QED BY <1>2, <2>1 DEF List, Chain
<1> QED BY <1>1, <1>2

\* The list of an empty chain may lose its head.
LEMMA ResetFamily ==
  ASSUME NEW lists \in ListsOK, NEW S, NEW key, NEW l \in Matrix \X Variable,
         Linked(lists, S, key, {l}), Counted(lists, S, key, {l}), ListOf(S, key, l) = {}
  PROVE  /\ Reset(lists, {l}) \in ListsOK
         /\ Linked(Reset(lists, {l}), S, key, {})
         /\ Counted(Reset(lists, {l}), S, key, {})
<1>1. Reset(lists, {l}) \in ListsOK
  BY DEF Reset, ListsOK, Link
<1>2. Linked(Reset(lists, {l}), S, key, {})
  <2>1. \A k \in Matrix \X Variable :
          Reset(lists, {l}).head[k] = IF k = l THEN NULL ELSE lists.head[k]
    BY DEF Reset
  <2>2. Reset(lists, {l}).next = lists.next /\ Reset(lists, {l}).prev = lists.prev
    BY DEF Reset
  <2>3. \A k \in (Matrix \X Variable) \ {} :
           \/ Reset(lists, {l}).head[k] = NULL /\ ListOf(S, key, k) = {}
           \/ /\ k \notin {l} /\ Reset(lists, {l}).head[k] = lists.head[k]
              /\ ListOf(S, key, k) = ListOf(S, key, k)
    BY <2>1
  <2> HIDE DEF Reset
  <2> QED BY <2>2, <2>3, SameLinks
<1>3. Counted(Reset(lists, {l}), S, key, {})
  <2>1. Cardinality({}) = 0
    BY FS_EmptySet
  <2>2. \A k \in Matrix \X Variable :
          Reset(lists, {l}).size[k] = IF k = l THEN 0 ELSE lists.size[k]
    BY DEF Reset
  <2> QED BY <2>1, <2>2 DEF Counted
<1> QED BY <1>1, <1>2, <1>3

\* eraseRow: an entry leaves its column, and its row is one shorter to free.
LEMMA EraseRowStepKeeps ==
  ASSUME LinkedInv, EraseRowStep, UNCHANGED <<pivoting, client>>
  PROVE  LinkedInv'
<1>t. /\ op.kind = "eraseRow"
      /\ UNCHANGED <<cell, pivoting, basicVariables, dropped, filling, stored, operations>>
  BY DEF EraseRowStep, client
<1>y. /\ HeapType /\ live \in SUBSET Entry /\ NULL \notin Entry /\ IsFiniteSet(live)
      /\ TableauTypeOK /\ op.source \in Variable /\ byRow \in ListsOK /\ byColumn \in ListsOK
      /\ cell \in [Entry -> CellOK] /\ cursor \in Link
  BY Typing DEF LinkedInv, HeapType, HeapLinked
<1>s. PICK source \in Variable : source = op.source
  BY <1>y
<1>h. /\ Linked(byRow, live, RowKey, {<<"tableau", source>>})
      /\ Counted(byRow, live, RowKey, {<<"tableau", source>>})
      /\ Linked(byColumn, live, ColumnKey, {}) /\ Counted(byColumn, live, ColumnKey, {})
      /\ CellsUnique /\ ErasedRows = {<<"tableau", source>>} /\ ErasedColumns = {}
  BY <1>t, <1>s DEF LinkedInv, SizesInv, ErasedRows, ErasedColumns, HeapLinked, HeapCounted
<1>k. RowKey' = RowKey /\ ColumnKey' = ColumnKey /\ \A d \in Entry : RowList(d)' = RowList(d)
                                              /\ ColumnList(d)' = ColumnList(d)
  BY <1>t DEF RowKey, ColumnKey, RowList, ColumnList
<1>p. PivotInv' /\ FillInv'
  <2>1. op.kind \notin {"none", "addScaledRow"} /\ op.kind # "none"
    BY <1>t
  <2> QED BY <1>t, <2>1, OtherLoops, NotFilling DEF LinkedInv
<1>l. /\ <<"tableau", source>> \in Matrix \X Variable
      /\ InRow("tableau", source) = ListOf(live, RowKey, <<"tableau", source>>)
      /\ Chain(byRow, ListOf(live, RowKey, <<"tableau", source>>), cursor)
  <2>1. "tableau" \in Matrix
    BY DEF Matrix
  <2>2. InRow("tableau", source) = ListOf(live, RowKey, <<"tableau", source>>)
    BY <1>y, <2>1, Keys
  <2> QED BY <1>s, <1>t, <2>1, <2>2 DEF LinkedInv, ScanInv
<1>1. CASE cursor = NULL
  <2>1. /\ byRow' = Reset(byRow, {<<"tableau", source>>})
        /\ op' = NoOp /\ cursor' = NULL /\ dense' = NoDense /\ op'.kind = "none"
        /\ UNCHANGED <<live, byColumn>>
    BY <1>1, <1>s DEF EraseRowStep, Return, NoOp
  <2>2. ListOf(live, RowKey, <<"tableau", source>>) = {}
    BY <1>1, <1>l, <1>y DEF Chain, ListOf
  <2>3. /\ byRow' \in ListsOK /\ Linked(byRow', live, RowKey, {})
        /\ Counted(byRow', live, RowKey, {})
    BY <1>h, <1>l, <1>y, <2>1, <2>2, ResetFamily
  <2>4. ErasedRows' = {} /\ ErasedColumns' = {}
    BY <2>1 DEF ErasedRows, ErasedColumns
  <2>5. CellsUnique'
    BY <1>h, <1>y, <1>k, <2>1 DEF CellsUnique
  <2>6. HeapType'
    BY <1>y, <1>t, <2>1, <2>3 DEF HeapType
  <2>7. HeapLinked(ErasedRows, ErasedColumns)' /\ SizesInv'
    BY <1>h, <1>k, <1>y, <2>1, <2>3, <2>4, <2>5, <2>6 DEF HeapLinked, SizesInv, HeapCounted
  <2>8. TableauTypeOK'
    BY <1>t, <1>y, <2>1, <2>6, Typing DEF TableauTypeOK, HeapType
  <2>9. ScanInv' /\ CopyInv'
    BY <2>1 DEF ScanInv, CopyInv
  <2> QED BY <1>p, <2>7, <2>8, <2>9 DEF LinkedInv
<1>2. CASE cursor # NULL
  <2>1. /\ byColumn' = Unlink(byColumn, ColumnList(cursor), cursor)
        /\ live' = live \ {cursor}
        /\ cursor' = byRow.next[cursor]
        /\ UNCHANGED <<byRow, op, dense>>
    BY <1>2 DEF EraseRowStep
  <2>2. /\ cursor \in ListOf(live, RowKey, <<"tableau", source>>)
        /\ Chain(byRow, ListOf(live, RowKey, <<"tableau", source>>) \ {cursor}, byRow.next[cursor])
    <3>1. NULL \notin ListOf(live, RowKey, <<"tableau", source>>)
      BY <1>y DEF ListOf
    <3> QED BY <1>2, <1>l, <3>1, ChainTail
  <2>3. PICK e \in live : e = cursor /\ RowKey[e] = <<"tableau", source>>
    BY <2>2 DEF ListOf
  <2>4. ColumnKey[e] = ColumnList(e) /\ ColumnList(e) \in (Matrix \X Variable) \ {}
    BY <1>y, CellFacts
  <2>5. /\ byColumn' \in ListsOK
        /\ Linked(byColumn', live', ColumnKey, {})
        /\ Counted(byColumn', live', ColumnKey, {})
    BY <1>h, <1>y, <2>1, <2>3, <2>4, UnlinkFamily
  <2>6. /\ Linked(byRow, live', RowKey, {<<"tableau", source>>})
        /\ Counted(byRow, live', RowKey, {<<"tableau", source>>})
    BY <1>h, <2>1, <2>3, FreedFamily
  <2>7. IsFiniteSet(live')
    BY <1>y, <2>1, FS_RemoveElement
  <2>8. HeapType'
    BY <1>y, <1>t, <2>1, <2>5 DEF HeapType
  <2>9. ErasedRows' = {<<"tableau", source>>} /\ ErasedColumns' = {}
    BY <1>h, <2>1 DEF ErasedRows, ErasedColumns
  <2>10. CellsUnique'
    BY <1>h, <1>y, <1>k, <2>1 DEF CellsUnique
  <2>11. HeapLinked(ErasedRows, ErasedColumns)' /\ SizesInv'
    BY <1>k, <2>1, <2>5, <2>6, <2>7, <2>8, <2>9, <2>10 DEF HeapLinked, SizesInv, HeapCounted
  <2>12. cursor' \in Link
    BY <1>y, <2>1, <2>3 DEF ListsOK
  <2>13. TableauTypeOK'
    BY <1>t, <1>y, <2>1, <2>8, <2>12 DEF TableauTypeOK, HeapType
  <2>14. InRow("tableau", op.source)' = ListOf(live, RowKey, <<"tableau", source>>) \ {cursor}
    BY <1>k, <1>l, <1>s, <1>y, <2>1 DEF InRow
  <2>15. ScanInv' /\ CopyInv'
    BY <1>t, <2>1, <2>2, <2>14 DEF ScanInv, CopyInv
  <2> QED BY <1>p, <2>11, <2>13, <2>15 DEF LinkedInv
<1> QED BY <1>1, <1>2

\* eraseColumn: the same of a column.
LEMMA EraseColumnStepKeeps ==
  ASSUME LinkedInv, EraseColumnStep, UNCHANGED <<pivoting, client>>
  PROVE  LinkedInv'
<1>t. /\ op.kind = "eraseColumn"
      /\ UNCHANGED <<cell, pivoting, basicVariables, dropped, filling, stored, operations>>
  BY DEF EraseColumnStep, client
<1>y. /\ HeapType /\ live \in SUBSET Entry /\ NULL \notin Entry /\ IsFiniteSet(live)
      /\ TableauTypeOK /\ op.source \in Variable /\ byColumn \in ListsOK /\ byRow \in ListsOK
      /\ cell \in [Entry -> CellOK] /\ cursor \in Link
  BY Typing DEF LinkedInv, HeapType, HeapLinked
<1>s. PICK source \in Variable : source = op.source
  BY <1>y
<1>h. /\ Linked(byColumn, live, ColumnKey, {<<"tableau", source>>})
      /\ Counted(byColumn, live, ColumnKey, {<<"tableau", source>>})
      /\ Linked(byRow, live, RowKey, {}) /\ Counted(byRow, live, RowKey, {})
      /\ CellsUnique /\ ErasedColumns = {<<"tableau", source>>} /\ ErasedRows = {}
  BY <1>t, <1>s DEF LinkedInv, SizesInv, ErasedColumns, ErasedRows, HeapLinked, HeapCounted
<1>k. ColumnKey' = ColumnKey /\ RowKey' = RowKey /\ \A d \in Entry : ColumnList(d)' = ColumnList(d)
                                              /\ RowList(d)' = RowList(d)
  BY <1>t DEF ColumnKey, RowKey, ColumnList, RowList
<1>p. PivotInv' /\ FillInv'
  <2>1. op.kind \notin {"none", "addScaledRow"} /\ op.kind # "none"
    BY <1>t
  <2> QED BY <1>t, <2>1, OtherLoops, NotFilling DEF LinkedInv
<1>l. /\ <<"tableau", source>> \in Matrix \X Variable
      /\ InColumn("tableau", source) = ListOf(live, ColumnKey, <<"tableau", source>>)
      /\ Chain(byColumn, ListOf(live, ColumnKey, <<"tableau", source>>), cursor)
  <2>1. "tableau" \in Matrix
    BY DEF Matrix
  <2>2. InColumn("tableau", source) = ListOf(live, ColumnKey, <<"tableau", source>>)
    BY <1>y, <2>1, Keys
  <2> QED BY <1>s, <1>t, <2>1, <2>2 DEF LinkedInv, ScanInv
<1>1. CASE cursor = NULL
  <2>1. /\ byColumn' = Reset(byColumn, {<<"tableau", source>>})
        /\ op' = NoOp /\ cursor' = NULL /\ dense' = NoDense /\ op'.kind = "none"
        /\ UNCHANGED <<live, byRow>>
    BY <1>1, <1>s DEF EraseColumnStep, Return, NoOp
  <2>2. ListOf(live, ColumnKey, <<"tableau", source>>) = {}
    BY <1>1, <1>l, <1>y DEF Chain, ListOf
  <2>3. /\ byColumn' \in ListsOK /\ Linked(byColumn', live, ColumnKey, {})
        /\ Counted(byColumn', live, ColumnKey, {})
    BY <1>h, <1>l, <1>y, <2>1, <2>2, ResetFamily
  <2>4. ErasedColumns' = {} /\ ErasedRows' = {}
    BY <2>1 DEF ErasedColumns, ErasedRows
  <2>5. CellsUnique'
    BY <1>h, <1>y, <1>k, <2>1 DEF CellsUnique
  <2>6. HeapType'
    BY <1>y, <1>t, <2>1, <2>3 DEF HeapType
  <2>7. HeapLinked(ErasedRows, ErasedColumns)' /\ SizesInv'
    BY <1>h, <1>k, <1>y, <2>1, <2>3, <2>4, <2>5, <2>6 DEF HeapLinked, SizesInv, HeapCounted
  <2>8. TableauTypeOK'
    BY <1>t, <1>y, <2>1, <2>6, Typing DEF TableauTypeOK, HeapType
  <2>9. ScanInv' /\ CopyInv'
    BY <2>1 DEF ScanInv, CopyInv
  <2> QED BY <1>p, <2>7, <2>8, <2>9 DEF LinkedInv
<1>2. CASE cursor # NULL
  <2>1. /\ byRow' = Unlink(byRow, RowList(cursor), cursor)
        /\ live' = live \ {cursor}
        /\ cursor' = byColumn.next[cursor]
        /\ UNCHANGED <<byColumn, op, dense>>
    BY <1>2 DEF EraseColumnStep
  <2>2. /\ cursor \in ListOf(live, ColumnKey, <<"tableau", source>>)
        /\ Chain(byColumn, ListOf(live, ColumnKey, <<"tableau", source>>) \ {cursor}, byColumn.next[cursor])
    <3>1. NULL \notin ListOf(live, ColumnKey, <<"tableau", source>>)
      BY <1>y DEF ListOf
    <3> QED BY <1>2, <1>l, <3>1, ChainTail
  <2>3. PICK e \in live : e = cursor /\ ColumnKey[e] = <<"tableau", source>>
    BY <2>2 DEF ListOf
  <2>4. RowKey[e] = RowList(e) /\ RowList(e) \in (Matrix \X Variable) \ {}
    BY <1>y, CellFacts
  <2>5. /\ byRow' \in ListsOK
        /\ Linked(byRow', live', RowKey, {})
        /\ Counted(byRow', live', RowKey, {})
    BY <1>h, <1>y, <2>1, <2>3, <2>4, UnlinkFamily
  <2>6. /\ Linked(byColumn, live', ColumnKey, {<<"tableau", source>>})
        /\ Counted(byColumn, live', ColumnKey, {<<"tableau", source>>})
    BY <1>h, <2>1, <2>3, FreedFamily
  <2>7. IsFiniteSet(live')
    BY <1>y, <2>1, FS_RemoveElement
  <2>8. HeapType'
    BY <1>y, <1>t, <2>1, <2>5 DEF HeapType
  <2>9. ErasedColumns' = {<<"tableau", source>>} /\ ErasedRows' = {}
    BY <1>h, <2>1 DEF ErasedColumns, ErasedRows
  <2>10. CellsUnique'
    BY <1>h, <1>y, <1>k, <2>1 DEF CellsUnique
  <2>11. HeapLinked(ErasedRows, ErasedColumns)' /\ SizesInv'
    BY <1>k, <2>1, <2>5, <2>6, <2>7, <2>8, <2>9, <2>10 DEF HeapLinked, SizesInv, HeapCounted
  <2>12. cursor' \in Link
    BY <1>y, <2>1, <2>3 DEF ListsOK
  <2>13. TableauTypeOK'
    BY <1>t, <1>y, <2>1, <2>8, <2>12 DEF TableauTypeOK, HeapType
  <2>14. InColumn("tableau", op.source)' = ListOf(live, ColumnKey, <<"tableau", source>>) \ {cursor}
    BY <1>k, <1>l, <1>s, <1>y, <2>1 DEF InColumn
  <2>15. ScanInv' /\ CopyInv'
    BY <1>t, <2>1, <2>2, <2>14 DEF ScanInv, CopyInv
  <2> QED BY <1>p, <2>11, <2>13, <2>15 DEF LinkedInv
<1> QED BY <1>1, <1>2

\* The first turn finds the whole list before it.
LEMMA EraseColumnBegins ==
  ASSUME LinkedInv, op.kind \notin {"eraseRow", "eraseColumn", "copy"},
         NEW c \in Variable, EraseColumn(c),
         UNCHANGED basicVariables, dropped' \in [Matrix -> SUBSET Variable],
         UNCHANGED <<pivoting, filling, stored>>, operations' \in 0 .. MaxOperations
  PROVE  /\ TableauTypeOK' /\ HeapLinked(ErasedRows, ErasedColumns)'
         /\ ScanInv' /\ CopyInv' /\ SizesInv'
<1>1. /\ op' = [NoOp EXCEPT !.kind = "eraseColumn", !.source = c]
      /\ cursor' = byColumn.head[<<"tableau", c>>]
      /\ UNCHANGED <<live, cell, byRow, byColumn, dense>>
  BY DEF EraseColumn, heap
<1>2. op' \in OpOK /\ op'.kind = "eraseColumn" /\ op'.source = c
  BY <1>1, Typing DEF LinkedInv, OpOK, NoOp
<1>y. /\ HeapType /\ byColumn \in ListsOK /\ "tableau" \in Matrix
      /\ <<"tableau", c>> \in Matrix \X Variable
  BY Typing DEF LinkedInv, HeapType, Matrix
<1>3. cursor' \in Link
  BY <1>1, <1>y DEF ListsOK
<1>4. TableauTypeOK'
  BY <1>1, <1>2, <1>3, Typing DEF LinkedInv, TableauTypeOK
<1>k. /\ RowKey' = RowKey /\ ColumnKey' = ColumnKey /\ CellsUnique' = CellsUnique
      /\ HeapType' = HeapType
  BY <1>1 DEF RowKey, ColumnKey, RowList, ColumnList, CellsUnique, HeapType
<1>h. /\ Linked(byRow, live, RowKey, {}) /\ Counted(byRow, live, RowKey, {})
      /\ Linked(byColumn, live, ColumnKey, {}) /\ Counted(byColumn, live, ColumnKey, {})
      /\ CellsUnique /\ IsFiniteSet(live)
  BY DEF LinkedInv, SizesInv, ErasedRows, ErasedColumns, HeapLinked, HeapCounted
<1>5. ErasedRows' = {} /\ ErasedColumns' = {<<"tableau", c>>}
  BY <1>2 DEF ErasedRows, ErasedColumns
<1>6. /\ Linked(byColumn, live, ColumnKey, {<<"tableau", c>>})
      /\ Counted(byColumn, live, ColumnKey, {<<"tableau", c>>})
  BY <1>h DEF Linked, Counted
<1>7. HeapLinked(ErasedRows, ErasedColumns)' /\ SizesInv'
  BY <1>1, <1>5, <1>6, <1>h, <1>k, <1>y DEF HeapLinked, SizesInv, HeapCounted
<1>8. Chain(byColumn, InColumn("tableau", c), cursor')
  <2>1. InColumn("tableau", c) = ListOf(live, ColumnKey, <<"tableau", c>>)
    BY <1>y, Keys
  <2>2. List(byColumn, InColumn("tableau", c), <<"tableau", c>>)
    BY <1>h, <1>y, <2>1 DEF Linked
  <2> QED BY <1>1, <2>2 DEF List
<1>9. ScanInv' /\ CopyInv'
  <2>1. InColumn("tableau", c)' = InColumn("tableau", c)
    BY <1>1 DEF InColumn, ColumnList
  <2> QED BY <1>1, <1>2, <1>8, <2>1 DEF ScanInv, CopyInv
<1> QED BY <1>4, <1>7, <1>9

(***************************************************************************)
(* addColumn: an entry without a partner changes its list while the loop   *)
(* stands on it.                                                           *)
(***************************************************************************)
LEMMA StealLinks ==
  ASSUME NEW none, none = {}, HeapLinked(none, none), HeapCounted(none, none),
         NEW source \in Variable, NEW target \in Variable, source # target,
         NEW e \in live, ColumnList(e) = <<"tableau", source>>,
         \A d \in live : ~(RowList(d) = RowList(e) /\ ColumnList(d) = <<"tableau", target>>),
         byColumn' = PushFront(Unlink(byColumn, <<"tableau", source>>, e),
                               <<"tableau", target>>, e),
         cell' = [cell EXCEPT ![e] = [cell[e] EXCEPT !.column = target]],
         UNCHANGED <<live, byRow>>
  PROVE  /\ HeapLinked(none, none)' /\ HeapCounted(none, none)'
         /\ \A Q \in SUBSET live : \A first : e \notin Q /\ Chain(byColumn, Q, first) =>
              Chain(byColumn', Q, first)
<1>t. /\ live \in SUBSET Entry /\ cell \in [Entry -> CellOK] /\ IsFiniteSet(live)
      /\ byRow \in ListsOK /\ byColumn \in ListsOK /\ NULL \notin Entry
      /\ Linked(byRow, live, RowKey, none) /\ Linked(byColumn, live, ColumnKey, none)
      /\ Counted(byRow, live, RowKey, none) /\ Counted(byColumn, live, ColumnKey, none)
      /\ e \in Entry /\ HeapType
  BY Constants DEF HeapLinked, HeapType, HeapCounted
<1>1. /\ cell' \in [Entry -> CellOK]
      /\ \A d \in Entry : d # e => cell'[d] = cell[d]
      /\ cell'[e].matrix = cell[e].matrix /\ cell'[e].row = cell[e].row
      /\ cell'[e].column = target
  BY <1>t DEF CellOK
<1>2. /\ cell[e].matrix = "tableau" /\ ColumnKey[e] = <<"tableau", source>>
      /\ <<"tableau", source>> \in (Matrix \X Variable) \ none
      /\ <<"tableau", target>> \in (Matrix \X Variable) \ none
  BY <1>t, CellFacts DEF ColumnList, Matrix
<1>3. /\ RowKey' = RowKey /\ ColumnKey'[e] = <<"tableau", target>>
      /\ \A d \in live \ {e} : ColumnKey'[d] = ColumnKey[d]
  BY <1>t, <1>1, <1>2 DEF RowKey, ColumnKey, RowList, ColumnList
<1> DEFINE mid == Unlink(byColumn, <<"tableau", source>>, e)
<1>4. /\ mid \in ListsOK /\ Linked(mid, live \ {e}, ColumnKey, none)
      /\ Counted(mid, live \ {e}, ColumnKey, none)
  BY <1>t, <1>2, UnlinkFamily
<1>5. byColumn' = PushFront(mid, <<"tableau", target>>, e)
  OBVIOUS
<1> HIDE DEF mid
<1>6. IsFiniteSet(live \ {e}) /\ live \ {e} \in SUBSET Entry /\ e \in Entry \ (live \ {e})
  BY <1>t, FS_RemoveElement
<1>7. /\ byColumn' \in ListsOK /\ Linked(byColumn', (live \ {e}) \union {e}, ColumnKey', none)
      /\ Counted(byColumn', (live \ {e}) \union {e}, ColumnKey', none)
  BY <1>t, <1>2, <1>3, <1>4, <1>5, <1>6, PushFamily
<1>8. (live \ {e}) \union {e} = live /\ live' = live
  OBVIOUS
<1>9. CellsUnique'
  <2> SUFFICES ASSUME NEW a \in live, NEW b \in live,
                      RowList(a)' = RowList(b)', ColumnList(a)' = ColumnList(b)'
               PROVE  a = b
    BY <1>8 DEF CellsUnique
  <2>1. \A d \in live : RowList(d)' = RowList(d)
    BY <1>t, <1>1 DEF RowList
  <2>2. \A d \in live : d # e => ColumnList(d)' = ColumnList(d)
    BY <1>t, <1>1 DEF ColumnList
  <2>3. ColumnList(e)' = <<"tableau", target>>
    BY <1>1, <1>2 DEF ColumnList
  <2>4. \A x, y \in live : RowList(x) = RowList(y) /\ ColumnList(x) = ColumnList(y) => x = y
    BY DEF HeapLinked, CellsUnique
  <2> QED BY <2>1, <2>2, <2>3, <2>4
<1>10. HeapType'
  BY <1>t, <1>1, <1>7 DEF HeapType
<1>11. HeapLinked(none, none)' /\ HeapCounted(none, none)'
  BY <1>t, <1>3, <1>7, <1>8, <1>9, <1>10 DEF HeapLinked, HeapCounted
<1>12. ASSUME NEW Q \in SUBSET live, NEW first, e \notin Q, Chain(byColumn, Q, first)
       PROVE  Chain(byColumn', Q, first)
  <2>1. /\ List(byColumn, ListOf(live, ColumnKey, <<"tableau", source>>), <<"tableau", source>>)
        /\ e \in ListOf(live, ColumnKey, <<"tableau", source>>)
        /\ ListOf(live, ColumnKey, <<"tableau", source>>) \in SUBSET Entry
    BY <1>t, <1>2 DEF Linked, ListOf
  <2>2. Q \in SUBSET Entry /\ <<"tableau", source>> \in Matrix \X Variable
    BY <1>t, <1>2
  <2>3. Chain(mid, Q, first)
    BY <1>t, <1>12, <2>1, <2>2, UnlinkKeeps DEF mid
  <2>4. List(mid, ListOf(live \ {e}, ColumnKey, <<"tableau", target>>), <<"tableau", target>>)
    BY <1>2, <1>4 DEF Linked
  <2>5. /\ mid.head[<<"tableau", target>>] # NULL => mid.prev[mid.head[<<"tableau", target>>]] = NULL
        /\ e \in Entry \ Q /\ <<"tableau", target>> \in Matrix \X Variable
    BY <1>t, <1>2, <1>12, <2>4 DEF List
  <2> QED BY <1>t, <1>4, <1>5, <2>2, <2>3, <2>5, PushKeeps
<1> QED BY <1>11, <1>12

\* A turn of addColumnEraseSource, the last of which goes on to erase the source.
LEMMA AddColumnStepKeeps ==
  ASSUME LinkedInv, AddColumnStep, UNCHANGED <<pivoting, client>>
  PROVE  LinkedInv'
<1>t. /\ op.kind = "addColumn"
      /\ UNCHANGED <<pivoting, basicVariables, dropped, filling, stored, operations>>
  BY DEF AddColumnStep, client
<1>y. /\ HeapType /\ live \in SUBSET Entry /\ NULL \notin Entry
      /\ dense \in [Variable -> Link] /\ TableauTypeOK
      /\ op.source \in Variable /\ op.target \in Variable
      /\ dropped \in [Matrix -> SUBSET Variable] /\ operations \in 0 .. MaxOperations
  BY Typing DEF LinkedInv, TableauTypeOK
<1>p. PivotInv' /\ FillInv'
  <2>1. op.kind \notin {"none", "addScaledRow"} /\ op.kind # "none"
    BY <1>t
  <2> QED BY <1>t, <2>1, OtherLoops, NotFilling DEF LinkedInv
<1>1. CASE cursor = NULL
  <2>1. EraseColumn(op.source)
    BY <1>1 DEF AddColumnStep
  <2>2. PICK c \in Variable : c = op.source
    BY <1>y
  <2>3. EraseColumn(c) /\ op.kind \notin {"eraseRow", "eraseColumn", "copy"}
    BY <1>t, <2>1, <2>2
  <2> QED BY <1>t, <1>y, <1>p, <2>3, EraseColumnBegins DEF LinkedInv
<1>2. CASE cursor # NULL
  <2>h. /\ HeapLinked(ErasedRows, ErasedColumns) /\ HeapCounted(ErasedRows, ErasedColumns)
        /\ ErasedRows = {} /\ ErasedColumns = {}
        /\ CellsUnique
    BY <1>t DEF LinkedInv, SizesInv, ErasedRows, ErasedColumns, HeapLinked
  <2>n. PICK none : none = {} /\ HeapLinked(none, none) /\ HeapCounted(none, none)
    BY <2>h
  <2>s. PICK source \in Variable, target \in Variable : source = op.source /\ target = op.target
    BY <1>y
  <2>1. PICK Q \in Left(byColumn, InColumn("tableau", source), cursor) :
          \A e \in Q, d \in InColumn("tableau", target) :
            cell[d].row = cell[e].row => dense[cell[e].row] = d
    BY <1>t, <2>s DEF LinkedInv, ScanInv, ColumnScanned
  <2>2. /\ source # target
        /\ \A r \in Variable : dense[r] # NULL =>
             dense[r] \in InColumn("tableau", target) /\ cell[dense[r]].row = r
    BY <1>t, <2>s DEF LinkedInv, ScanInv, ColumnScanned
  <2>3. Q \subseteq live /\ Q \subseteq InColumn("tableau", source) /\ Chain(byColumn, Q, cursor)
    BY <2>1 DEF Left, InColumn
  <2>4. PICK S \in SUBSET Q : S = Q \ {cursor}
    OBVIOUS
  <2>5. cursor \in Q /\ Chain(byColumn, S, byColumn.next[cursor])
    BY <1>2, <2>3, <2>4, <1>y, ChainTail
  <2>e. PICK from \in live : from = cursor /\ from \in Q
    BY <2>3, <2>5
  <2>6. PICK row \in Variable : row = cell[from].row
    BY <1>y, CellFacts
  <2>7. PICK entry \in Link : entry = dense[row]
    BY <1>y
  <2>8. from \in Entry /\ ColumnList(from) = <<"tableau", source>> /\ RowList(from) = <<"tableau", row>>
    BY <1>y, <2>3, <2>e, <2>6 DEF InColumn, RowList, ColumnList
  <2>9. /\ cursor' = byColumn.next[from] /\ op' = op
        /\ entry # NULL =>
             LET sum == Plus(cell[entry].value, cell[from].value) IN
             /\ SetValue(entry, sum)
             /\ dense' = IF sum = 0 THEN [dense EXCEPT ![row] = NULL] ELSE dense
        /\ entry = NULL =>
             /\ byColumn' = PushFront(Unlink(byColumn, <<"tableau", source>>, from),
                                      <<"tableau", target>>, from)
             /\ cell' = [cell EXCEPT ![from] = [cell[from] EXCEPT !.column = target]]
             /\ UNCHANGED <<live, byRow, dense>>
    BY <1>2, <2>6, <2>7, <2>e, <2>s DEF AddColumnStep
  <2>10. cursor' \in Link /\ ErasedRows' = {} /\ ErasedColumns' = {}
    BY <1>t, <1>y, <2>8, <2>9 DEF HeapType, ListsOK, ErasedRows, ErasedColumns
  <2>11. \A e \in S : cell[e].row # row
    <3>1. \A e \in S : e \in live /\ ColumnList(e) = ColumnList(from) /\ e # from
      BY <2>3, <2>4, <2>e, <2>8 DEF InColumn
    <3>2. \A e \in S : cell[e].matrix = cell[from].matrix
      BY <3>1 DEF ColumnList
    <3>3. \A e \in S : RowList(e) # RowList(from)
      BY <3>1, <2>h DEF CellsUnique
    <3> QED BY <3>2, <3>3, <2>6 DEF RowList
  <2>12. SUFFICES /\ HeapLinked(none, none)' /\ HeapCounted(none, none)'
                  /\ dense' \in [Variable -> Link]
                  /\ ColumnScanned'
    <3> SUFFICES ASSUME /\ HeapLinked(none, none)' /\ HeapCounted(none, none)'
                        /\ dense' \in [Variable -> Link]
                        /\ ColumnScanned'
                 PROVE  LinkedInv'
      OBVIOUS
    <3>0. HeapLinked(ErasedRows, ErasedColumns)' /\ HeapCounted(ErasedRows, ErasedColumns)'
      BY <2>n, <2>10
    <3>1. TableauTypeOK'
      BY <1>t, <1>y, <2>9, <2>10 DEF TableauTypeOK, HeapLinked, HeapType
    <3>2. ScanInv' /\ CopyInv' /\ SizesInv'
      BY <1>t, <2>2, <2>9, <2>s, <3>0 DEF ScanInv, CopyInv, SizesInv
    <3> QED BY <1>p, <3>0, <3>1, <3>2 DEF LinkedInv
  <2>13. ASSUME \A e \in S : e \in live' /\ cell'[e] = cell[e],
                Chain(byColumn', S, byColumn.next[from]),
                \A r \in Variable : dense'[r] # NULL =>
                  /\ dense'[r] \in live' /\ cell'[dense'[r]].matrix = "tableau"
                  /\ cell'[dense'[r]].column = target /\ cell'[dense'[r]].row = r,
                \A e \in S, d \in live' :
                  ColumnList(d)' = <<"tableau", target>> /\ cell'[d].row = cell[e].row =>
                    dense'[cell[e].row] = d
         PROVE  ColumnScanned'
    <3>1. S \in Left(byColumn, InColumn("tableau", op.source), cursor)'
      BY <2>3, <2>4, <2>9, <2>s, <2>13 DEF Left, InColumn, ColumnList
    <3>2. \A e \in S, d \in InColumn("tableau", op.target)' :
            cell'[d].row = cell'[e].row => dense'[cell'[e].row] = d
      BY <2>4, <2>9, <2>s, <2>13 DEF InColumn
    <3>3. \A r \in Variable : dense'[r] # NULL =>
            dense'[r] \in InColumn("tableau", op.target)' /\ cell'[dense'[r]].row = r
      BY <2>9, <2>s, <2>13 DEF InColumn, ColumnList
    <3> QED BY <3>1, <3>2, <3>3 DEF ColumnScanned
  <2>14. CASE entry = NULL
    <3>1. /\ byColumn' = PushFront(Unlink(byColumn, <<"tableau", source>>, from),
                                   <<"tableau", target>>, from)
          /\ cell' = [cell EXCEPT ![from] = [cell[from] EXCEPT !.column = target]]
          /\ UNCHANGED <<live, byRow, dense>>
      BY <2>9, <2>14
    <3>2. \A d \in live : ~(RowList(d) = RowList(from) /\ ColumnList(d) = <<"tableau", target>>)
      <4>1. ASSUME NEW d \in live, RowList(d) = RowList(from), ColumnList(d) = <<"tableau", target>>
            PROVE  FALSE
        <5>1. d \in InColumn("tableau", target) /\ cell[d].row = cell[from].row
          BY <4>1 DEF InColumn, RowList
        <5>2. dense[row] = d
          BY <2>1, <2>e, <2>6, <5>1
        <5> QED BY <1>y, <2>7, <2>14, <5>2
      <4> QED BY <4>1
    <3>3. /\ HeapLinked(none, none)' /\ HeapCounted(none, none)'
          /\ \A P \in SUBSET live : \A first : from \notin P /\ Chain(byColumn, P, first) =>
               Chain(byColumn', P, first)
      BY <2>2, <2>8, <2>n, <3>1, <3>2, StealLinks
    <3>4. /\ \A e \in live : e # from => cell'[e] = cell[e]
          /\ cell'[from].row = row /\ cell[from].column = source
      BY <1>y, <2>6, <2>8, <3>1 DEF HeapType, CellOK, ColumnList
    <3>5. \A e \in S : e \in live' /\ e # from /\ cell'[e] = cell[e]
      BY <2>3, <2>4, <2>e, <3>1, <3>4
    <3>6. Chain(byColumn', S, byColumn.next[from])
      BY <2>3, <2>4, <2>5, <2>e, <3>3, <3>5
    <3>7. ASSUME NEW r \in Variable, dense'[r] # NULL
          PROVE  /\ dense'[r] \in live' /\ cell'[dense'[r]].matrix = "tableau"
                 /\ cell'[dense'[r]].column = target /\ cell'[dense'[r]].row = r
      <4>1. PICK d \in live : /\ d = dense[r] /\ ColumnList(d) = <<"tableau", target>>
                              /\ cell[d].row = r
        BY <2>2, <3>1, <3>7 DEF InColumn
      <4>2. d # from
        BY <2>2, <2>8, <4>1
      <4> QED BY <3>1, <3>4, <4>1, <4>2 DEF ColumnList
    <3>8. ASSUME NEW e \in S, NEW d \in live', ColumnList(d)' = <<"tableau", target>>,
                 cell'[d].row = cell[e].row
          PROVE  dense'[cell[e].row] = d
      <4>1. d # from
        BY <2>11, <3>4, <3>8
      <4>2. d \in live /\ ColumnList(d) = <<"tableau", target>> /\ cell[d].row = cell[e].row
        BY <3>1, <3>4, <3>8, <4>1 DEF ColumnList
      <4> QED BY <2>1, <2>4, <3>1, <4>2 DEF InColumn
    <3>9. ColumnScanned'
      BY <2>13, <3>5, <3>6, <3>7, <3>8
    <3> QED BY <1>y, <2>12, <3>1, <3>3, <3>9
  <2>15. CASE entry # NULL
    <3>0. entry \in live /\ ColumnList(entry) = <<"tableau", target>> /\ cell[entry].row = row
      BY <2>2, <2>7, <2>15 DEF InColumn
    <3>s. PICK sum \in Value : sum = Plus(cell[entry].value, cell[from].value)
      BY <1>y, <2>8, <3>0, CellFacts, Sums
    <3>1. /\ SetValue(entry, sum)
          /\ dense' = IF sum = 0 THEN [dense EXCEPT ![row] = NULL] ELSE dense
      BY <2>9, <2>15, <3>s
    <3>2. /\ HeapLinked(none, none)' /\ HeapCounted(none, none)' /\ Assigned(entry, sum)
      <4>1. RowList(entry) \notin none /\ ColumnList(entry) \notin none
        BY <2>n
      <4> QED BY <2>n, <3>0, <3>1, <4>1, SetValueLinks
    <3>3. /\ live' = IF sum = 0 THEN live \ {entry} ELSE live
          /\ \A e \in Entry : e # entry => cell'[e] = cell[e]
          /\ \A e \in Entry : cell'[e].row = cell[e].row /\ ColumnList(e)' = ColumnList(e)
      BY <1>y, <3>0, <3>2 DEF Assigned, HeapType, CellOK, ColumnList
    <3>4. entry \notin S
      BY <2>2, <2>3, <2>4, <3>0 DEF InColumn
    <3>5. Chain(byColumn', S, byColumn.next[from])
      BY <2>3, <2>5, <2>e, <3>2, <3>4 DEF Assigned
    <3>6. dense' \in [Variable -> Link]
      BY <1>y, <3>1 DEF Link
    <3>7. \A e \in S : e \in live' /\ cell'[e] = cell[e]
      BY <2>3, <1>y, <3>3, <3>4
    <3>8. ASSUME NEW r \in Variable, dense'[r] # NULL
          PROVE  /\ dense'[r] \in live' /\ cell'[dense'[r]].matrix = "tableau"
                 /\ cell'[dense'[r]].column = target /\ cell'[dense'[r]].row = r
      <4>1. dense'[r] = dense[r] /\ (r = row => sum # 0)
        BY <1>y, <3>1, <3>8
      <4>2. PICK d \in live : /\ d = dense[r] /\ ColumnList(d) = <<"tableau", target>>
                              /\ cell[d].row = r
        BY <2>2, <3>8, <4>1 DEF InColumn
      <4>3. d \in live'
        BY <3>0, <3>3, <4>1, <4>2
      <4>4. cell'[d].row = r /\ ColumnList(d)' = <<"tableau", target>>
        BY <1>y, <3>3, <4>2
      <4> QED BY <4>1, <4>2, <4>3, <4>4 DEF ColumnList
    <3>9. ASSUME NEW e \in S, NEW d \in live', ColumnList(d)' = <<"tableau", target>>,
                 cell'[d].row = cell[e].row
          PROVE  dense'[cell[e].row] = d
      <4>1. d \in live /\ ColumnList(d) = <<"tableau", target>> /\ cell[d].row = cell[e].row
        BY <1>y, <3>3, <3>9
      <4>2. dense[cell[e].row] = d
        BY <2>1, <2>4, <4>1 DEF InColumn
      <4>3. cell[e].row \in Variable /\ cell[e].row # row
        BY <2>3, <2>11, <1>y, CellFacts
      <4> QED BY <1>y, <3>1, <4>2, <4>3
    <3>10. ColumnScanned'
      BY <2>13, <3>5, <3>7, <3>8, <3>9
    <3> QED BY <2>12, <3>2, <3>6, <3>10
  <2> QED BY <2>14, <2>15
<1> QED BY <1>1, <1>2

(***************************************************************************)
(* backupIntoMatrix: the sizes are copied first, the entries row by row.   *)
(***************************************************************************)
LEMMA OtherMatrix ==
  ASSUME NEW m \in Matrix
  PROVE  /\ Other(m) \in Matrix /\ Other(m) # m
         /\ \A k \in Matrix : k = m \/ k = Other(m)
BY DEF Matrix, Other

\* One entry less to copy, one copy more.
LEMMA CopyCountedStep ==
  ASSUME NEW lists, NEW new, new.size = lists.size,
         NEW S, IsFiniteSet(S), NEW U \in SUBSET S, NEW key, NEW newKey,
         NEW m \in Matrix, NEW c \in U, NEW e, e \notin S, NEW j \in Variable,
         key[c] = <<m, j>>, newKey[e] = <<Other(m), j>>, \A d \in S : newKey[d] = key[d],
         CopyCounted(lists, S, key, m, U)
  PROVE  CopyCounted(new, S \union {e}, newKey, m, U \ {c})
<1>1. Other(m) # m
  BY OtherMatrix
<1> SUFFICES ASSUME NEW i \in Variable
             PROVE  /\ new.size[<<m, i>>] = Cardinality(ListOf(S \union {e}, newKey, <<m, i>>))
                    /\ new.size[<<Other(m), i>>] = new.size[<<m, i>>]
                    /\ Cardinality(ListOf(S \union {e}, newKey, <<Other(m), i>>))
                       + Cardinality(ListOf(U \ {c}, newKey, <<m, i>>)) = new.size[<<m, i>>]
  BY DEF CopyCounted
<1>2. /\ lists.size[<<m, i>>] = Cardinality(ListOf(S, key, <<m, i>>))
      /\ lists.size[<<Other(m), i>>] = lists.size[<<m, i>>]
      /\ Cardinality(ListOf(S, key, <<Other(m), i>>)) + Cardinality(ListOf(U, key, <<m, i>>))
           = lists.size[<<m, i>>]
  BY DEF CopyCounted
<1>3. ListOf(S \union {e}, newKey, <<m, i>>) = ListOf(S, key, <<m, i>>)
  BY <1>1 DEF ListOf
<1>4. CASE i # j
  <2>1. /\ ListOf(S \union {e}, newKey, <<Other(m), i>>) = ListOf(S, key, <<Other(m), i>>)
        /\ ListOf(U \ {c}, newKey, <<m, i>>) = ListOf(U, key, <<m, i>>)
    BY <1>4 DEF ListOf
  <2> QED BY <1>2, <1>3, <2>1
<1>5. CASE i = j
  <2> DEFINE A == ListOf(S, key, <<Other(m), i>>)
             B == ListOf(U, key, <<m, i>>)
  <2>1. /\ ListOf(S \union {e}, newKey, <<Other(m), i>>) = A \union {e}
        /\ ListOf(U \ {c}, newKey, <<m, i>>) = B \ {c}
        /\ e \notin A /\ c \in B /\ A \subseteq S /\ B \subseteq S
    BY <1>5 DEF ListOf
  <2> HIDE DEF A, B
  <2>2. IsFiniteSet(A) /\ IsFiniteSet(B)
    BY <2>1, FS_Subset
  <2>3. /\ Cardinality(A \union {e}) = Cardinality(A) + 1
        /\ Cardinality(B \ {c}) = Cardinality(B) - 1
        /\ Cardinality(A) \in Nat /\ Cardinality(B) \in Nat
    BY <2>1, <2>2, FS_AddElement, FS_RemoveElement, FS_CardinalityType
  <2>4. Cardinality(A) + Cardinality(B) = lists.size[<<m, i>>]
    BY <1>2 DEF A, B
  <2>5. Cardinality(A \union {e}) + Cardinality(B \ {c}) = lists.size[<<m, i>>]
    BY <2>3, <2>4
  <2> QED BY <1>2, <1>3, <2>1, <2>5
<1> QED BY <1>4, <1>5

\* Where nothing is left to copy, both matrices have the sizes.
LEMMA CopyCountedEnd ==
  ASSUME NEW lists, NEW S, IsFiniteSet(S), NEW key, NEW m \in Matrix,
         CopyCounted(lists, S, key, m, {})
  PROVE  Counted(lists, S, key, {})
<1> SUFFICES ASSUME NEW l \in Matrix \X Variable
             PROVE  lists.size[l] = Cardinality(ListOf(S, key, l))
  BY DEF Counted
<1>1. PICK k \in Matrix, i \in Variable : l = <<k, i>>
  OBVIOUS
<1>2. /\ lists.size[<<m, i>>] = Cardinality(ListOf(S, key, <<m, i>>))
      /\ lists.size[<<Other(m), i>>] = lists.size[<<m, i>>]
      /\ Cardinality(ListOf(S, key, <<Other(m), i>>)) + Cardinality(ListOf({}, key, <<m, i>>))
           = lists.size[<<m, i>>]
  BY DEF CopyCounted
<1>3. ListOf({}, key, <<m, i>>) = {} /\ Cardinality({}) = 0
  BY FS_EmptySet DEF ListOf
<1>4. Cardinality(ListOf(S, key, <<Other(m), i>>)) \in Nat
  <2>1. IsFiniteSet(ListOf(S, key, <<Other(m), i>>))
    BY FS_Subset DEF ListOf
  <2> QED BY <2>1, FS_CardinalityType
<1>5. Cardinality(ListOf(S, key, <<Other(m), i>>)) = lists.size[<<m, i>>]
  BY <1>2, <1>3, <1>4
<1>6. CASE k = m
  BY <1>1, <1>2, <1>6
<1>7. CASE k = Other(m)
  BY <1>1, <1>2, <1>5, <1>7
<1> QED BY <1>6, <1>7, OtherMatrix

Placed(e, m, r, c, v) ==
  cell' = [cell EXCEPT ![e] = [matrix |-> m, row |-> r, column |-> c, value |-> v]]
Resized(new, lists, size) ==
  new = [head |-> lists.head, size |-> size, next |-> lists.next, prev |-> lists.prev]

\* The copied entry is linked like an inserted one.
LEMMA CopyLinks ==
  ASSUME NEW none, HeapLinked(none, none), NEW e \in Entry \ live,
         NEW m \in Matrix, NEW r \in Variable, NEW c \in Variable, NEW v \in Value,
         <<m, r>> \notin none, <<m, c>> \notin none,
         \A d \in live : ~(RowList(d) = <<m, r>> /\ ColumnList(d) = <<m, c>>),
         live' = live \union {e},
         Placed(e, m, r, c, v),
         Resized(byRow', PushFront(byRow, <<m, r>>, e), byRow.size),
         Resized(byColumn', PushFront(byColumn, <<m, c>>, e), byColumn.size)
  PROVE  HeapLinked(none, none)'
<1>t. /\ live \in SUBSET Entry /\ cell \in [Entry -> CellOK] /\ IsFiniteSet(live)
      /\ byRow \in ListsOK /\ byColumn \in ListsOK /\ NULL \notin Entry
      /\ Linked(byRow, live, RowKey, none) /\ Linked(byColumn, live, ColumnKey, none)
      /\ <<m, r>> \in (Matrix \X Variable) \ none /\ <<m, c>> \in (Matrix \X Variable) \ none
  BY Constants DEF HeapLinked, HeapType
<1>2. /\ cell' \in [Entry -> CellOK]
      /\ cell'[e] = [matrix |-> m, row |-> r, column |-> c, value |-> v]
      /\ \A d \in Entry : d # e => cell'[d] = cell[d]
  BY <1>t DEF CellOK, Placed
<1>3. /\ RowKey'[e] = <<m, r>> /\ ColumnKey'[e] = <<m, c>>
      /\ \A d \in live : RowKey'[d] = RowKey[d] /\ ColumnKey'[d] = ColumnKey[d]
  <2>1. RowKey'[e] = <<m, r>> /\ ColumnKey'[e] = <<m, c>>
    BY <1>2 DEF RowKey, ColumnKey, RowList, ColumnList
  <2>2. ASSUME NEW d \in live
        PROVE  RowKey'[d] = RowKey[d] /\ ColumnKey'[d] = ColumnKey[d]
    BY <1>t, <1>2 DEF RowKey, ColumnKey, RowList, ColumnList
  <2> QED BY <2>1, <2>2
<1>r. PICK rows : rows = PushFront(byRow, <<m, r>>, e)
  OBVIOUS
<1>c. PICK columns : columns = PushFront(byColumn, <<m, c>>, e)
  OBVIOUS
<1>4. rows \in ListsOK /\ Linked(rows, live', RowKey', none)
  BY <1>t, <1>3, <1>r, PushFamily
<1>5. columns \in ListsOK /\ Linked(columns, live', ColumnKey', none)
  BY <1>t, <1>3, <1>c, PushFamily
<1>6. /\ byRow' \in ListsOK /\ byRow'.head = rows.head /\ byRow'.next = rows.next
      /\ byRow'.prev = rows.prev /\ byRow'.size = byRow.size
      /\ byColumn' \in ListsOK /\ byColumn'.head = columns.head /\ byColumn'.next = columns.next
      /\ byColumn'.prev = columns.prev /\ byColumn'.size = byColumn.size
  BY <1>t, <1>4, <1>5, <1>r, <1>c DEF ListsOK, Resized
<1>7. Linked(byRow', live', RowKey', none) /\ Linked(byColumn', live', ColumnKey', none)
  <2>1. PICK S, rowKey, columnKey : S = live' /\ rowKey = RowKey' /\ columnKey = ColumnKey'
    OBVIOUS
  <2>2. Linked(rows, S, rowKey, none) /\ Linked(columns, S, columnKey, none)
    BY <1>4, <1>5, <2>1
  <2>3. ASSUME NEW l \in (Matrix \X Variable) \ none
        PROVE  List(byRow', ListOf(S, rowKey, l), l) /\ List(byColumn', ListOf(S, columnKey, l), l)
    <3>1. List(rows, ListOf(S, rowKey, l), l)
      BY <2>2 DEF Linked
    <3>2. List(columns, ListOf(S, columnKey, l), l)
      BY <2>2 DEF Linked
    <3> QED BY <1>6, <3>1, <3>2 DEF List, Chain
  <2>5. Linked(byRow', S, rowKey, none) /\ Linked(byColumn', S, columnKey, none)
    BY <2>3 DEF Linked
  <2> QED BY <2>1, <2>5
<1>8. CellsUnique'
  <2> SUFFICES ASSUME NEW a \in live', NEW b \in live',
                      RowList(a)' = RowList(b)', ColumnList(a)' = ColumnList(b)'
               PROVE  a = b
    BY DEF CellsUnique
  <2>1. \A d \in live : RowList(d)' = RowList(d) /\ ColumnList(d)' = ColumnList(d)
    BY <1>t, <1>2 DEF RowList, ColumnList
  <2>2. RowList(e)' = <<m, r>> /\ ColumnList(e)' = <<m, c>>
    BY <1>2 DEF RowList, ColumnList
  <2>3. \A x, y \in live : RowList(x) = RowList(y) /\ ColumnList(x) = ColumnList(y) => x = y
    BY DEF HeapLinked, CellsUnique
  <2> QED BY <2>1, <2>2, <2>3
<1>9. IsFiniteSet(live')
  BY <1>t, FS_AddElement
<1> QED BY <1>t, <1>2, <1>6, <1>7, <1>8, <1>9 DEF HeapLinked, HeapType

\* A turn of backupIntoMatrix copies an entry or goes to the next row.
LEMMA CopyStepKeeps ==
  ASSUME LinkedInv, CopyStep, UNCHANGED <<pivoting, client>>
  PROVE  LinkedInv'
<1>t. /\ op.kind = "copy"
      /\ UNCHANGED <<pivoting, basicVariables, dropped, filling, stored, operations>>
  BY DEF CopyStep, client
<1>y. /\ HeapType /\ live \in SUBSET Entry /\ NULL \notin Entry
      /\ dense \in [Variable -> Link] /\ TableauTypeOK /\ cursor \in Link
      /\ op.source \in Variable /\ op.matrix \in Matrix /\ op \in OpOK
      /\ byRow \in ListsOK /\ IsFiniteSet(live)
  BY Typing DEF LinkedInv, HeapType, HeapLinked
<1>p. PivotInv' /\ FillInv'
  <2>1. op.kind \notin {"none", "addScaledRow"} /\ op.kind # "none"
    BY <1>t
  <2> QED BY <1>t, <2>1, OtherLoops, NotFilling DEF LinkedInv
<1>h. ErasedRows = {} /\ ErasedColumns = {} /\ HeapLinked(ErasedRows, ErasedColumns)
  BY <1>t DEF LinkedInv, ErasedRows, ErasedColumns
<1>n. PICK none : none = {} /\ HeapLinked(none, none)
  BY <1>h
<1>s. PICK m \in Matrix, source \in Variable : m = op.matrix /\ source = op.source
  BY <1>y
<1>o. PICK o \in Matrix : o = Other(m) /\ o # m /\ \A k \in Matrix : k = m \/ k = o
  BY OtherMatrix
<1>1. PICK Q \in Left(byRow, InRow(m, source), cursor) : Copying(Q)
  BY <1>s, <1>t DEF LinkedInv, CopyInv
<1>2. /\ Q \subseteq live /\ Q \subseteq InRow(m, source) /\ Chain(byRow, Q, cursor)
      /\ \A d \in live : cell[d].matrix = o =>
           \/ cell[d].row < source
           \/ cell[d].row = source /\ \A e \in Q : cell[e].column # cell[d].column
      /\ CopyCounted(byRow, live, RowKey, m, Uncopied(Q))
      /\ CopyCounted(byColumn, live, ColumnKey, m, Uncopied(Q))
  BY <1>1, <1>o, <1>s DEF Left, InRow, Copying
<1>3. CASE cursor # NULL
  <2>1. PICK S \in SUBSET Q : S = Q \ {cursor}
    OBVIOUS
  <2>2. cursor \in Q /\ Chain(byRow, S, byRow.next[cursor])
    BY <1>3, <1>2, <2>1, <1>y, ChainTail
  <2>3. PICK from \in live : from = cursor /\ from \in Q
    BY <1>2, <2>2
  <2>4. /\ from \in Entry /\ cell[from].matrix = m /\ cell[from].row = source
        /\ cell[from].column \in Variable /\ cell[from].value \in Value
        /\ cell[from] = [matrix |-> m, row |-> source, column |-> cell[from].column,
                         value |-> cell[from].value]
    <3>1. from \in Entry /\ cell[from] \in CellOK /\ from \in InRow(m, source)
      BY <1>y, <1>2, <2>3 DEF HeapType
    <3> QED BY <3>1 DEF CellOK, InRow, RowList
  <2>5. PICK c \in Variable, v \in Value : c = cell[from].column /\ v = cell[from].value
    BY <2>4
  <2>6. PICK e \in Entry \ live :
          /\ live' = live \union {e}
          /\ cell' = [cell EXCEPT ![e] = [cell[from] EXCEPT !.matrix = o]]
          /\ byRow' = [PushFront(byRow, <<o, source>>, e) EXCEPT !.size = byRow.size]
          /\ byColumn' = [PushFront(byColumn, <<o, c>>, e) EXCEPT !.size = byColumn.size]
          /\ cursor' = byRow.next[from]
          /\ UNCHANGED <<op, dense>>
    <3>1. live # Entry /\ live \subseteq Entry
      BY <1>3, <1>t, <1>y DEF CopyStep
    <3>2. (CHOOSE x \in Entry \ live : TRUE) \in Entry \ live
      BY <3>1
    <3> QED BY <1>3, <1>o, <1>s, <2>3, <2>4, <2>5, <3>2 DEF CopyStep
  <2>7. cell' = [cell EXCEPT ![e] = [matrix |-> o, row |-> source, column |-> c, value |-> v]]
    <3>1. [cell[from] EXCEPT !.matrix = o] =
            [matrix |-> o, row |-> source, column |-> c, value |-> v]
      BY <2>4, <2>5
    <3> QED BY <2>6, <3>1
  <2>8. \A d \in live : ~(RowList(d) = <<o, source>> /\ ColumnList(d) = <<o, c>>)
    <3>1. ASSUME NEW d \in live, RowList(d) = <<o, source>>, ColumnList(d) = <<o, c>>
          PROVE  FALSE
      <4>1. cell[d].matrix = o /\ cell[d].row = source /\ cell[d].column = c
        BY <3>1 DEF RowList, ColumnList
      <4>2. source \in Int /\ ~(source < source)
        BY Constants DEF Variable
      <4> QED BY <1>2, <2>3, <2>5, <4>1, <4>2
    <3> QED BY <3>1
  <2>9. /\ HeapLinked(none, none)'
        /\ byRow'.size = byRow.size /\ byColumn'.size = byColumn.size
    <3>1. <<o, source>> \notin none /\ <<o, c>> \notin none /\ HeapLinked(none, none)
      BY <1>n
    <3>p. Placed(e, o, source, c, v)
      BY <2>7 DEF Placed
    <3>r. /\ Resized(byRow', PushFront(byRow, <<o, source>>, e), byRow.size)
          /\ Resized(byColumn', PushFront(byColumn, <<o, c>>, e), byColumn.size)
      BY <2>6 DEF Resized, PushFront
    <3>2. HeapLinked(none, none)'
      BY <2>6, <2>8, <3>1, <3>p, <3>r, CopyLinks
    <3>3. byRow'.size = byRow.size /\ byColumn'.size = byColumn.size
      BY <2>6 DEF PushFront
    <3> QED BY <3>2, <3>3
  <2>10. ErasedRows' = {} /\ ErasedColumns' = {} /\ op' = op
    BY <1>h, <2>6 DEF ErasedRows, ErasedColumns
  <2>11. cursor' \in Link
    BY <1>y, <2>4, <2>6 DEF ListsOK
  <2>12. TableauTypeOK'
    BY <1>t, <1>y, <2>6, <2>9, <2>11 DEF TableauTypeOK, HeapLinked, HeapType
  <2>13. ScanInv' /\ SizesInv' /\ HeapLinked(ErasedRows, ErasedColumns)'
    BY <1>n, <1>t, <2>9, <2>10 DEF ScanInv, SizesInv
  <2>14. /\ \A d \in live : d # e /\ cell'[d] = cell[d]
         /\ cell'[e] = [matrix |-> o, row |-> source, column |-> c, value |-> v]
    BY <1>y, <2>6, <2>7 DEF HeapType
  <2>15. S \in Left(byRow, InRow(op.matrix, op.source), cursor)'
    <3>1. S \subseteq live /\ Chain(byRow', S, byRow.next[from])
      <4>1. <<o, source>> \in (Matrix \X Variable) \ none
        BY <1>n
      <4>2. byRow.head[<<o, source>>] # NULL => byRow.prev[byRow.head[<<o, source>>]] = NULL
        BY <1>n, <4>1 DEF HeapLinked, Linked, List
      <4>3. S \in SUBSET Entry /\ e \in Entry \ S
        BY <1>2, <1>y
      <4>4. Chain(PushFront(byRow, <<o, source>>, e), S, byRow.next[from])
        BY <1>y, <2>2, <2>3, <4>1, <4>2, <4>3, PushKeeps
      <4>5. /\ byRow'.next = PushFront(byRow, <<o, source>>, e).next
            /\ byRow'.prev = PushFront(byRow, <<o, source>>, e).prev
        BY <2>6 DEF PushFront
      <4> QED BY <1>2, <4>4, <4>5 DEF Chain
    <3>2. \A d \in S : d \in live' /\ RowList(d)' = <<m, source>>
      BY <1>2, <2>1, <2>6, <2>14 DEF InRow, RowList
    <3> QED BY <1>s, <2>6, <3>1, <3>2 DEF Left, InRow
  <2>16. Copying(S)'
    <3>1. \A d \in S : cell[d].column # c /\ d \in live
      <4>1. \A d \in S : d \in live /\ RowList(d) = RowList(from) /\ d # from
        BY <1>2, <2>1, <2>3 DEF InRow
      <4>2. \A d \in S : cell[d].matrix = cell[from].matrix
        BY <4>1 DEF RowList
      <4>3. \A d \in S : ColumnList(d) # ColumnList(from)
        BY <4>1, <1>h DEF CellsUnique, HeapLinked
      <4> QED BY <4>1, <4>2, <4>3, <2>5 DEF ColumnList
    <3>2. \A d \in live' : cell'[d].matrix = o =>
            \/ cell'[d].row < source
            \/ cell'[d].row = source /\ \A x \in S : cell'[x].column # cell'[d].column
      <4>1. \A d \in live : cell[d].matrix = o =>
              \/ cell[d].row < source
              \/ cell[d].row = source /\ \A x \in S : cell[x].column # cell[d].column
        BY <1>2, <2>1
      <4>2. \A x \in S : cell'[x] = cell[x]
        BY <2>14, <3>1
      <4>3. \A d \in live : cell'[d].matrix = o =>
              \/ cell'[d].row < source
              \/ cell'[d].row = source /\ \A x \in S : cell'[x].column # cell'[d].column
        BY <2>14, <4>1, <4>2
      <4>4. cell'[e].row = source /\ \A x \in S : cell'[x].column # cell'[e].column
        BY <2>14, <3>1, <4>2
      <4> QED BY <2>6, <4>3, <4>4
    <3>3. PICK U \in SUBSET live : U = Uncopied(Q)
      BY <1>2 DEF Uncopied
    <3>4. Uncopied(S)' = U \ {from}
      <4>1. \A d \in live' : cell'[d].matrix = m /\ cell'[d].row > source <=>
              d \in live /\ cell[d].matrix = m /\ cell[d].row > source
        BY <1>o, <2>6, <2>14
      <4>2. ~(cell[from].row > source)
        BY <2>4 DEF Variable
      <4> QED BY <1>s, <2>1, <2>3, <2>6, <3>3, <4>1, <4>2 DEF Uncopied
    <3>5. from \in U
      BY <2>3, <3>3 DEF Uncopied
    <3>6. /\ RowKey[from] = <<m, source>> /\ ColumnKey[from] = <<m, c>>
          /\ RowKey'[e] = <<o, source>> /\ ColumnKey'[e] = <<o, c>>
          /\ \A d \in live : RowKey'[d] = RowKey[d] /\ ColumnKey'[d] = ColumnKey[d]
      <4>1. RowKey[from] = <<m, source>> /\ ColumnKey[from] = <<m, c>>
        BY <2>4, <2>5 DEF RowKey, ColumnKey, RowList, ColumnList
      <4>2. RowKey'[e] = <<o, source>> /\ ColumnKey'[e] = <<o, c>>
        BY <2>14 DEF RowKey, ColumnKey, RowList, ColumnList
      <4>3. ASSUME NEW d \in live
            PROVE  RowKey'[d] = RowKey[d] /\ ColumnKey'[d] = ColumnKey[d]
        BY <1>y, <2>14 DEF RowKey, ColumnKey, RowList, ColumnList
      <4> QED BY <4>1, <4>2, <4>3
    <3>7. /\ CopyCounted(byRow, live, RowKey, m, U)
          /\ CopyCounted(byColumn, live, ColumnKey, m, U)
      BY <1>2, <3>3
    <3>f. /\ IsFiniteSet(live) /\ e \notin live /\ o = Other(m)
          /\ byRow'.size = byRow.size /\ byColumn'.size = byColumn.size
      BY <1>o, <1>y, <2>9
    <3>u. U \in SUBSET live /\ from \in U /\ m \in Matrix /\ source \in Variable /\ c \in Variable
      BY <3>5
    <3>8. CopyCounted(byRow', live \union {e}, RowKey', m, U \ {from})
      BY <1>o, <3>f, <3>u, <3>6, <3>7, CopyCountedStep
    <3>9. CopyCounted(byColumn', live \union {e}, ColumnKey', m, U \ {from})
      <4>1. /\ ColumnKey[from] = <<m, c>> /\ ColumnKey'[e] = <<Other(m), c>>
            /\ \A d \in live : ColumnKey'[d] = ColumnKey[d]
            /\ CopyCounted(byColumn, live, ColumnKey, m, U)
        BY <3>f, <3>6, <3>7
      <4>2. IsFiniteSet(live) /\ e \notin live /\ byColumn'.size = byColumn.size
        BY <3>f
      <4> QED BY <3>u, <4>1, <4>2, CopyCountedStep
    <3> QED BY <1>o, <1>s, <2>6, <3>2, <3>4, <3>8, <3>9 DEF Copying
  <2>17. CopyInv'
    BY <2>15, <2>16 DEF CopyInv
  <2> QED BY <1>p, <2>12, <2>13, <2>17 DEF LinkedInv
<1>4. CASE cursor = NULL
  <2>1. Q = {}
    BY <1>2, <1>4, <1>y DEF Chain
  <2>2. UNCHANGED <<live, cell, byRow, byColumn>>
    BY <1>4 DEF CopyStep, heap
  <2>3. /\ RowKey' = RowKey /\ ColumnKey' = ColumnKey /\ CellsUnique' = CellsUnique
        /\ HeapType' = HeapType
    BY <2>2 DEF RowKey, ColumnKey, RowList, ColumnList, CellsUnique, HeapType
  <2>4. HeapLinked(none, none)'
    BY <1>n, <2>2, <2>3 DEF HeapLinked
  <2>5. CASE source + 1 \in Variable
    <3>1. /\ op' = [op EXCEPT !.source = source + 1]
          /\ cursor' = byRow.head[<<m, source + 1>>]
          /\ UNCHANGED dense
      BY <1>4, <1>s, <2>5 DEF CopyStep
    <3>2. PICK next \in Variable : next = source + 1
      BY <2>5
    <3>3. op' \in OpOK /\ op'.kind = "copy" /\ op'.matrix = m /\ op'.source = next
      BY <1>s, <1>t, <1>y, <3>1, <3>2 DEF OpOK
    <3>4. ErasedRows' = {} /\ ErasedColumns' = {}
      BY <3>3 DEF ErasedRows, ErasedColumns
    <3>5. cursor' \in Link
      BY <1>y, <3>1, <3>2 DEF ListsOK
    <3>6. TableauTypeOK'
      BY <1>t, <1>y, <2>2, <3>1, <3>3, <3>5 DEF TableauTypeOK
    <3>7. ScanInv' /\ SizesInv' /\ HeapLinked(ErasedRows, ErasedColumns)'
      BY <1>n, <2>4, <3>3, <3>4 DEF ScanInv, SizesInv
    <3>8. PICK R : R = InRow(m, next)
      OBVIOUS
    <3>9. R \in Left(byRow, InRow(op.matrix, op.source), cursor)'
      <4>1. InRow(m, next) = ListOf(live, RowKey, <<m, next>>)
        BY <1>y, Keys
      <4>2. List(byRow, R, <<m, next>>)
        BY <1>n, <3>8, <4>1 DEF HeapLinked, Linked
      <4>3. Chain(byRow, R, cursor')
        BY <3>1, <3>2, <4>2 DEF List
      <4> QED BY <2>2, <3>3, <3>8, <4>3 DEF Left, InRow, RowList
    <3>10. Copying(R)'
      <4>1. \A d \in live : cell[d].matrix \in Matrix /\ cell[d].row \in Variable
        BY <1>y, CellFacts
      <4>2. \A d \in live : cell[d].matrix = o => cell[d].row < next
        BY <1>2, <3>2, <4>1 DEF Variable
      <4>3. R = {d \in live : cell[d].matrix = m /\ cell[d].row = next}
        BY <1>y, <3>8, Keys
      <4>4. Uncopied(R)' = Uncopied({})
        <5>1. \A d \in live : cell[d].row > source <=> cell[d].row = next \/ cell[d].row > next
          BY <3>2, <4>1 DEF Variable
        <5> QED BY <1>s, <2>2, <3>3, <4>3, <5>1 DEF Uncopied
      <4> QED BY <1>2, <1>o, <2>1, <2>2, <2>3, <3>3, <4>2, <4>4 DEF Copying
    <3>11. CopyInv'
      BY <3>9, <3>10 DEF CopyInv
    <3> QED BY <1>p, <3>6, <3>7, <3>11 DEF LinkedInv
  <2>6. CASE source + 1 \notin Variable
    <3>1. op' = NoOp /\ cursor' = NULL /\ dense' = NoDense /\ op'.kind = "none"
      BY <1>4, <1>s, <2>6 DEF CopyStep, Return, NoOp
    <3>2. Uncopied(Q) = {}
      <4>1. \A d \in live : cell[d].row \in Variable
        BY <1>y, CellFacts
      <4>2. \A i \in Variable : ~(i > source)
        BY <2>6, Constants DEF Variable
      <4> QED BY <1>s, <2>1, <4>1, <4>2 DEF Uncopied
    <3>3. Counted(byRow, live, RowKey, none) /\ Counted(byColumn, live, ColumnKey, none)
      BY <1>2, <1>n, <1>y, <3>2, CopyCountedEnd
    <3>4. ErasedRows' = {} /\ ErasedColumns' = {}
      BY <3>1 DEF ErasedRows, ErasedColumns
    <3>5. SizesInv' /\ HeapLinked(ErasedRows, ErasedColumns)'
      BY <1>n, <2>2, <2>3, <2>4, <3>3, <3>4 DEF SizesInv, HeapCounted
    <3>6. TableauTypeOK'
      BY <1>t, <1>y, <2>2, <3>1, Typing DEF TableauTypeOK
    <3>7. ScanInv' /\ CopyInv'
      BY <3>1 DEF ScanInv, CopyInv
    <3> QED BY <1>p, <3>5, <3>6, <3>7 DEF LinkedInv
  <2> QED BY <2>5, <2>6
<1> QED BY <1>3, <1>4

\* The other matrix is empty, and everything is left to copy.
LEMMA CopyBegins ==
  ASSUME LinkedInv, Idle, NEW m \in Matrix, BackupIntoMatrix(m),
         UNCHANGED <<pivoting, filling>>, filling = Size * Size,
         basicVariables' \in [Matrix -> SUBSET Variable],
         dropped' \in [Matrix -> SUBSET Variable], stored' \in BOOLEAN,
         operations' \in 0 .. MaxOperations
  PROVE  LinkedInv'
<1>y. /\ HeapType /\ live \in SUBSET Entry /\ NULL \notin Entry /\ IsFiniteSet(live)
      /\ dense \in [Variable -> Link] /\ TableauTypeOK /\ NoOp \in OpOK
      /\ byRow \in ListsOK /\ byColumn \in ListsOK /\ 0 \in Variable
      /\ op.kind = "none" /\ pivoting.stage = "none"
      /\ filling \in 0 .. Size * Size /\ pivoting \in PivotOK /\ cell \in [Entry -> CellOK]
  BY Typing, Constants DEF LinkedInv, HeapType, HeapLinked, Idle, Returned, TableauTypeOK
<1>o. PICK o \in Matrix : o = Other(m) /\ o # m /\ \A k \in Matrix : k = m \/ k = o
  BY OtherMatrix
<1>h. /\ Linked(byRow, live, RowKey, {}) /\ Counted(byRow, live, RowKey, {})
      /\ Linked(byColumn, live, ColumnKey, {}) /\ Counted(byColumn, live, ColumnKey, {})
      /\ CellsUnique
  BY <1>y DEF LinkedInv, SizesInv, ErasedRows, ErasedColumns, HeapLinked, HeapCounted
<1>1. PICK rows, columns :
        /\ rows = [head |-> [l \in Matrix \X Variable |-> IF l[1] = m THEN byRow.head[l] ELSE NULL],
                   size |-> [l \in Matrix \X Variable |-> byRow.size[<<m, l[2]>>]],
                   next |-> byRow.next, prev |-> byRow.prev]
        /\ columns = [head |-> [l \in Matrix \X Variable |-> IF l[1] = m THEN byColumn.head[l] ELSE NULL],
                      size |-> [l \in Matrix \X Variable |-> byColumn.size[<<m, l[2]>>]],
                      next |-> byColumn.next, prev |-> byColumn.prev]
        /\ byRow' = rows /\ byColumn' = columns
        /\ live' = {e \in live : cell[e].matrix = m}
        /\ op' = [NoOp EXCEPT !.kind = "copy", !.matrix = m]
        /\ cursor' = byRow.head[<<m, 0>>]
        /\ UNCHANGED <<cell, dense>>
  BY DEF BackupIntoMatrix
<1>2. op' \in OpOK /\ op'.kind = "copy" /\ op'.matrix = m /\ op'.source = 0
  BY <1>1, <1>y DEF NoOp, OpOK
<1>3. /\ rows \in ListsOK /\ columns \in ListsOK /\ cursor' \in Link
  <2>1. rows \in ListsOK
    BY <1>1, <1>y DEF ListsOK, Link
  <2>2. columns \in ListsOK
    BY <1>1, <1>y DEF ListsOK, Link
  <2>3. cursor' \in Link
    BY <1>1, <1>y DEF ListsOK
  <2> QED BY <2>1, <2>2, <2>3
<1>4. TableauTypeOK'
  BY <1>1, <1>2, <1>3, <1>y DEF TableauTypeOK
<1>5. ErasedRows' = {} /\ ErasedColumns' = {}
  BY <1>2 DEF ErasedRows, ErasedColumns
<1>k. /\ RowKey' = RowKey /\ ColumnKey' = ColumnKey
      /\ \A e \in live : /\ RowKey[e] = <<cell[e].matrix, cell[e].row>>
                         /\ ColumnKey[e] = <<cell[e].matrix, cell[e].column>>
                         /\ cell[e].matrix \in Matrix /\ cell[e].row \in Variable
                         /\ cell[e].column \in Variable
  BY <1>1, <1>y, CellFacts DEF RowKey, ColumnKey, RowList, ColumnList
<1>s. PICK S \in SUBSET live : S = live'
  BY <1>1
<1>6. \A i \in Variable : /\ ListOf(S, RowKey, <<m, i>>) = ListOf(live, RowKey, <<m, i>>)
                          /\ ListOf(S, RowKey, <<o, i>>) = {}
                          /\ ListOf(S, ColumnKey, <<m, i>>) = ListOf(live, ColumnKey, <<m, i>>)
                          /\ ListOf(S, ColumnKey, <<o, i>>) = {}
  BY <1>1, <1>k, <1>o, <1>s DEF ListOf
<1>7. /\ \A i \in Variable : /\ rows.head[<<m, i>>] = byRow.head[<<m, i>>]
                             /\ rows.head[<<o, i>>] = NULL
                             /\ rows.size[<<m, i>>] = byRow.size[<<m, i>>]
                             /\ rows.size[<<o, i>>] = byRow.size[<<m, i>>]
      /\ rows.next = byRow.next /\ rows.prev = byRow.prev
  BY <1>1, <1>o
<1>8. /\ \A i \in Variable : /\ columns.head[<<m, i>>] = byColumn.head[<<m, i>>]
                             /\ columns.head[<<o, i>>] = NULL
                             /\ columns.size[<<m, i>>] = byColumn.size[<<m, i>>]
                             /\ columns.size[<<o, i>>] = byColumn.size[<<m, i>>]
      /\ columns.next = byColumn.next /\ columns.prev = byColumn.prev
  BY <1>1, <1>o
<1>9. Linked(rows, S, RowKey, {})
  <2>1. ASSUME NEW l \in (Matrix \X Variable) \ {}
        PROVE  \/ rows.head[l] = NULL /\ ListOf(S, RowKey, l) = {}
               \/ /\ l \notin {} /\ rows.head[l] = byRow.head[l]
                  /\ ListOf(S, RowKey, l) = ListOf(live, RowKey, l)
    <3>1. PICK k \in Matrix, i \in Variable : l = <<k, i>>
      OBVIOUS
    <3> QED BY <1>6, <1>7, <1>o, <3>1
  <2> QED BY <1>7, <1>h, <2>1, SameLinks
<1>10. Linked(columns, S, ColumnKey, {})
  <2>1. ASSUME NEW l \in (Matrix \X Variable) \ {}
        PROVE  \/ columns.head[l] = NULL /\ ListOf(S, ColumnKey, l) = {}
               \/ /\ l \notin {} /\ columns.head[l] = byColumn.head[l]
                  /\ ListOf(S, ColumnKey, l) = ListOf(live, ColumnKey, l)
    <3>1. PICK k \in Matrix, i \in Variable : l = <<k, i>>
      OBVIOUS
    <3> QED BY <1>6, <1>8, <1>o, <3>1
  <2> QED BY <1>8, <1>h, <2>1, SameLinks
<1>11. HeapLinked(ErasedRows, ErasedColumns)'
  <2>1. CellsUnique'
    BY <1>1, <1>h DEF CellsUnique, RowList, ColumnList
  <2>2. IsFiniteSet(S)
    BY <1>y, FS_Subset
  <2>3. HeapType'
    BY <1>1, <1>3, <1>y DEF HeapType
  <2> QED BY <1>1, <1>5, <1>9, <1>10, <1>k, <1>s, <2>1, <2>2, <2>3 DEF HeapLinked
<1>12. ScanInv' /\ SizesInv'
  BY <1>2 DEF ScanInv, SizesInv
<1>13. PivotInv' /\ FillInv'
  <2>1. Size * Size \in Int
    BY Constants
  <2> QED BY <1>y, <2>1 DEF PivotInv, FillInv
<1>14. CopyInv'
  <2>1. PICK R \in SUBSET S : R = ListOf(S, RowKey, <<m, 0>>)
    BY DEF ListOf
  <2>2. /\ InRow(m, 0)' = R
        /\ R = {d \in S : cell[d].row = 0}
    <3>1. InRow(m, 0)' = ListOf(live', RowKey', <<m, 0>>)
      BY <1>4, Keys, Typing, <1>y, <1>k, <1>s, <1>1 DEF InRow, ListOf, RowList
    <3>2. \A d \in S : cell[d].matrix = m
      BY <1>1, <1>s
    <3> QED BY <1>k, <1>s, <2>1, <3>1, <3>2 DEF ListOf
  <2>3. Chain(rows, R, cursor')
    <3>1. List(rows, R, <<m, 0>>)
      BY <1>9, <1>y, <2>1 DEF Linked
    <3> QED BY <1>1, <1>7, <1>y, <3>1 DEF List
  <2>4. R \in Left(byRow, InRow(op.matrix, op.source), cursor)'
    BY <1>1, <1>2, <2>2, <2>3 DEF Left
  <2>5. Uncopied(R)' = S
    <3>1. \A d \in S : cell[d].row = 0 \/ cell[d].row > 0
      BY <1>k DEF Variable
    <3>2. \A d \in S : cell[d].matrix = m
      BY <1>1, <1>s
    <3> QED BY <1>1, <1>2, <1>s, <2>2, <3>1, <3>2 DEF Uncopied
  <2>6. Cardinality({}) = 0
    BY FS_EmptySet
  <2>7. \A i \in Variable : /\ byRow.size[<<m, i>>] = Cardinality(ListOf(live, RowKey, <<m, i>>))
                            /\ byColumn.size[<<m, i>>] = Cardinality(ListOf(live, ColumnKey, <<m, i>>))
                            /\ byRow.size[<<m, i>>] \in Int /\ byColumn.size[<<m, i>>] \in Int
    BY <1>h, <1>y DEF Counted, ListsOK
  <2>8. CopyCounted(rows, S, RowKey, m, S)
    <3>1. ASSUME NEW i \in Variable
          PROVE  /\ rows.size[<<m, i>>] = Cardinality(ListOf(S, RowKey, <<m, i>>))
                 /\ rows.size[<<o, i>>] = rows.size[<<m, i>>]
                 /\ Cardinality(ListOf(S, RowKey, <<o, i>>))
                    + Cardinality(ListOf(S, RowKey, <<m, i>>)) = rows.size[<<m, i>>]
      <4>1. /\ ListOf(S, RowKey, <<m, i>>) = ListOf(live, RowKey, <<m, i>>)
            /\ ListOf(S, RowKey, <<o, i>>) = {}
        BY <1>6
      <4>2. rows.size[<<m, i>>] = Cardinality(ListOf(S, RowKey, <<m, i>>))
        BY <1>7, <2>7, <4>1
      <4>3. rows.size[<<m, i>>] \in Int
        BY <1>7, <2>7
      <4>4. rows.size[<<o, i>>] = rows.size[<<m, i>>]
        BY <1>7
      <4>5. Cardinality(ListOf(S, RowKey, <<o, i>>)) = 0
        BY <2>6, <4>1
      <4> QED BY <4>2, <4>3, <4>4, <4>5
    <3> QED BY <1>o, <3>1 DEF CopyCounted
  <2>9. CopyCounted(columns, S, ColumnKey, m, S)
    <3>1. ASSUME NEW i \in Variable
          PROVE  /\ columns.size[<<m, i>>] = Cardinality(ListOf(S, ColumnKey, <<m, i>>))
                 /\ columns.size[<<o, i>>] = columns.size[<<m, i>>]
                 /\ Cardinality(ListOf(S, ColumnKey, <<o, i>>))
                    + Cardinality(ListOf(S, ColumnKey, <<m, i>>)) = columns.size[<<m, i>>]
      <4>1. /\ ListOf(S, ColumnKey, <<m, i>>) = ListOf(live, ColumnKey, <<m, i>>)
            /\ ListOf(S, ColumnKey, <<o, i>>) = {}
        BY <1>6
      <4>2. columns.size[<<m, i>>] = Cardinality(ListOf(S, ColumnKey, <<m, i>>))
        BY <1>8, <2>7, <4>1
      <4>3. columns.size[<<m, i>>] \in Int
        BY <1>8, <2>7
      <4>4. columns.size[<<o, i>>] = columns.size[<<m, i>>]
        BY <1>8
      <4>5. Cardinality(ListOf(S, ColumnKey, <<o, i>>)) = 0
        BY <2>6, <4>1
      <4> QED BY <4>2, <4>3, <4>4, <4>5
    <3> QED BY <1>o, <3>1 DEF CopyCounted
  <2>10. Copying(R)'
    <3>1. \A d \in S : cell[d].matrix # Other(m)
      BY <1>1, <1>o, <1>s
    <3> QED BY <1>1, <1>2, <1>k, <1>s, <2>5, <2>8, <2>9, <3>1 DEF Copying
  <2> QED BY <2>4, <2>10 DEF CopyInv
<1> QED BY <1>4, <1>11, <1>12, <1>13, <1>14 DEF LinkedInv

-----------------------------------------------------------------------------
(***************************************************************************)
(* The calls that start a loop.                                            *)
(***************************************************************************)
\* A call that leaves the heap alone keeps what is said of the heap.
LEMMA SameHeap ==
  ASSUME LinkedInv, op.kind \in {"none", "addScaledRow", "addColumn"}, UNCHANGED heap,
         op' \in OpOK, op'.kind \in {"none", "addScaledRow", "addColumn"},
         cursor' \in Link, dense' \in [Variable -> Link], pivoting' \in PivotOK,
         basicVariables' \in [Matrix -> SUBSET Variable],
         dropped' \in [Matrix -> SUBSET Variable], filling' \in 0 .. Size * Size,
         stored' \in BOOLEAN, operations' \in 0 .. MaxOperations
  PROVE  TableauTypeOK' /\ HeapLinked(ErasedRows, ErasedColumns)' /\ SizesInv' /\ CopyInv'
<1>1. UNCHANGED <<live, cell, byRow, byColumn>>
  BY DEF heap
<1>2. TableauTypeOK'
  BY <1>1 DEF LinkedInv, TableauTypeOK
<1>3. /\ RowKey' = RowKey /\ ColumnKey' = ColumnKey /\ CellsUnique' = CellsUnique
      /\ HeapType' = HeapType
  BY <1>1 DEF RowKey, ColumnKey, RowList, ColumnList, CellsUnique, HeapType
<1>4. ErasedRows' = ErasedRows /\ ErasedColumns' = ErasedColumns
  BY DEF ErasedRows, ErasedColumns
<1>5. HeapLinked(ErasedRows, ErasedColumns)'
  BY <1>1, <1>3, <1>4 DEF LinkedInv, HeapLinked
<1>6. SizesInv'
  BY <1>1, <1>3, <1>4 DEF LinkedInv, SizesInv, HeapCounted
<1>7. CopyInv'
  BY DEF CopyInv
<1> QED BY <1>2, <1>5, <1>6, <1>7

\* The dense map of a row holds its entries, each at its column.
LEMMA DenseRows ==
  ASSUME HeapType, CellsUnique, NEW r \in Variable, NEW map, map = DenseRow(r)
  PROVE  /\ map \in [Variable -> Link]
         /\ \A c \in Variable : map[c] # NULL =>
              map[c] \in InRow("tableau", r) /\ cell[map[c]].column = c
         /\ \A d \in InRow("tableau", r) : map[cell[d].column] = d
<1>1. InRow("tableau", r) \subseteq live /\ live \subseteq Entry
  BY DEF InRow, HeapType
<1>2. ASSUME NEW c \in Variable
      PROVE  \/ map[c] \in InRow("tableau", r) /\ cell[map[c]].column = c
             \/ map[c] = NULL /\ \A e \in InRow("tableau", r) : cell[e].column # c
  BY DEF DenseRow
<1>3. map \in [Variable -> Link]
  BY <1>1 DEF DenseRow, Link
<1>4. ASSUME NEW d \in InRow("tableau", r)
      PROVE  map[cell[d].column] = d
  <2>1. PICK c \in Variable : c = cell[d].column
    BY <1>1, CellFacts
  <2>2. PICK e \in InRow("tableau", r) : e = map[c] /\ cell[e].column = c
    BY <1>2, <2>1
  <2>3. RowList(e) = RowList(d) /\ ColumnList(e) = ColumnList(d)
    BY <1>1, <2>1, <2>2 DEF InRow, RowList, ColumnList
  <2>4. e = d
    BY <1>1, <2>3 DEF CellsUnique
  <2> QED BY <2>1, <2>2, <2>4
<1> QED BY <1>2, <1>3, <1>4

\* And that of a column, each at its row.
LEMMA DenseColumns ==
  ASSUME HeapType, CellsUnique, NEW c \in Variable, NEW map, map = DenseColumn(c)
  PROVE  /\ map \in [Variable -> Link]
         /\ \A r \in Variable : map[r] # NULL =>
              map[r] \in InColumn("tableau", c) /\ cell[map[r]].row = r
         /\ \A d \in InColumn("tableau", c) : map[cell[d].row] = d
<1>1. InColumn("tableau", c) \subseteq live /\ live \subseteq Entry
  BY DEF InColumn, HeapType
<1>2. ASSUME NEW r \in Variable
      PROVE  \/ map[r] \in InColumn("tableau", c) /\ cell[map[r]].row = r
             \/ map[r] = NULL /\ \A e \in InColumn("tableau", c) : cell[e].row # r
  BY DEF DenseColumn
<1>3. map \in [Variable -> Link]
  BY <1>1 DEF DenseColumn, Link
<1>4. ASSUME NEW d \in InColumn("tableau", c)
      PROVE  map[cell[d].row] = d
  <2>1. PICK r \in Variable : r = cell[d].row
    BY <1>1, CellFacts
  <2>2. PICK e \in InColumn("tableau", c) : e = map[r] /\ cell[e].row = r
    BY <1>2, <2>1
  <2>3. RowList(e) = RowList(d) /\ ColumnList(e) = ColumnList(d)
    BY <1>1, <2>1, <2>2 DEF InColumn, RowList, ColumnList
  <2>4. e = d
    BY <1>1, <2>3 DEF CellsUnique
  <2> QED BY <2>1, <2>2, <2>4
<1> QED BY <1>2, <1>3, <1>4

\* While no list is being freed every row and every column is its list.
LEMMA WholeLists ==
  ASSUME LinkedInv, op.kind \notin {"eraseRow", "eraseColumn"}, NEW i \in Variable
  PROVE  /\ InRow("tableau", i) \in Left(byRow, InRow("tableau", i),
                                         byRow.head[<<"tableau", i>>])
         /\ InColumn("tableau", i) \in Left(byColumn, InColumn("tableau", i),
                                            byColumn.head[<<"tableau", i>>])
<1>1. "tableau" \in Matrix /\ ErasedRows = {} /\ ErasedColumns = {}
  BY DEF Matrix, ErasedRows, ErasedColumns
<1>2. ListsLinked
  BY HeapLists DEF LinkedInv
<1>3. List(byRow, InRow("tableau", i), <<"tableau", i>>)
  BY <1>1, <1>2 DEF ListsLinked
<1>4. List(byColumn, InColumn("tableau", i), <<"tableau", i>>)
  BY <1>1, <1>2 DEF ListsLinked
<1> QED BY <1>3, <1>4 DEF Left, List

\* What the call of addScaledRow may leave: nothing to do, or its first turn.
RowStarted(source, target, index, value) ==
  \/ op'.kind = "none"
  \/ /\ op'.kind = "addScaledRow" /\ op'.source = source /\ op'.target = target
     /\ op'.index = index /\ op'.value = value

\* addScaledRow up to its loop: the dense map holds the entries of the target.
LEMMA AddScaledRowBegins ==
  ASSUME LinkedInv, Returned, NEW source \in Variable, NEW target \in Variable,
         source # target, NEW scale \in Value, NEW index \in Variable, NEW value \in Value,
         AddScaledRow(source, scale, target, index, value), pivoting' \in PivotOK,
         basicVariables' \in [Matrix -> SUBSET Variable],
         UNCHANGED <<dropped, filling, stored>>, operations' \in 0 .. MaxOperations
  PROVE  /\ TableauTypeOK' /\ HeapLinked(ErasedRows, ErasedColumns)'
         /\ ScanInv' /\ CopyInv' /\ SizesInv'
         /\ RowStarted(source, target, index, value)
<1>y. /\ HeapType /\ CellsUnique /\ TableauTypeOK /\ op \in OpOK /\ cursor \in Link
      /\ dense \in [Variable -> Link] /\ byRow \in ListsOK /\ "tableau" \in Matrix
      /\ dropped' \in [Matrix -> SUBSET Variable] /\ filling' \in 0 .. Size * Size
      /\ stored' \in BOOLEAN /\ op.kind = "none" /\ UNCHANGED heap
  BY Typing DEF LinkedInv, HeapLinked, HeapType, Matrix, TableauTypeOK, Returned, AddScaledRow
<1>1. CASE byRow.head[<<"tableau", source>>] = NULL
  <2>1. UNCHANGED <<op, cursor, dense>>
    BY <1>1 DEF AddScaledRow
  <2>2. TableauTypeOK' /\ HeapLinked(ErasedRows, ErasedColumns)' /\ SizesInv' /\ CopyInv'
    BY <1>y, <2>1, SameHeap
  <2>3. ScanInv'
    BY <1>y, <2>1 DEF LinkedInv, ScanInv
  <2> QED BY <1>y, <2>1, <2>2, <2>3 DEF RowStarted
<1>2. CASE byRow.head[<<"tableau", source>>] # NULL
  <2>1. /\ op' = [kind |-> "addScaledRow", matrix |-> "tableau",
                  source |-> source, target |-> target, scale |-> scale,
                  index |-> index, value |-> value]
        /\ cursor' = byRow.head[<<"tableau", source>>]
        /\ dense' = DenseRow(target)
    BY <1>2 DEF AddScaledRow
  <2>2. op' \in OpOK /\ op'.kind = "addScaledRow"
    BY <1>y, <2>1 DEF OpOK
  <2>3. cursor' \in Link
    BY <1>y, <2>1 DEF ListsOK
  <2>4. PICK map : map = DenseRow(target)
    OBVIOUS
  <2>5. /\ dense' = map /\ map \in [Variable -> Link]
        /\ \A c \in Variable : map[c] # NULL =>
             map[c] \in InRow("tableau", target) /\ cell[map[c]].column = c
        /\ \A d \in InRow("tableau", target) : map[cell[d].column] = d
    BY <1>y, <2>1, <2>4, DenseRows
  <2>6. TableauTypeOK' /\ HeapLinked(ErasedRows, ErasedColumns)' /\ SizesInv' /\ CopyInv'
    BY <1>y, <2>2, <2>3, <2>5, SameHeap
  <2>7. RowScanned'
    <3>1. UNCHANGED <<live, cell, byRow>>
      BY <1>y DEF heap
    <3>2. PICK R, T \in SUBSET live : R = InRow("tableau", source) /\ T = InRow("tableau", target)
      BY DEF InRow
    <3>3. InRow("tableau", op.target)' = T /\ InRow("tableau", op.source)' = R
      BY <2>1, <3>1, <3>2 DEF InRow, RowList
    <3>4. Chain(byRow, R, byRow.head[<<"tableau", source>>])
      BY <1>y, <3>2, WholeLists DEF Left
    <3>5. R \in Left(byRow, InRow("tableau", op.source), cursor)'
      BY <2>1, <3>1, <3>3, <3>4 DEF Left
    <3>6. \A c \in Variable : dense'[c] # NULL => dense'[c] \in T /\ cell'[dense'[c]].column = c
      BY <2>5, <3>1, <3>2
    <3>7. \A e \in R, d \in T :
            cell'[d].column = cell'[e].column => dense'[cell'[e].column] = d
      BY <2>5, <3>1, <3>2
    <3> QED BY <3>3, <3>5, <3>6, <3>7 DEF RowScanned
  <2>8. ScanInv'
    BY <2>1, <2>7 DEF ScanInv
  <2> QED BY <2>1, <2>6, <2>8 DEF RowStarted
<1> QED BY <1>1, <1>2

\* addColumnEraseSource up to its loop.
LEMMA AddColumnBegins ==
  ASSUME LinkedInv, Returned, NEW source \in Variable, NEW target \in Variable,
         source # target, AddColumnEraseSource(source, target), pivoting' \in PivotOK,
         dropped' \in [Matrix -> SUBSET Variable],
         UNCHANGED <<basicVariables, filling, stored>>, operations' \in 0 .. MaxOperations
  PROVE  /\ TableauTypeOK' /\ HeapLinked(ErasedRows, ErasedColumns)'
         /\ ScanInv' /\ CopyInv' /\ SizesInv'
<1>y. /\ HeapType /\ CellsUnique /\ TableauTypeOK /\ op \in OpOK /\ cursor \in Link
      /\ dense \in [Variable -> Link] /\ byColumn \in ListsOK /\ "tableau" \in Matrix
      /\ basicVariables' \in [Matrix -> SUBSET Variable] /\ filling' \in 0 .. Size * Size
      /\ stored' \in BOOLEAN /\ op.kind = "none" /\ UNCHANGED heap /\ NoOp \in OpOK
  BY Typing DEF LinkedInv, HeapLinked, HeapType, Matrix, TableauTypeOK, Returned,
                AddColumnEraseSource
<1>1. CASE byColumn.head[<<"tableau", source>>] = NULL
  <2>1. UNCHANGED <<op, cursor, dense>>
    BY <1>1 DEF AddColumnEraseSource
  <2>2. TableauTypeOK' /\ HeapLinked(ErasedRows, ErasedColumns)' /\ SizesInv' /\ CopyInv'
    BY <1>y, <2>1, SameHeap
  <2>3. ScanInv'
    BY <1>y, <2>1 DEF LinkedInv, ScanInv
  <2> QED BY <2>2, <2>3
<1>2. CASE byColumn.head[<<"tableau", source>>] # NULL
  <2>1. /\ op' = [NoOp EXCEPT !.kind = "addColumn", !.source = source, !.target = target]
        /\ cursor' = byColumn.head[<<"tableau", source>>]
        /\ dense' = DenseColumn(target)
    BY <1>2 DEF AddColumnEraseSource
  <2>2. op' \in OpOK /\ op'.kind = "addColumn" /\ op'.source = source /\ op'.target = target
    BY <1>y, <2>1 DEF OpOK, NoOp
  <2>3. cursor' \in Link
    BY <1>y, <2>1 DEF ListsOK
  <2>4. PICK map : map = DenseColumn(target)
    OBVIOUS
  <2>5. /\ dense' = map /\ map \in [Variable -> Link]
        /\ \A r \in Variable : map[r] # NULL =>
             map[r] \in InColumn("tableau", target) /\ cell[map[r]].row = r
        /\ \A d \in InColumn("tableau", target) : map[cell[d].row] = d
    BY <1>y, <2>1, <2>4, DenseColumns
  <2>6. TableauTypeOK' /\ HeapLinked(ErasedRows, ErasedColumns)' /\ SizesInv' /\ CopyInv'
    BY <1>y, <2>2, <2>3, <2>5, SameHeap
  <2>7. ColumnScanned'
    <3>1. UNCHANGED <<live, cell, byColumn>>
      BY <1>y DEF heap
    <3>2. PICK R, T \in SUBSET live :
            R = InColumn("tableau", source) /\ T = InColumn("tableau", target)
      BY DEF InColumn
    <3>3. InColumn("tableau", op.target)' = T /\ InColumn("tableau", op.source)' = R
      BY <2>2, <3>1, <3>2 DEF InColumn, ColumnList
    <3>4. Chain(byColumn, R, byColumn.head[<<"tableau", source>>])
      BY <1>y, <3>2, WholeLists DEF Left
    <3>5. R \in Left(byColumn, InColumn("tableau", op.source), cursor)'
      BY <2>1, <3>1, <3>3, <3>4 DEF Left
    <3>6. \A r \in Variable : dense'[r] # NULL => dense'[r] \in T /\ cell'[dense'[r]].row = r
      BY <2>5, <3>1, <3>2
    <3>7. \A e \in R, d \in T :
            cell'[d].row = cell'[e].row => dense'[cell'[e].row] = d
      BY <2>5, <3>1, <3>2
    <3> QED BY <3>3, <3>5, <3>6, <3>7 DEF ColumnScanned
  <2>8. ScanInv'
    BY <2>2, <2>7 DEF ScanInv
  <2> QED BY <2>6, <2>8
<1> QED BY <1>1, <1>2

\* eraseRow up to its loop.
LEMMA EraseRowBegins ==
  ASSUME LinkedInv, Returned, NEW r \in Variable, EraseRow(r), pivoting' \in PivotOK,
         UNCHANGED client
  PROVE  /\ TableauTypeOK' /\ HeapLinked(ErasedRows, ErasedColumns)'
         /\ ScanInv' /\ CopyInv' /\ SizesInv'
<1>1. /\ op' = [NoOp EXCEPT !.kind = "eraseRow", !.source = r]
      /\ cursor' = byRow.head[<<"tableau", r>>]
      /\ UNCHANGED <<live, cell, byRow, byColumn, dense>>
      /\ UNCHANGED <<basicVariables, dropped, filling, stored, operations>>
  BY DEF EraseRow, heap, client
<1>2. op' \in OpOK /\ op'.kind = "eraseRow" /\ op'.source = r
  BY <1>1, Typing DEF LinkedInv, OpOK, NoOp
<1>y. /\ HeapType /\ byRow \in ListsOK /\ "tableau" \in Matrix /\ op.kind = "none"
      /\ <<"tableau", r>> \in Matrix \X Variable
  BY Typing DEF LinkedInv, HeapType, Matrix, Returned
<1>3. cursor' \in Link
  BY <1>1, <1>y DEF ListsOK
<1>4. TableauTypeOK'
  BY <1>1, <1>2, <1>3, Typing DEF LinkedInv, TableauTypeOK
<1>k. /\ RowKey' = RowKey /\ ColumnKey' = ColumnKey /\ CellsUnique' = CellsUnique
      /\ HeapType' = HeapType
  BY <1>1 DEF RowKey, ColumnKey, RowList, ColumnList, CellsUnique, HeapType
<1>h. /\ Linked(byRow, live, RowKey, {}) /\ Counted(byRow, live, RowKey, {})
      /\ Linked(byColumn, live, ColumnKey, {}) /\ Counted(byColumn, live, ColumnKey, {})
      /\ CellsUnique /\ IsFiniteSet(live)
  BY <1>y DEF LinkedInv, SizesInv, ErasedRows, ErasedColumns, HeapLinked, HeapCounted
<1>5. ErasedRows' = {<<"tableau", r>>} /\ ErasedColumns' = {}
  BY <1>2 DEF ErasedRows, ErasedColumns
<1>6. /\ Linked(byRow, live, RowKey, {<<"tableau", r>>})
      /\ Counted(byRow, live, RowKey, {<<"tableau", r>>})
  BY <1>h DEF Linked, Counted
<1>7. HeapLinked(ErasedRows, ErasedColumns)' /\ SizesInv'
  BY <1>1, <1>5, <1>6, <1>h, <1>k, <1>y DEF HeapLinked, SizesInv, HeapCounted
<1>8. Chain(byRow, InRow("tableau", r), cursor')
  BY <1>1, <1>y, WholeLists DEF Left
<1>9. ScanInv' /\ CopyInv'
  <2>1. InRow("tableau", r)' = InRow("tableau", r)
    BY <1>1 DEF InRow, RowList
  <2> QED BY <1>1, <1>2, <1>8, <2>1 DEF ScanInv, CopyInv
<1> QED BY <1>4, <1>7, <1>9

-----------------------------------------------------------------------------
(***************************************************************************)
(* Reluplex::pivot.                                                        *)
(***************************************************************************)
\* A call finds the rows written.
LEMMA NotWriting ==
  ASSUME LinkedInv, Call \/ filling = Size * Size, filling' = filling
  PROVE  FillInv'
<1>1. Size * Size \in Int /\ filling = Size * Size
  BY Constants DEF Call
<1> QED BY <1>1 DEF FillInv

\* The variables of a pivot differ, and its loop has not begun.
LEMMA PivotKeeps ==
  ASSUME LinkedInv, NEW nb \in Variable, NEW b \in Variable, NEW k \in Value \ {0},
         Pivot(nb, b, k)
  PROVE  LinkedInv'
<1>1. /\ Returned /\ b # nb /\ MinusOne \in Value /\ k \in Value
      /\ AddScaledRow(b, k, nb, nb, MinusOne)
      /\ pivoting' = [NoPivot EXCEPT !.stage = "moved", !.nonBasic = nb, !.basic = b]
      /\ UNCHANGED <<dropped, filling, stored>>
      /\ operations' = operations + 1 /\ operations < MaxOperations
  BY Constants DEF Pivot, Call, Calls, Idle
<1>2. pivoting' \in PivotOK /\ pivoting'.stage = "moved"
  BY <1>1, Constants DEF PivotOK, NoPivot, Link
<1>3. basicVariables' \in [Matrix -> SUBSET Variable]
  <2>1. basicVariables \in [Matrix -> SUBSET Variable]
    BY DEF LinkedInv, TableauTypeOK
  <2>2. basicVariables' = [basicVariables EXCEPT !["tableau"]
          = (basicVariables["tableau"] \ {b}) \union {nb}]
    BY DEF Pivot
  <2>3. (basicVariables["tableau"] \ {b}) \union {nb} \in SUBSET Variable
    BY <2>1 DEF Matrix
  <2> QED BY <2>1, <2>2, <2>3
<1>4. operations' \in 0 .. MaxOperations
  BY <1>1, Constants DEF LinkedInv, TableauTypeOK
<1>5. /\ TableauTypeOK' /\ HeapLinked(ErasedRows, ErasedColumns)'
      /\ ScanInv' /\ CopyInv' /\ SizesInv'
  BY <1>1, <1>2, <1>3, <1>4, AddScaledRowBegins
<1>6. PivotInv'
  BY <1>2 DEF PivotInv
<1>7. FillInv'
  BY <1>1, NotWriting DEF Pivot
<1> QED BY <1>5, <1>6, <1>7 DEF LinkedInv

\* pivot erases the row of the variable that leaves the basis.
LEMMA PivotEraseRowKeeps ==
  ASSUME LinkedInv, PivotEraseRow
  PROVE  LinkedInv'
<1>1. /\ Returned /\ EraseRow(pivoting.basic) /\ UNCHANGED client /\ filling' = filling
      /\ pivoting' = [pivoting EXCEPT !.stage = "erased"] /\ pivoting.stage = "moved"
  BY DEF PivotEraseRow, client
<1>2. pivoting' \in PivotOK /\ pivoting'.stage = "erased" /\ pivoting.basic \in Variable
  BY <1>1, Typing DEF LinkedInv, PivotOK
<1>3. /\ TableauTypeOK' /\ HeapLinked(ErasedRows, ErasedColumns)'
      /\ ScanInv' /\ CopyInv' /\ SizesInv'
  BY <1>1, <1>2, EraseRowBegins
<1>4. PivotInv' /\ FillInv'
  BY <1>1, <1>2, NotFilling DEF LinkedInv, PivotInv
<1> QED BY <1>3, <1>4 DEF LinkedInv

\* The cursor of pivot starts at the head of the entering variable's column.
LEMMA PivotReadColumnKeeps ==
  ASSUME LinkedInv, PivotReadColumn
  PROVE  LinkedInv'
<1>y. /\ TableauTypeOK /\ pivoting \in PivotOK /\ pivoting.nonBasic \in Variable
      /\ op \in OpOK /\ op.kind = "none" /\ cursor \in Link /\ dense \in [Variable -> Link]
      /\ byColumn \in ListsOK /\ "tableau" \in Matrix /\ pivoting.stage = "erased"
  BY Typing DEF LinkedInv, HeapType, Matrix, PivotReadColumn, Returned
<1>1. /\ pivoting' = [pivoting EXCEPT !.stage = "column",
           !.cursor = byColumn.head[<<"tableau", pivoting.nonBasic>>]]
      /\ UNCHANGED <<heap, op, cursor, dense>>
      /\ UNCHANGED <<basicVariables, dropped, filling, stored, operations>>
  BY DEF PivotReadColumn, client
<1>2. PICK nb \in Variable : nb = pivoting.nonBasic
  BY <1>y
<1>3. byColumn.head[<<"tableau", nb>>] \in Link
  BY <1>y DEF ListsOK
<1>4. /\ pivoting' \in PivotOK /\ pivoting'.stage = "column" /\ pivoting'.nonBasic = nb
      /\ pivoting'.cursor = byColumn.head[<<"tableau", nb>>]
  BY <1>y, <1>1, <1>2, <1>3 DEF PivotOK
<1>5. TableauTypeOK' /\ HeapLinked(ErasedRows, ErasedColumns)' /\ SizesInv' /\ CopyInv'
  BY <1>y, <1>1, <1>4, SameHeap DEF TableauTypeOK
<1>6. ScanInv'
  BY <1>y, <1>1 DEF LinkedInv, ScanInv
<1>7. PivotInv'
  <2>1. PICK R \in SUBSET live : R = InColumn("tableau", nb)
    BY DEF InColumn
  <2>2. Chain(byColumn, R, byColumn.head[<<"tableau", nb>>])
    BY <1>y, <2>1, WholeLists DEF Left
  <2>3. UNCHANGED <<live, cell, byColumn>>
    BY <1>1 DEF heap
  <2>4. InColumn("tableau", pivoting.nonBasic)' = R
    BY <1>4, <2>1, <2>3 DEF InColumn, ColumnList
  <2>5. R \in Left(byColumn, InColumn("tableau", pivoting.nonBasic), pivoting.cursor)'
    BY <1>4, <2>2, <2>3, <2>4 DEF Left
  <2>6. ToClear(R)'
    BY <1>y, <1>1 DEF ToClear
  <2> QED BY <2>5, <2>6 DEF PivotInv
<1>8. FillInv'
  BY <1>y, <1>1, NotFilling DEF LinkedInv
<1> QED BY <1>5, <1>6, <1>7, <1>8 DEF LinkedInv

\* A turn of pivot's loop: the cells cleared before it are not in the rows to
\* come, and the row it starts to clear holds the entry it leaves.
LEMMA PivotClearCellKeeps ==
  ASSUME LinkedInv, PivotClearCell
  PROVE  LinkedInv'
<1>y. /\ TableauTypeOK /\ pivoting \in PivotOK /\ pivoting.nonBasic \in Variable
      /\ op \in OpOK /\ op.kind = "none" /\ cursor \in Link /\ dense \in [Variable -> Link]
      /\ byColumn \in ListsOK /\ "tableau" \in Matrix /\ pivoting.stage = "column"
      /\ HeapType /\ CellsUnique /\ live \in SUBSET Entry /\ NULL \notin Entry
      /\ NoPivot \in PivotOK
  BY Typing DEF LinkedInv, HeapLinked, HeapType, Matrix, PivotClearCell, Returned
<1>c. UNCHANGED <<basicVariables, dropped, filling, stored, operations>> /\ Returned
  BY DEF PivotClearCell, client
<1>e. /\ basicVariables' \in [Matrix -> SUBSET Variable]
      /\ dropped' \in [Matrix -> SUBSET Variable] /\ filling' \in 0 .. Size * Size
      /\ stored' \in BOOLEAN /\ operations' \in 0 .. MaxOperations
  BY <1>y, <1>c DEF TableauTypeOK
<1>f. FillInv'
  BY <1>y, <1>c, NotFilling DEF LinkedInv
<1>n. PICK nb \in Variable : nb = pivoting.nonBasic
  BY <1>y
<1>p. PICK current \in Link : current = pivoting.cursor
  BY <1>y, Typing
<1>1. CASE current = NULL
  <2>1. pivoting' = NoPivot /\ UNCHANGED <<heap, op, cursor, dense>> /\ pivoting'.stage = "none"
    BY <1>1, <1>p DEF PivotClearCell, NoPivot
  <2>2. TableauTypeOK' /\ HeapLinked(ErasedRows, ErasedColumns)' /\ SizesInv' /\ CopyInv'
    BY <1>y, <1>e, <2>1, SameHeap
  <2>3. ScanInv' /\ PivotInv'
    BY <1>y, <2>1 DEF LinkedInv, ScanInv, PivotInv
  <2> QED BY <1>f, <2>2, <2>3 DEF LinkedInv
<1>2. CASE current # NULL
  <2>1. PICK Q \in Left(byColumn, InColumn("tableau", nb), current) : TRUE
    BY <1>y, <1>n, <1>p DEF LinkedInv, PivotInv
  <2>2. Q \subseteq live /\ Q \subseteq InColumn("tableau", nb) /\ Chain(byColumn, Q, current)
    BY <2>1 DEF Left, InColumn
  <2>3. PICK S \in SUBSET Q : S = Q \ {current}
    OBVIOUS
  <2>4. current \in Q /\ Chain(byColumn, S, byColumn.next[current])
    BY <1>2, <1>y, <2>2, <2>3, ChainTail
  <2>5. PICK row \in Variable : row = cell[current].row
    BY <1>y, <2>2, <2>4, CellFacts
  <2>6. PICK next \in Link : next = byColumn.next[current]
    BY <1>y, <2>2, <2>4 DEF ListsOK
  <2>7. pivoting' = [pivoting EXCEPT !.cursor = next]
    BY <1>2, <1>p, <2>6 DEF PivotClearCell
  <2>8. /\ pivoting' \in PivotOK /\ pivoting'.stage = "column" /\ pivoting'.nonBasic = nb
        /\ pivoting'.cursor = next
    BY <1>y, <1>n, <2>7 DEF PivotOK
  <2>9. \A e \in S : cell[e].row # row
    <3>1. ASSUME NEW e \in S, cell[e].row = row
          PROVE  FALSE
      <4>1. e \in InColumn("tableau", nb) /\ current \in InColumn("tableau", nb)
            /\ e \in live /\ current \in live /\ e # current
        BY <2>2, <2>3, <2>4
      <4>2. ColumnList(e) = ColumnList(current)
        BY <4>1 DEF InColumn
      <4>3. cell[e].matrix = cell[current].matrix
        BY <4>2 DEF ColumnList
      <4>4. RowList(e) = RowList(current)
        BY <2>5, <3>1, <4>3 DEF RowList
      <4> QED BY <1>y, <4>1, <4>2, <4>4 DEF CellsUnique
    <3> QED BY <3>1
  <2>10. UNCHANGED <<live, cell, byRow, byColumn>>
    BY DEF PivotClearCell, AddScaledRow, heap
  <2>11. S \in Left(byColumn, InColumn("tableau", pivoting.nonBasic), pivoting.cursor)'
    <3>1. PICK R : R = InColumn("tableau", nb)
      OBVIOUS
    <3>2. InColumn("tableau", pivoting.nonBasic)' = R
      BY <2>8, <2>10, <3>1 DEF InColumn, ColumnList
    <3> QED BY <2>2, <2>3, <2>4, <2>6, <2>8, <2>10, <3>1, <3>2 DEF Left
  <2>12. CASE row = nb
    <3>1. UNCHANGED <<heap, op, cursor, dense>>
      BY <1>2, <1>n, <1>p, <2>5, <2>12 DEF PivotClearCell
    <3>2. TableauTypeOK' /\ HeapLinked(ErasedRows, ErasedColumns)' /\ SizesInv' /\ CopyInv'
      BY <1>y, <1>e, <2>8, <3>1, SameHeap
    <3>3. ScanInv' /\ ToClear(S)'
      BY <1>y, <3>1 DEF LinkedInv, ScanInv, ToClear
    <3> QED BY <1>f, <2>11, <3>2, <3>3 DEF LinkedInv, PivotInv
  <2>13. CASE row # nb
    <3>1. PICK k \in Value : k = cell[current].value
      BY <1>y, <2>2, <2>4, CellFacts
    <3>2. AddScaledRow(nb, k, row, nb, 0)
      BY <1>2, <1>n, <1>p, <2>5, <2>13, <3>1 DEF PivotClearCell
    <3>3. 0 \in Value
      BY Constants
    <3>4. /\ TableauTypeOK' /\ HeapLinked(ErasedRows, ErasedColumns)'
          /\ ScanInv' /\ CopyInv' /\ SizesInv' /\ RowStarted(nb, row, nb, 0)
      BY <1>c, <1>e, <2>8, <2>13, <3>2, <3>3, AddScaledRowBegins
    <3>5. ToClear(S)'
      BY <2>8, <2>9, <2>10, <3>4 DEF ToClear, RowStarted
    <3> QED BY <1>f, <2>11, <3>4, <3>5 DEF LinkedInv, PivotInv
  <2> QED BY <2>12, <2>13
<1> QED BY <1>1, <1>2

-----------------------------------------------------------------------------
(***************************************************************************)
(* The other calls.                                                        *)
(***************************************************************************)
LEMMA UnifyReluPairKeeps ==
  ASSUME LinkedInv, NEW pair \in Pairs, UnifyReluPair(pair[1], pair[2])
  PROVE  LinkedInv'
<1>1. PICK b, f \in Variable : b = pair[1] /\ f = pair[2] /\ b # f
  BY Constants
<1>2. /\ Returned /\ pivoting.stage = "none" /\ AddColumnEraseSource(b, f)
      /\ dropped' = [dropped EXCEPT !["tableau"] = dropped["tableau"] \union {b}]
      /\ UNCHANGED <<pivoting, basicVariables, filling, stored>>
      /\ operations' = operations + 1 /\ operations < MaxOperations
  BY <1>1 DEF UnifyReluPair, Call, Calls, Idle
<1>3. /\ dropped' \in [Matrix -> SUBSET Variable] /\ operations' \in 0 .. MaxOperations
      /\ pivoting' \in PivotOK
  BY <1>1, <1>2, Constants DEF LinkedInv, TableauTypeOK, Matrix
<1>4. /\ TableauTypeOK' /\ HeapLinked(ErasedRows, ErasedColumns)'
      /\ ScanInv' /\ CopyInv' /\ SizesInv'
  BY <1>1, <1>2, <1>3, AddColumnBegins
<1>5. PivotInv'
  BY <1>2 DEF PivotInv
<1>6. FillInv'
  BY <1>2, NotWriting DEF UnifyReluPair
<1> QED BY <1>4, <1>5, <1>6 DEF LinkedInv

\* eliminateIfPossible erases the column of an auxiliary variable.
LEMMA EliminateKeeps ==
  ASSUME LinkedInv, NEW aux \in Variable, Eliminate(aux)
  PROVE  LinkedInv'
<1>1. /\ op.kind = "none" /\ pivoting.stage = "none" /\ EraseColumn(aux)
      /\ dropped' = [dropped EXCEPT !["tableau"] = dropped["tableau"] \union {aux}]
      /\ UNCHANGED <<pivoting, filling, stored>> /\ UNCHANGED basicVariables
      /\ operations' = operations + 1 /\ operations < MaxOperations
  BY DEF Eliminate, Call, Calls, Idle, Returned
<1>2. /\ dropped' \in [Matrix -> SUBSET Variable] /\ operations' \in 0 .. MaxOperations
  BY <1>1, Constants DEF LinkedInv, TableauTypeOK, Matrix
<1>3. /\ TableauTypeOK' /\ HeapLinked(ErasedRows, ErasedColumns)'
      /\ ScanInv' /\ CopyInv' /\ SizesInv'
  BY <1>1, <1>2, EraseColumnBegins
<1>4. PivotInv'
  BY <1>1 DEF PivotInv
<1>5. FillInv'
  BY <1>1, NotWriting DEF Eliminate
<1> QED BY <1>3, <1>4, <1>5 DEF LinkedInv

\* storePreprocessedMatrix copies the tableau.
LEMMA StoreKeeps ==
  ASSUME LinkedInv, StorePreprocessedMatrix
  PROVE  LinkedInv'
<1>1. /\ Idle /\ filling = Size * Size /\ BackupIntoMatrix("tableau")
      /\ UNCHANGED <<pivoting, filling>> /\ operations' = operations /\ stored' = TRUE
      /\ basicVariables' = [m \in Matrix |-> basicVariables["tableau"]]
      /\ dropped' = [m \in Matrix |-> dropped["tableau"]]
  BY DEF StorePreprocessedMatrix
<1>2. /\ basicVariables' \in [Matrix -> SUBSET Variable] /\ stored' \in BOOLEAN
      /\ dropped' \in [Matrix -> SUBSET Variable] /\ operations' \in 0 .. MaxOperations
      /\ "tableau" \in Matrix
  BY <1>1 DEF LinkedInv, TableauTypeOK, Matrix
<1> QED BY <1>1, <1>2, CopyBegins

\* restoreTableauFromBackup copies the preprocessed matrix back.
LEMMA RestoreKeeps ==
  ASSUME LinkedInv, RestoreTableauFromBackup
  PROVE  LinkedInv'
<1>1. /\ Idle /\ filling = Size * Size /\ BackupIntoMatrix("preprocessed")
      /\ UNCHANGED <<pivoting, filling>> /\ stored' = stored
      /\ operations' = operations + 1 /\ operations < MaxOperations
      /\ basicVariables' = [m \in Matrix |-> basicVariables["preprocessed"]]
      /\ dropped' = [m \in Matrix |-> dropped["preprocessed"]]
  BY DEF RestoreTableauFromBackup, Call, Calls
<1>2. /\ basicVariables' \in [Matrix -> SUBSET Variable] /\ stored' \in BOOLEAN
      /\ dropped' \in [Matrix -> SUBSET Variable] /\ operations' \in 0 .. MaxOperations
      /\ "preprocessed" \in Matrix
  BY <1>1, Constants DEF LinkedInv, TableauTypeOK, Matrix
<1> QED BY <1>1, <1>2, CopyBegins

\* The index of a cell is below the number of cells.
LEMMA Division ==
  ASSUME NEW n \in Nat \ {0}, NEW f \in Nat, f < n * n,
         NEW q \in Int, NEW c \in 0 .. n - 1, q * n + c = f
  PROVE  q \in 0 .. n - 1
<1>5. q >= 0
  <2>1. CASE q < 0
    <3>1. q * n <= -n
      BY <2>1
    <3>2. q * n \in Int
      OBVIOUS
    <3> QED BY <3>1, <3>2
  <2> QED BY <2>1
<1>6. q < n
  <2>1. CASE q >= n
    <3>1. q * n >= n * n
      BY <2>1
    <3>2. q * n \in Int /\ n * n \in Int
      OBVIOUS
    <3> QED BY <3>1, <3>2
  <2> QED BY <2>1
<1> QED BY <1>5, <1>6

\* The cell to fill is empty: the rows are written in order.
LEMMA FillCellKeeps ==
  ASSUME LinkedInv, FillCell
  PROVE  LinkedInv'
<1>y. /\ TableauTypeOK /\ pivoting \in PivotOK /\ op \in OpOK /\ op.kind = "none"
      /\ cursor \in Link /\ dense \in [Variable -> Link] /\ "tableau" \in Matrix
      /\ HeapType /\ live \in SUBSET Entry /\ pivoting.stage = "none" /\ cursor = NULL
  BY Typing DEF LinkedInv, Matrix, FillCell, Idle, Returned, ScanInv
<1>1. /\ filling < Size * Size /\ filling' = filling + 1
      /\ UNCHANGED <<op, cursor, dense, pivoting>>
      /\ UNCHANGED <<basicVariables, dropped, stored, operations>>
  BY DEF FillCell, locals
<1>s. Size \in Nat \ {0} /\ filling \in Nat /\ Size * Size \in Nat
  BY <1>y, Constants DEF TableauTypeOK
<1>2. PICK r, c : r = filling \div Size /\ c = filling % Size
  OBVIOUS
<1>d. r \in Variable /\ c \in Variable /\ r * Size + c = filling
  <2>1. PICK n, f : n = Size /\ f = filling
    OBVIOUS
  <2>2. n \in Nat \ {0} /\ f \in Nat /\ f < n * n /\ r = f \div n /\ c = f % n
    BY <1>1, <1>2, <1>s, <2>1
  <2>3. r \in Int /\ c \in 0 .. n - 1
    BY <2>2
  <2>4. r * n + c = f
    BY <2>2
  <2>5. r \in 0 .. n - 1
    BY <2>2, <2>3, <2>4, Division
  <2> QED BY <2>1, <2>3, <2>4, <2>5 DEF Variable
<1>3. PICK v \in Value : AddEntry("tableau", r, c, v)
  <2>1. {0} \subseteq Value /\ {MinusOne} \subseteq Value
        /\ GlpkWeight \subseteq Value /\ Weight \subseteq Value
    BY Constants
  <2> QED BY <1>2, <1>d, <2>1 DEF FillCell
<1>4. /\ filling' \in 0 .. Size * Size /\ basicVariables' \in [Matrix -> SUBSET Variable]
      /\ dropped' \in [Matrix -> SUBSET Variable] /\ stored' \in BOOLEAN
      /\ operations' \in 0 .. MaxOperations
  BY <1>y, <1>1, <1>s DEF TableauTypeOK
<1>5. Idle' /\ PivotInv' /\ CopyInv' /\ ScanInv'
  BY <1>y, <1>1 DEF Idle, Returned, PivotInv, CopyInv, ScanInv
<1>i. \A e \in live : cell[e].matrix = "tableau" =>
        /\ cell[e].row * Size + cell[e].column < filling
        /\ cell[e].row * Size + cell[e].column \in Int
  <2>1. ASSUME NEW e \in live
        PROVE  cell[e].row * Size + cell[e].column \in Int
    <3>1. cell[e].row \in Int /\ cell[e].column \in Int
      BY <1>y, CellFacts DEF Variable
    <3> QED BY <1>s, <3>1
  <2> QED BY <1>1, <2>1 DEF LinkedInv, FillInv
<1>6. CASE v = 0
  <2>1. UNCHANGED heap /\ UNCHANGED <<live, cell>>
    BY <1>3, <1>6 DEF AddEntry, heap
  <2>2. TableauTypeOK' /\ HeapLinked(ErasedRows, ErasedColumns)' /\ SizesInv'
    BY <1>y, <1>1, <1>4, <2>1, SameHeap
  <2>3. FillInv'
    BY <1>1, <1>5, <1>i, <1>s, <2>1 DEF FillInv
  <2> QED BY <1>5, <2>2, <2>3 DEF LinkedInv
<1>7. CASE v # 0
  <2>1. PICK none : /\ none = {} /\ HeapLinked(none, none) /\ HeapCounted(none, none)
                    /\ ErasedRows' = none /\ ErasedColumns' = none
    BY <1>y, <1>1 DEF LinkedInv, SizesInv, ErasedRows, ErasedColumns
  <2>2. ASSUME NEW d \in live, RowList(d) = <<"tableau", r>>, ColumnList(d) = <<"tableau", c>>
        PROVE  FALSE
    <3>1. cell[d].matrix = "tableau" /\ cell[d].row = r /\ cell[d].column = c
      BY <2>2 DEF RowList, ColumnList
    <3> QED BY <1>d, <1>i, <1>s, <3>1
  <2>3. /\ HeapLinked(none, none)' /\ HeapCounted(none, none)' /\ Inserted("tableau", r, c, v)
    <3>1. <<"tableau", r>> \notin none /\ <<"tableau", c>> \notin none /\ v \in Value \ {0}
      BY <1>7, <2>1
    <3> QED BY <1>3, <1>d, <1>y, <2>1, <2>2, <3>1, AddEntryLinks
  <2>4. HeapLinked(ErasedRows, ErasedColumns)' /\ SizesInv' /\ HeapType'
    BY <2>1, <2>3 DEF SizesInv, HeapLinked, HeapCounted
  <2>5. TableauTypeOK'
    BY <1>y, <1>1, <1>4, <2>4 DEF TableauTypeOK, HeapType
  <2>6. PICK e \in Entry \ live :
          /\ live' = live \union {e}
          /\ cell' = [cell EXCEPT ![e] = [matrix |-> "tableau", row |-> r, column |-> c,
                                          value |-> v]]
    BY <2>3 DEF Inserted
  <2>7. /\ cell'[e].row = r /\ cell'[e].column = c
        /\ \A d \in live : cell'[d] = cell[d]
    BY <1>y, <2>6 DEF HeapType
  <2>8. ASSUME NEW d \in live', cell'[d].matrix = "tableau"
        PROVE  cell'[d].row * Size + cell'[d].column < filling'
    <3>1. CASE d = e
      <4> QED BY <1>1, <1>d, <1>s, <2>7, <3>1
    <3>2. CASE d # e
      <4>1. d \in live /\ cell'[d] = cell[d]
        BY <2>6, <2>7, <3>2
      <4> QED BY <1>1, <1>i, <1>s, <2>8, <4>1
    <3> QED BY <3>1, <3>2
  <2>9. FillInv'
    BY <1>5, <2>8 DEF FillInv
  <2> QED BY <1>5, <2>4, <2>5, <2>9 DEF LinkedInv
<1> QED BY <1>6, <1>7

\* T is S without the entries of a matrix.
WithoutLists(S, T, key, m) ==
  \A i \in Variable :
    /\ ListOf(T, key, <<m, i>>) = {}
    /\ ListOf(T, key, <<Other(m), i>>) = ListOf(S, key, <<Other(m), i>>)

\* A matrix without entries has no lists, and the other one keeps its own.
LEMMA DeletedFamily ==
  ASSUME NEW lists \in ListsOK, NEW S, NEW T, NEW key, NEW m \in Matrix, NEW ls,
         ls = {m} \X Variable, Linked(lists, S, key, {}), Counted(lists, S, key, {}),
         WithoutLists(S, T, key, m)
  PROVE  /\ Reset(lists, ls) \in ListsOK
         /\ Linked(Reset(lists, ls), T, key, {})
         /\ Counted(Reset(lists, ls), T, key, {})
<1>1. PICK new : new = Reset(lists, ls)
  OBVIOUS
<1>2. /\ new \in ListsOK /\ new.next = lists.next /\ new.prev = lists.prev
      /\ \A k \in Matrix \X Variable :
           /\ new.head[k] = IF k \in ls THEN NULL ELSE lists.head[k]
           /\ new.size[k] = IF k \in ls THEN 0 ELSE lists.size[k]
  BY <1>1 DEF Reset, ListsOK, Link
<1>3. ASSUME NEW k \in (Matrix \X Variable) \ {}
      PROVE  \/ k \in ls /\ ListOf(T, key, k) = {}
             \/ k \notin ls /\ ListOf(T, key, k) = ListOf(S, key, k)
  <2>1. PICK n \in Matrix, i \in Variable : k = <<n, i>>
    OBVIOUS
  <2>2. n = m \/ (n = Other(m) /\ n # m)
    BY OtherMatrix
  <2> QED BY <2>1, <2>2 DEF WithoutLists
<1>4. Linked(new, T, key, {})
  <2>1. \A k \in (Matrix \X Variable) \ {} :
           \/ new.head[k] = NULL /\ ListOf(T, key, k) = {}
           \/ /\ k \notin {} /\ new.head[k] = lists.head[k]
              /\ ListOf(T, key, k) = ListOf(S, key, k)
    BY <1>2, <1>3
  <2> QED BY <1>2, <2>1, SameLinks
<1>5. Counted(new, T, key, {})
  <2>1. Cardinality({}) = 0
    BY FS_EmptySet
  <2>2. ASSUME NEW k \in (Matrix \X Variable) \ {}
        PROVE  new.size[k] = Cardinality(ListOf(T, key, k))
    BY <1>2, <1>3, <2>1 DEF Counted
  <2> QED BY <2>2 DEF Counted
<1> QED BY <1>1, <1>2, <1>4, <1>5

\* The rows are written again from the first cell, into no entries.
LEMMA ExtractTableauKeeps ==
  ASSUME LinkedInv, ExtractTableau
  PROVE  LinkedInv'
<1>y. /\ TableauTypeOK /\ op.kind = "none" /\ pivoting.stage = "none"
      /\ "tableau" \in Matrix /\ HeapType /\ live \in SUBSET Entry
      /\ byRow \in ListsOK /\ byColumn \in ListsOK /\ Size * Size \in Nat
      /\ IsFiniteSet(live)
  BY Typing, Constants DEF LinkedInv, HeapLinked, HeapType, Matrix, ExtractTableau, Call,
                           Idle, Returned
<1>1. /\ live' = {e \in live : cell[e].matrix # "tableau"}
      /\ byRow' = Reset(byRow, {"tableau"} \X Variable)
      /\ byColumn' = Reset(byColumn, {"tableau"} \X Variable)
      /\ UNCHANGED <<cell, op, cursor, dense, pivoting, dropped, stored>>
      /\ filling' = 0 /\ operations' = operations + 1 /\ operations < MaxOperations
  BY DEF ExtractTableau, DeleteAllEntries, locals, Call, Calls
<1>2. basicVariables' \in [Matrix -> SUBSET Variable]
  <2>1. PICK B \in SUBSET Variable : basicVariables' = [basicVariables EXCEPT !["tableau"] = B]
    BY DEF ExtractTableau
  <2> QED BY <1>y, <2>1 DEF TableauTypeOK
<1>h. /\ Linked(byRow, live, RowKey, {}) /\ Counted(byRow, live, RowKey, {})
      /\ Linked(byColumn, live, ColumnKey, {}) /\ Counted(byColumn, live, ColumnKey, {})
      /\ CellsUnique
  BY <1>y DEF LinkedInv, SizesInv, ErasedRows, ErasedColumns, HeapLinked, HeapCounted
<1>k. /\ RowKey' = RowKey /\ ColumnKey' = ColumnKey
      /\ \A e \in live : /\ RowKey[e] = <<cell[e].matrix, cell[e].row>>
                         /\ ColumnKey[e] = <<cell[e].matrix, cell[e].column>>
  BY <1>y, <1>1, CellFacts DEF RowKey, ColumnKey, RowList, ColumnList
<1>s. PICK S \in SUBSET live : S = live'
  BY <1>1
<1>m. PICK m, ls : m \in Matrix /\ m = "tableau" /\ ls = {m} \X Variable
  BY <1>y
<1>3. WithoutLists(live, S, RowKey, m) /\ WithoutLists(live, S, ColumnKey, m)
  BY <1>1, <1>k, <1>m, <1>s, OtherMatrix DEF ListOf, WithoutLists
<1>4. byRow' = Reset(byRow, ls) /\ byColumn' = Reset(byColumn, ls)
  BY <1>1, <1>m
<1>5. /\ byRow' \in ListsOK /\ Linked(byRow', S, RowKey, {}) /\ Counted(byRow', S, RowKey, {})
  BY <1>3, <1>4, <1>h, <1>m, <1>y, DeletedFamily
<1>6. /\ byColumn' \in ListsOK /\ Linked(byColumn', S, ColumnKey, {})
      /\ Counted(byColumn', S, ColumnKey, {})
  BY <1>3, <1>4, <1>h, <1>m, <1>y, DeletedFamily
<1>7. HeapType' /\ IsFiniteSet(S)
  BY <1>1, <1>5, <1>6, <1>s, <1>y, FS_Subset DEF HeapType
<1>8. CellsUnique'
  BY <1>1, <1>h DEF CellsUnique, RowList, ColumnList
<1>9. ErasedRows' = {} /\ ErasedColumns' = {}
  BY <1>y, <1>1 DEF ErasedRows, ErasedColumns
<1>10. HeapLinked(ErasedRows, ErasedColumns)' /\ SizesInv'
  BY <1>5, <1>6, <1>7, <1>8, <1>9, <1>k, <1>s DEF HeapLinked, SizesInv, HeapCounted
<1>11. TableauTypeOK'
  BY <1>1, <1>2, <1>7, <1>y, Constants DEF TableauTypeOK, HeapType
<1>12. ScanInv' /\ CopyInv' /\ PivotInv'
  BY <1>1, <1>y DEF LinkedInv, ScanInv, CopyInv, PivotInv
<1>13. FillInv'
  BY <1>1, <1>y DEF FillInv, Idle, Returned
<1> QED BY <1>10, <1>11, <1>12, <1>13 DEF LinkedInv

-----------------------------------------------------------------------------
(***************************************************************************)
(* The invariant holds at first and is kept by every step.                 *)
(***************************************************************************)
LEMMA LinkedInit ==
  ASSUME Init
  PROVE  LinkedInv
<1>1. /\ live = {} /\ byRow = Empty /\ byColumn = Empty
      /\ op = NoOp /\ cursor = NULL /\ dense = NoDense /\ pivoting = NoPivot
      /\ filling = 0 /\ op.kind = "none" /\ pivoting.stage = "none"
  BY DEF Init, NoOp, NoPivot
<1>2. Empty \in ListsOK
  BY DEF Empty, ListsOK, Link
<1>3. HeapType
  <2>1. cell \in [Entry -> CellOK]
    BY Constants DEF Init, CellOK, Matrix
  <2> QED BY <1>1, <1>2, <2>1 DEF HeapType
<1>4. TableauTypeOK
  <2>1. Size * Size \in Nat
    BY Constants
  <2>2. basicVariables \in [Matrix -> SUBSET Variable] /\ dropped \in [Matrix -> SUBSET Variable]
    BY Constants DEF Init
  <2>3. filling \in 0 .. Size * Size /\ stored \in BOOLEAN /\ operations \in 0 .. MaxOperations
    <3>1. filling = 0 /\ operations = 0 /\ stored = FALSE
      BY DEF Init
    <3>2. \A n \in Nat : 0 \in 0 .. n
      OBVIOUS
    <3> QED BY <2>1, <3>1, <3>2, Constants
  <2>4. /\ op \in OpOK /\ cursor \in Link /\ dense \in [Variable -> Link]
        /\ pivoting \in PivotOK
    BY <1>1, Constants DEF NoOp, NoDense, NoPivot, OpOK, PivotOK, Link, Matrix
  <2> QED BY <1>3, <2>2, <2>3, <2>4 DEF TableauTypeOK, HeapType
<1>5. /\ Linked(byRow, live, RowKey, {}) /\ Linked(byColumn, live, ColumnKey, {})
      /\ Counted(byRow, live, RowKey, {}) /\ Counted(byColumn, live, ColumnKey, {})
  <2>1. Cardinality({}) = 0
    BY FS_EmptySet
  <2>2. \A l \in Matrix \X Variable : Empty.head[l] = NULL /\ Empty.size[l] = 0
    BY DEF Empty
  <2>3. \A key : \A l \in Matrix \X Variable : ListOf(live, key, l) = {}
    BY <1>1 DEF ListOf
  <2>4. Chain(Empty, {}, NULL)
    BY DEF Chain
  <2>5. \A l \in Matrix \X Variable : List(Empty, {}, l)
    BY <2>2, <2>4 DEF List
  <2>6. Linked(byRow, live, RowKey, {}) /\ Linked(byColumn, live, ColumnKey, {})
    BY <1>1, <2>3, <2>5 DEF Linked
  <2>7. Counted(byRow, live, RowKey, {}) /\ Counted(byColumn, live, ColumnKey, {})
    BY <1>1, <2>1, <2>2, <2>3 DEF Counted
  <2> QED BY <2>6, <2>7
<1>6. ErasedRows = {} /\ ErasedColumns = {}
  BY <1>1 DEF ErasedRows, ErasedColumns
<1>7. IsFiniteSet(live) /\ CellsUnique
  BY <1>1, FS_EmptySet DEF CellsUnique
<1>8. HeapLinked(ErasedRows, ErasedColumns) /\ SizesInv
  BY <1>3, <1>5, <1>6, <1>7 DEF HeapLinked, SizesInv, HeapCounted
<1>9. ScanInv /\ CopyInv /\ PivotInv /\ FillInv
  BY <1>1 DEF ScanInv, CopyInv, PivotInv, FillInv, Idle, Returned
<1> QED BY <1>4, <1>8, <1>9 DEF LinkedInv

\* A step that changes nothing.
LEMMA LinkedStutter ==
  ASSUME LinkedInv, UNCHANGED vars
  PROVE  LinkedInv'
<1>1. UNCHANGED <<live, cell, byRow, byColumn, op, cursor, dense, pivoting, basicVariables,
                  dropped, filling, stored, operations>>
  BY DEF vars, heap, locals, client
<1>2. TableauTypeOK'
  BY <1>1 DEF LinkedInv, TableauTypeOK
<1>3. /\ RowKey' = RowKey /\ ColumnKey' = ColumnKey /\ CellsUnique' = CellsUnique
      /\ HeapType' = HeapType /\ ErasedRows' = ErasedRows /\ ErasedColumns' = ErasedColumns
  BY <1>1 DEF RowKey, ColumnKey, RowList, ColumnList, CellsUnique, HeapType, ErasedRows,
              ErasedColumns
<1>4. HeapLinked(ErasedRows, ErasedColumns)' /\ SizesInv'
  BY <1>1, <1>3 DEF LinkedInv, HeapLinked, SizesInv, HeapCounted
<1>5. ScanInv'
  <2>1. InRow("tableau", op.source)' = InRow("tableau", op.source)
        /\ InColumn("tableau", op.source)' = InColumn("tableau", op.source)
    BY <1>1 DEF InRow, InColumn, RowList, ColumnList
  <2>2. RowScanned' = RowScanned /\ ColumnScanned' = ColumnScanned
    BY <1>1 DEF RowScanned, ColumnScanned, InRow, InColumn, RowList, ColumnList, Left
  <2> QED BY <1>1, <2>1, <2>2 DEF LinkedInv, ScanInv
<1>6. CopyInv'
  <2>1. SUFFICES ASSUME op.kind = "copy"
                 PROVE  \E Q \in Left(byRow, InRow(op.matrix, op.source), cursor)' : Copying(Q)'
    BY <1>1 DEF CopyInv
  <2>2. PICK Q \in Left(byRow, InRow(op.matrix, op.source), cursor) : Copying(Q)
    BY <2>1 DEF LinkedInv, CopyInv
  <2>3. Q \in Left(byRow, InRow(op.matrix, op.source), cursor)'
    BY <1>1, <2>2 DEF Left, InRow, RowList
  <2>4. Uncopied(Q)' = Uncopied(Q)
    BY <1>1 DEF Uncopied
  <2>5. /\ CopyCounted(byRow, live, RowKey, op.matrix, Uncopied(Q))'
        /\ CopyCounted(byColumn, live, ColumnKey, op.matrix, Uncopied(Q))'
    BY <1>1, <1>3, <2>2, <2>4 DEF Copying
  <2>6. Copying(Q)'
    BY <1>1, <2>2, <2>5 DEF Copying
  <2> QED BY <2>3, <2>6
<1>7. PivotInv'
  BY <1>1 DEF LinkedInv, PivotInv, ToClear, Left, InColumn, ColumnList
<1>8. FillInv'
  BY <1>1 DEF LinkedInv, FillInv, Idle, Returned
<1> QED BY <1>2, <1>4, <1>5, <1>6, <1>7, <1>8 DEF LinkedInv

\* One step per operation.
LEMMA LinkedNext ==
  ASSUME LinkedInv, [Next]_vars
  PROVE  LinkedInv'
<1>1. CASE Loop
  <2>1. UNCHANGED <<pivoting, client>>
    BY <1>1 DEF Loop
  <2>2. CASE EraseRowStep
    BY <2>1, <2>2, EraseRowStepKeeps
  <2>3. CASE EraseColumnStep
    BY <2>1, <2>3, EraseColumnStepKeeps
  <2>4. CASE AddScaledRowStep
    BY <2>1, <2>4, AddScaledRowStepKeeps
  <2>5. CASE AddColumnStep
    BY <2>1, <2>5, AddColumnStepKeeps
  <2>6. CASE CopyStep
    BY <2>1, <2>6, CopyStepKeeps
  <2> QED BY <1>1, <2>2, <2>3, <2>4, <2>5, <2>6 DEF Loop
<1>2. CASE PivotEraseRow
  BY <1>2, PivotEraseRowKeeps
<1>3. CASE PivotReadColumn
  BY <1>3, PivotReadColumnKeeps
<1>4. CASE PivotClearCell
  BY <1>4, PivotClearCellKeeps
<1>5. CASE FillCell
  BY <1>5, FillCellKeeps
<1>6. CASE ExtractTableau
  BY <1>6, ExtractTableauKeeps
<1>7. ASSUME NEW nb \in Variable, NEW b \in Variable, NEW k \in Value \ {0}, Pivot(nb, b, k)
      PROVE  LinkedInv'
  BY <1>7, PivotKeeps
<1>8. ASSUME NEW pair \in Pairs, UnifyReluPair(pair[1], pair[2])
      PROVE  LinkedInv'
  BY <1>8, UnifyReluPairKeeps
<1>9. ASSUME NEW aux \in Variable, Eliminate(aux)
      PROVE  LinkedInv'
  BY <1>9, EliminateKeeps
<1>10. CASE StorePreprocessedMatrix
  BY <1>10, StoreKeeps
<1>11. CASE RestoreTableauFromBackup
  BY <1>11, RestoreKeeps
<1>12. CASE UNCHANGED vars
  BY <1>12, LinkedStutter
<1> QED BY <1>1, <1>2, <1>3, <1>4, <1>5, <1>6, <1>7, <1>8, <1>9, <1>10, <1>11, <1>12
        DEF Next, Step, Client

\* The invariant holds in every state of every behaviour.
THEOREM LinkedInvariant == Spec => []LinkedInv
<1>1. Init => LinkedInv
  BY LinkedInit
<1>2. LinkedInv /\ [Next]_vars => LinkedInv'
  BY LinkedNext
<1> QED BY <1>1, <1>2, PTL DEF Spec

-----------------------------------------------------------------------------
(***************************************************************************)
(* The properties of the runs.                                             *)
(***************************************************************************)
\* Every variable of the tableau keeps its type.
THEOREM TableauTypeCorrect == Spec => []TableauTypeOK
<1>1. LinkedInv => TableauTypeOK
  BY DEF LinkedInv
<1> QED BY <1>1, LinkedInvariant, PTL

\* Through every loop of Tableau.h that erases, moves or adds entries, the rows
\* and columns stay the doubly linked lists of their entries.
THEOREM ListsStayLinked == Spec => []ListsLinked
<1>1. LinkedInv => ListsLinked
  BY HeapLists DEF LinkedInv
<1> QED BY <1>1, LinkedInvariant, PTL

\* Never do two entries share a cell: whoever calls addEntry knows that the
\* entry "does not currently exist" (Tableau.h).
THEOREM CellsStayUnique == Spec => []CellsUnique
<1>1. LinkedInv => CellsUnique
  BY DEF LinkedInv, HeapLinked
<1> QED BY <1>1, LinkedInvariant, PTL

\* No loop, and not pivot, which keeps its place in a column while
\* addScaledRow edits that column, ever stands on an entry that was deleted,
\* nor does a dense map name one.
THEOREM CursorsStayLive == Spec => []CursorsLive
<1>1. ASSUME LinkedInv
      PROVE  CursorsLive
  <2>1. ScanInv /\ CopyInv /\ PivotInv
    BY <1>1 DEF LinkedInv
  <2>2. op.kind = "copy" => RowsCopied
    BY <2>1 DEF CopyInv, Copying, RowsCopied
  <2>3. pivoting.stage = "column" =>
          Left(byColumn, InColumn("tableau", pivoting.nonBasic), pivoting.cursor) # {}
    BY <2>1 DEF PivotInv
  <2> QED BY <2>1, <2>2, <2>3 DEF CursorsLive, ScanInv
<1> QED BY <1>1, LinkedInvariant, PTL

\* The sizes that unifyReluPair and the drivers read count the entries.
THEOREM SizesStayRight == Spec => []SizesRight
<1>1. ASSUME LinkedInv, op.kind \in {"none", "addScaledRow", "addColumn"},
             NEW m \in Matrix, NEW i \in Variable
      PROVE  /\ byRow.size[<<m, i>>] = Cardinality(InRow(m, i))
             /\ byColumn.size[<<m, i>>] = Cardinality(InColumn(m, i))
  <2>1. HeapType /\ HeapCounted(ErasedRows, ErasedColumns)
        /\ ErasedRows = {} /\ ErasedColumns = {}
    BY <1>1 DEF LinkedInv, HeapLinked, SizesInv, ErasedRows, ErasedColumns
  <2>2. /\ InRow(m, i) = ListOf(live, RowKey, <<m, i>>)
        /\ InColumn(m, i) = ListOf(live, ColumnKey, <<m, i>>)
    BY <2>1, Keys
  <2>3. <<m, i>> \in (Matrix \X Variable) \ {}
    OBVIOUS
  <2>4. /\ byRow.size[<<m, i>>] = Cardinality(ListOf(live, RowKey, <<m, i>>))
        /\ byColumn.size[<<m, i>>] = Cardinality(ListOf(live, ColumnKey, <<m, i>>))
    BY <2>1, <2>3 DEF HeapCounted, Counted
  <2> QED BY <2>2, <2>4
<1>2. LinkedInv => SizesRight
  BY <1>1 DEF SizesRight
<1> QED BY <1>2, LinkedInvariant, PTL

-----------------------------------------------------------------------------
(***************************************************************************)
(* The invariant: in the middle of an operation the cells are those before *)
(* the call, in W, where a loop has still to come, and those of the result *)
(* where it has been.  A loop that is not running has an empty list left.  *)
(***************************************************************************)
Cells == [Variable -> [Variable -> Value]]
Now(r, c) == Cell("tableau", r, c)

ColumnLeft(Q, c) == \E e \in Q : cell[e].column = c
RowLeft(Q, r) == \E e \in Q : cell[e].row = r

NewRow(W, nb, b, k, c) == IF c = nb THEN MinusOne ELSE Times(k, W[b][c])
Pivoted(W, nb, b, k, r, c) ==
  IF r = nb THEN NewRow(W, nb, b, k, c)
  ELSE IF r = b \/ c = nb THEN 0
  ELSE Plus(W[r][c], Times(W[r][nb], NewRow(W, nb, b, k, c)))

\* The row of the leaving variable is copied, scaled, into that of the entering one.
Moving(W, nb, b, k) ==
  /\ pivoting.stage = "moved" /\ op.kind \in {"none", "addScaledRow"}
  /\ op.kind = "addScaledRow" =>
       /\ op.source = b /\ op.target = nb
       /\ op.scale = k /\ op.index = nb /\ op.value = MinusOne
  /\ \E Q \in Left(byRow, InRow("tableau", b), cursor) : \A r, c \in Variable :
       Now(r, c) = IF r # nb THEN W[r][c]
                   ELSE IF ColumnLeft(Q, c) THEN 0 ELSE NewRow(W, nb, b, k, c)

\* The row of the leaving variable is erased.
Leaving(W, nb, b, k) ==
  /\ pivoting.stage = "erased" /\ op.kind \in {"none", "eraseRow"}
  /\ op.kind = "eraseRow" => op.source = b
  /\ op.kind = "none" => InRow("tableau", b) = {}
  /\ \A r, c \in Variable : r # b =>
       Now(r, c) = IF r = nb THEN NewRow(W, nb, b, k, c) ELSE W[r][c]

\* The column of the entering variable is cleared, row by row.
Clearing(W, nb, b, k) ==
  /\ pivoting.stage = "column" /\ op.kind \in {"none", "addScaledRow"}
  /\ InRow("tableau", b) = {}
  /\ \E P \in Left(byColumn, InColumn("tableau", nb), pivoting.cursor),
        Q \in Left(byRow, InRow("tableau", nb), cursor) :
       /\ op.kind = "addScaledRow" =>
            /\ op.source = nb /\ op.target \notin {nb, b} /\ ~RowLeft(P, op.target)
            /\ op.scale = W[op.target][nb] /\ op.index = nb /\ op.value = 0
       /\ \A r, c \in Variable :
            Now(r, c) = IF \/ r = op.target /\ ColumnLeft(Q, c)
                           \/ r # nb /\ RowLeft(P, r)
                        THEN W[r][c] ELSE Pivoted(W, nb, b, k, r, c)

Pivoting(W) ==
  \E nb, b \in Variable, k \in Value :
    /\ pivoting.nonBasic = nb /\ pivoting.basic = b
    /\ nb # b /\ W[b][nb] # 0
    /\ Moving(W, nb, b, k) \/ Leaving(W, nb, b, k) \/ Clearing(W, nb, b, k)

\* A column is added to another one.
Merging(W) ==
  /\ pivoting.stage = "none" /\ op.kind = "addColumn"
  /\ \E Q \in Left(byColumn, InColumn("tableau", op.source), cursor) :
       \A r, c \in Variable : c # op.source \/ RowLeft(Q, r) =>
         Now(r, c) = IF c = op.target /\ ~RowLeft(Q, r)
                     THEN Plus(W[r][c], W[r][op.source]) ELSE W[r][c]

\* A column is erased, after it was added to column f, or not if that is itself.
Erasing(W) ==
  /\ pivoting.stage = "none" /\ op.kind = "eraseColumn"
  /\ \E f \in Variable : \A r, c \in Variable : c # op.source =>
       Now(r, c) = IF c = f THEN Plus(W[r][c], W[r][op.source]) ELSE W[r][c]

\* A matrix is copied into the other one.
Copied ==
  /\ pivoting.stage = "none" /\ op.kind = "copy"
  /\ basicVariables["tableau"] = basicVariables["preprocessed"]
  /\ \E Q \in Left(byRow, InRow(op.matrix, op.source), cursor) :
       \A m \in Matrix, r, c \in Variable :
         Cell(m, r, c) =
           IF m # op.matrix /\ (r > op.source \/ (r = op.source /\ ColumnLeft(Q, c)))
           THEN 0 ELSE before[op.matrix][r][c]

\* Only basic variables have a row, but for the one that pivot is about to erase.
RowsBasic ==
  /\ \A e \in live :
       \/ cell[e].row \in basicVariables[cell[e].matrix]
       \/ /\ cell[e].matrix = "tableau" /\ cell[e].row = pivoting.basic
          /\ pivoting.stage = "moved" \/ (pivoting.stage = "erased" /\ op.kind = "eraseRow")
  /\ op.kind = "addScaledRow" => op.target \in basicVariables["tableau"]

SavedLeft ==
  ~Idle /\ op.kind # "copy" =>
    \A r, c \in Variable : Cell("preprocessed", r, c) = before["preprocessed"][r][c]

MatrixInv ==
  /\ before \in [Matrix -> Cells]
  /\ RowsBasic /\ SavedLeft
  /\ \E W \in {before["tableau"]} :
       Idle \/ Pivoting(W) \/ Merging(W) \/ Erasing(W) \/ Copied

-----------------------------------------------------------------------------
(***************************************************************************)
(* Lists.  What is left of a list is one set: its first member decides.    *)
(***************************************************************************)
LEMMA ChainWithin ==
  ASSUME NEW lists, NEW Q, NEW R, NULL \notin Q, NEW first,
         Chain(lists, Q, first), Chain(lists, R, first)
  PROVE  Q \subseteq R
<1> SUFFICES ASSUME Q \ R # {} PROVE FALSE
  OBVIOUS
<1>1. PICK T : T = Q \ R
  OBVIOUS
<1>2. T \in SUBSET Q /\ T # {}
  BY <1>1
<1>3. PICK e \in T : lists.prev[e] \notin T
  BY <1>2 DEF Chain
<1>4. first \in R /\ e \in Q /\ e # first
  BY <1>1 DEF Chain
<1>5. PICK d \in Q : d = lists.prev[e] /\ lists.next[d] = e
  BY <1>4 DEF Chain
<1>6. d \in R
  BY <1>1, <1>3, <1>5
<1>7. e \in R \/ e = NULL
  BY <1>5, <1>6 DEF Chain
<1> QED BY <1>1, <1>4, <1>7

\* Two chains with one first member are one chain.
LEMMA ChainUnique ==
  ASSUME NEW lists, NEW Q, NEW R, NULL \notin Q, NULL \notin R, NEW first,
         Chain(lists, Q, first), Chain(lists, R, first)
  PROVE  Q = R
<1>1. Q \subseteq R
  BY ChainWithin
<1>2. R \subseteq Q
  BY ChainWithin
<1> QED BY <1>1, <1>2

\* A loop whose cursor is NULL has nothing left.
LEMMA NothingLeft ==
  ASSUME NEW lists, NEW R, NULL \notin R
  PROVE  /\ {} \in Left(lists, R, NULL)
         /\ \A Q \in Left(lists, R, NULL) : Q = {}
BY DEF Left, Chain

(***************************************************************************)
(* Cells.  A cell has the value of the entry placed there, or is zero.     *)
(***************************************************************************)
PlacedAt(e, m, r, c) == cell[e].matrix = m /\ cell[e].row = r /\ cell[e].column = c

LEMMA Reading ==
  ASSUME HeapType, CellsUnique,
         NEW m \in Matrix, NEW r \in Variable, NEW c \in Variable
  PROVE  /\ \A e \in live : PlacedAt(e, m, r, c) => Cell(m, r, c) = cell[e].value
         /\ (\A e \in live : ~PlacedAt(e, m, r, c)) => Cell(m, r, c) = 0
         /\ Cell(m, r, c) \in Value
<1>1. InRow(m, r) = {e \in live : cell[e].matrix = m /\ cell[e].row = r}
  BY Keys
<1>2. \A e, d \in live : PlacedAt(e, m, r, c) /\ PlacedAt(d, m, r, c) => e = d
  BY DEF CellsUnique, RowList, ColumnList, PlacedAt
<1>3. CASE \E e \in live : PlacedAt(e, m, r, c)
  <2>1. PICK e \in live : PlacedAt(e, m, r, c)
    BY <1>3
  <2>2. e \in InRow(m, r) /\ cell[e].column = c
    BY <1>1, <2>1 DEF PlacedAt
  <2>3. PICK d : d = CHOOSE x \in InRow(m, r) : cell[x].column = c
    OBVIOUS
  <2>4. d \in InRow(m, r) /\ cell[d].column = c
    BY <2>2, <2>3
  <2>5. d = e
    BY <1>1, <1>2, <2>1, <2>4 DEF PlacedAt
  <2>6. Cell(m, r, c) = cell[e].value
    BY <2>2, <2>3, <2>5 DEF Cell
  <2>7. cell[e].value \in Value
    BY CellFacts DEF HeapType
  <2> QED BY <1>2, <2>1, <2>6, <2>7
<1>4. CASE \A e \in live : ~PlacedAt(e, m, r, c)
  <2>1. ~\E e \in InRow(m, r) : cell[e].column = c
    BY <1>1, <1>4 DEF PlacedAt
  <2>2. Cell(m, r, c) = 0
    BY <2>1 DEF Cell
  <2> QED BY <1>4, <2>2, Constants
<1> QED BY <1>3, <1>4

\* The same in the next state.
LEMMA ReadingNext ==
  ASSUME HeapType', CellsUnique',
         NEW m \in Matrix, NEW r \in Variable, NEW c \in Variable
  PROVE  /\ \A e \in live' : PlacedAt(e, m, r, c)' => Cell(m, r, c)' = cell'[e].value
         /\ (\A e \in live' : ~PlacedAt(e, m, r, c)') => Cell(m, r, c)' = 0
         /\ Cell(m, r, c)' \in Value
<1>1. InRow(m, r)' = {e \in live' : cell'[e].matrix = m /\ cell'[e].row = r}
  BY DEF HeapType, InRow, RowList
<1>2. \A e, d \in live' : PlacedAt(e, m, r, c)' /\ PlacedAt(d, m, r, c)' => e = d
  BY DEF CellsUnique, RowList, ColumnList, PlacedAt
<1>3. CASE \E e \in live' : PlacedAt(e, m, r, c)'
  <2>1. PICK e \in live' : PlacedAt(e, m, r, c)'
    BY <1>3
  <2>2. e \in InRow(m, r)' /\ cell'[e].column = c
    BY <1>1, <2>1 DEF PlacedAt
  <2>3. PICK d : d = CHOOSE x \in InRow(m, r)' : cell'[x].column = c
    OBVIOUS
  <2>4. d \in InRow(m, r)' /\ cell'[d].column = c
    BY <2>2, <2>3
  <2>5. d = e
    BY <1>1, <1>2, <2>1, <2>4 DEF PlacedAt
  <2>6. Cell(m, r, c)' = cell'[e].value
    BY <2>2, <2>3, <2>5 DEF Cell
  <2>7. cell'[e].value \in Value
    BY DEF HeapType, CellOK
  <2> QED BY <1>2, <2>1, <2>6, <2>7
<1>4. CASE \A e \in live' : ~PlacedAt(e, m, r, c)'
  <2>1. ~\E e \in InRow(m, r)' : cell'[e].column = c
    BY <1>1, <1>4 DEF PlacedAt
  <2>2. Cell(m, r, c)' = 0
    BY <2>1 DEF Cell
  <2> QED BY <1>4, <2>2, Constants
<1> QED BY <1>3, <1>4

(***************************************************************************)
(* One cell changes.                                                       *)
(***************************************************************************)
Sets(m, r, c, v) ==
  \A n \in Matrix, i, j \in Variable :
    Cell(n, i, j)' = IF n = m /\ i = r /\ j = c THEN v ELSE Cell(n, i, j)
SameCells == \A n \in Matrix, i, j \in Variable : Cell(n, i, j)' = Cell(n, i, j)

\* Cells are read from live entries and their contents.
LEMMA CellKept ==
  ASSUME HeapType, CellsUnique, HeapType', CellsUnique',
         NEW n \in Matrix, NEW i \in Variable, NEW j \in Variable,
         \A e \in live : PlacedAt(e, n, i, j) => e \in live' /\ cell'[e] = cell[e],
         \A e \in live' : PlacedAt(e, n, i, j)' => e \in live /\ cell'[e] = cell[e]
  PROVE  Cell(n, i, j)' = Cell(n, i, j)
<1>1. CASE \E e \in live : PlacedAt(e, n, i, j)
  <2>1. PICK e \in live : PlacedAt(e, n, i, j)
    BY <1>1
  <2>2. e \in live' /\ cell'[e] = cell[e] /\ PlacedAt(e, n, i, j)'
    BY <2>1 DEF PlacedAt
  <2>3. Cell(n, i, j) = cell[e].value /\ Cell(n, i, j)' = cell'[e].value
    BY <2>1, <2>2, Reading, ReadingNext
  <2> QED BY <2>2, <2>3
<1>2. CASE \A e \in live : ~PlacedAt(e, n, i, j)
  <2>1. \A e \in live' : ~PlacedAt(e, n, i, j)'
    BY <1>2 DEF PlacedAt
  <2>2. Cell(n, i, j) = 0 /\ Cell(n, i, j)' = 0
    BY <1>2, <2>1, Reading, ReadingNext
  <2> QED BY <2>2
<1> QED BY <1>1, <1>2

\* A step that leaves the entries alone leaves the cells alone.
LEMMA SameRead ==
  ASSUME UNCHANGED <<live, cell>>
  PROVE  SameCells
BY DEF SameCells, Cell, InRow, RowList

\* A new entry gives its cell the value.
LEMMA InsertedSets ==
  ASSUME HeapType, CellsUnique, HeapType', CellsUnique',
         NEW m \in Matrix, NEW r \in Variable, NEW c \in Variable, NEW v \in Value,
         NEW e \in Entry \ live, live' = live \union {e},
         cell' = [cell EXCEPT ![e] = [matrix |-> m, row |-> r, column |-> c, value |-> v]]
  PROVE  Sets(m, r, c, v)
<1>1. /\ cell'[e] = [matrix |-> m, row |-> r, column |-> c, value |-> v]
      /\ \A d \in live : cell'[d] = cell[d]
  BY DEF HeapType
<1>2. PlacedAt(e, m, r, c)'
  BY <1>1 DEF PlacedAt
<1> SUFFICES ASSUME NEW n \in Matrix, NEW i \in Variable, NEW j \in Variable
             PROVE  Cell(n, i, j)' = IF n = m /\ i = r /\ j = c THEN v ELSE Cell(n, i, j)
  BY DEF Sets
<1>3. CASE n = m /\ i = r /\ j = c
  <2>1. Cell(n, i, j)' = cell'[e].value
    BY <1>2, <1>3, ReadingNext
  <2> QED BY <1>1, <1>3, <2>1
<1>4. CASE ~(n = m /\ i = r /\ j = c)
  <2>1. ~PlacedAt(e, n, i, j)'
    BY <1>1, <1>4 DEF PlacedAt
  <2>2. \A d \in live : PlacedAt(d, n, i, j) => d \in live' /\ cell'[d] = cell[d]
    BY <1>1
  <2>3. \A d \in live' : PlacedAt(d, n, i, j)' => d \in live /\ cell'[d] = cell[d]
    BY <1>1, <2>1
  <2> QED BY <1>4, <2>2, <2>3, CellKept
<1> QED BY <1>3, <1>4

\* A deleted one makes it zero.
LEMMA FreedSets ==
  ASSUME HeapType, CellsUnique, HeapType', CellsUnique',
         NEW e \in live, live' = live \ {e}, cell' = cell,
         NEW m \in Matrix, NEW r \in Variable, NEW c \in Variable, PlacedAt(e, m, r, c)
  PROVE  Sets(m, r, c, 0)
<1> SUFFICES ASSUME NEW n \in Matrix, NEW i \in Variable, NEW j \in Variable
             PROVE  Cell(n, i, j)' = IF n = m /\ i = r /\ j = c THEN 0 ELSE Cell(n, i, j)
  BY DEF Sets
<1>1. CASE n = m /\ i = r /\ j = c
  <2>1. \A d \in live' : ~PlacedAt(d, m, r, c)'
    <3>1. \A d \in live : PlacedAt(d, m, r, c) => d = e
      BY DEF CellsUnique, RowList, ColumnList, PlacedAt
    <3> QED BY <3>1 DEF PlacedAt
  <2> QED BY <1>1, <2>1, ReadingNext
<1>2. CASE ~(n = m /\ i = r /\ j = c)
  <2>1. ~PlacedAt(e, n, i, j)
    BY <1>2 DEF PlacedAt
  <2>2. \A d \in live : PlacedAt(d, n, i, j) => d \in live' /\ cell'[d] = cell[d]
    BY <2>1
  <2>3. \A d \in live' : PlacedAt(d, n, i, j)' => d \in live /\ cell'[d] = cell[d]
    OBVIOUS
  <2> QED BY <1>2, <2>2, <2>3, CellKept
<1> QED BY <1>1, <1>2

\* A new value, deleted when it is zero, replaces the old one.
LEMMA AssignedSets ==
  ASSUME HeapType, CellsUnique, HeapType', CellsUnique',
         NEW e \in live, NEW v \in Value,
         live' = IF v = 0 THEN live \ {e} ELSE live,
         cell' = [cell EXCEPT ![e] = [cell[e] EXCEPT !.value = v]],
         NEW m \in Matrix, NEW r \in Variable, NEW c \in Variable, PlacedAt(e, m, r, c)
  PROVE  Sets(m, r, c, v)
<1>1. /\ cell'[e].matrix = m /\ cell'[e].row = r /\ cell'[e].column = c /\ cell'[e].value = v
      /\ \A d \in live : d # e => cell'[d] = cell[d]
  BY DEF HeapType, CellOK, PlacedAt
<1> SUFFICES ASSUME NEW n \in Matrix, NEW i \in Variable, NEW j \in Variable
             PROVE  Cell(n, i, j)' = IF n = m /\ i = r /\ j = c THEN v ELSE Cell(n, i, j)
  BY DEF Sets
<1>2. CASE n = m /\ i = r /\ j = c /\ v = 0
  <2>1. \A d \in live' : ~PlacedAt(d, m, r, c)'
    <3>1. \A d \in live : PlacedAt(d, m, r, c) => d = e
      BY DEF CellsUnique, RowList, ColumnList, PlacedAt
    <3>2. \A d \in live' : d \in live /\ d # e
      BY <1>2
    <3> QED BY <1>1, <3>1, <3>2 DEF PlacedAt
  <2> QED BY <1>2, <2>1, ReadingNext
<1>3. CASE n = m /\ i = r /\ j = c /\ v # 0
  <2>1. e \in live' /\ PlacedAt(e, m, r, c)'
    BY <1>1, <1>3 DEF PlacedAt
  <2>2. Cell(m, r, c)' = cell'[e].value
    BY <2>1, ReadingNext
  <2> QED BY <1>1, <1>3, <2>2
<1>4. CASE ~(n = m /\ i = r /\ j = c)
  <2>1. ~PlacedAt(e, n, i, j) /\ ~PlacedAt(e, n, i, j)'
    BY <1>1, <1>4 DEF PlacedAt
  <2>2. \A d \in live : d # e => (d \in live' /\ cell'[d] = cell[d])
    BY <1>1
  <2>3. \A d \in live' : d # e => (d \in live /\ cell'[d] = cell[d])
    BY <1>1
  <2> QED BY <1>4, <2>1, <2>2, <2>3, CellKept
<1> QED BY <1>2, <1>3, <1>4

\* An entry moved to an empty cell of its row.
LEMMA MovedSets ==
  ASSUME HeapType, CellsUnique, HeapType', CellsUnique',
         NEW e \in live, live' = live,
         NEW m \in Matrix, NEW r \in Variable, NEW c \in Variable, PlacedAt(e, m, r, c),
         NEW f \in Variable \ {c},
         cell' = [cell EXCEPT ![e] = [cell[e] EXCEPT !.column = f]]
  PROVE  \A n \in Matrix, i, j \in Variable :
           Cell(n, i, j)' = IF n = m /\ i = r /\ j = f THEN cell[e].value
                            ELSE IF n = m /\ i = r /\ j = c THEN 0 ELSE Cell(n, i, j)
<1>1. /\ cell'[e].matrix = m /\ cell'[e].row = r /\ cell'[e].column = f
      /\ cell'[e].value = cell[e].value
      /\ \A d \in live : d # e => cell'[d] = cell[d]
  BY DEF HeapType, CellOK, PlacedAt
<1> TAKE n \in Matrix, i, j \in Variable
<1>2. CASE n = m /\ i = r /\ j = f
  <2>1. PlacedAt(e, m, r, f)'
    BY <1>1 DEF PlacedAt
  <2>2. Cell(m, r, f)' = cell'[e].value
    BY <2>1, ReadingNext
  <2> QED BY <1>1, <1>2, <2>2
<1>3. CASE n = m /\ i = r /\ j = c
  <2>1. \A d \in live' : ~PlacedAt(d, m, r, c)'
    <3>1. \A d \in live : PlacedAt(d, m, r, c) => d = e
      BY DEF CellsUnique, RowList, ColumnList, PlacedAt
    <3> QED BY <1>1, <3>1 DEF PlacedAt
  <2> QED BY <1>3, <2>1, ReadingNext
<1>4. CASE ~(n = m /\ i = r /\ (j = f \/ j = c))
  <2>1. ~PlacedAt(e, n, i, j) /\ ~PlacedAt(e, n, i, j)'
    BY <1>1, <1>4 DEF PlacedAt
  <2> QED BY <1>1, <1>4, <2>1, CellKept
<1> QED BY <1>2, <1>3, <1>4

(***************************************************************************)
(* Sums.                                                                   *)
(***************************************************************************)
LEMMA Zeros ==
  ASSUME NEW x \in Value
  PROVE  /\ Plus(x, 0) = x /\ Plus(0, x) = x
         /\ Times(x, 0) = 0 /\ Times(0, x) = 0
<1>1. Modulus \in Nat \ {0} /\ x \in 0 .. Modulus - 1
  BY SizesAssumption DEF Value
<1>2. x + 0 = x /\ 0 + x = x /\ x * 0 = 0 /\ 0 * x = 0
  BY <1>1
<1>3. x % Modulus = x /\ 0 % Modulus = 0
  BY <1>1
<1> QED BY <1>2, <1>3 DEF Plus, Times

\* The scale may stand on either side.
LEMMA TimesCommutes ==
  ASSUME NEW x \in Value, NEW y \in Value
  PROVE  Times(x, y) = Times(y, x)
<1>1. x \in Int /\ y \in Int
  BY SizesAssumption DEF Value
<1>2. x * y = y * x
  BY <1>1
<1> QED BY <1>2 DEF Times

-----------------------------------------------------------------------------
(***************************************************************************)
(* The turns of the loops, as changes of the cells.                        *)
(***************************************************************************)
\* What a loop does not touch: entries of R, and the column lists they form.
Untouched(R) ==
  /\ \A e \in R : e \in live' /\ cell'[e] = cell[e]
  /\ \A P \in SUBSET R : \A first : Chain(byColumn, P, first) => Chain(byColumn', P, first)

\* addScaledRow: a cell of the target gets the scaled cell of the source added to it.
LEMMA ScaledTurn ==
  ASSUME LinkedInv, LinkedInv', AddScaledRowStep, cursor # NULL,
         NEW Q \in Left(byRow, InRow("tableau", op.source), cursor)
  PROVE  /\ op' = op /\ cursor \in Q
         /\ Q \ {cursor} \in Left(byRow, InRow("tableau", op.source), cursor)'
         /\ \A e \in Q \ {cursor} : cell'[e] = cell[e] /\ cell[e].column # cell[cursor].column
         /\ \E s, t, j \in Variable, v \in Value :
              /\ s = op.source /\ t = op.target /\ j = cell[cursor].column /\ s # t
              /\ v = IF j = op.index THEN op.value
                     ELSE Plus(Cell("tableau", t, j), Times(Cell("tableau", s, j), op.scale))
              /\ Sets("tableau", t, j, v)
         /\ \A R \in SUBSET live : (\A e \in R : RowList(e) # <<"tableau", op.target>>) =>
              Untouched(R)
         /\ \A e \in live' : \/ e \in live /\ RowList(e)' = RowList(e)
                             \/ RowList(e)' = <<"tableau", op.target>>
<1>t. op.kind = "addScaledRow" /\ op' = op
  BY DEF AddScaledRowStep
<1>y. /\ HeapType /\ live \in SUBSET Entry /\ NULL \notin Entry
      /\ dense \in [Variable -> Link]
      /\ op.source \in Variable /\ op.target \in Variable /\ "tableau" \in Matrix
  BY Typing DEF LinkedInv, Matrix
<1>h. /\ HeapLinked({}, {}) /\ CellsUnique /\ HeapType' /\ CellsUnique'
  BY <1>t DEF LinkedInv, ErasedRows, ErasedColumns, HeapLinked
<1>p. PICK s \in Variable, t \in Variable : s = op.source /\ t = op.target
  BY <1>y
<1>q. /\ Q \subseteq live /\ NULL \notin Q /\ Chain(byRow, Q, cursor)
      /\ \A e \in Q : RowList(e) = <<"tableau", s>>
  BY <1>y, <1>p DEF Left, InRow
<1>1. \A e \in Q, d \in InRow("tableau", t) :
        cell[d].column = cell[e].column => dense[cell[e].column] = d
  <2>1. PICK R \in Left(byRow, InRow("tableau", op.source), cursor) :
          \A e \in R, d \in InRow("tableau", op.target) :
            cell[d].column = cell[e].column => dense[cell[e].column] = d
    BY <1>t DEF LinkedInv, ScanInv, RowScanned
  <2>2. NULL \notin R /\ Chain(byRow, R, cursor)
    BY <1>y, <2>1 DEF Left, InRow
  <2>3. R = Q
    BY <1>q, <2>2, ChainUnique
  <2> QED BY <1>p, <2>1, <2>3
<1>2. /\ s # t
      /\ \A c \in Variable : dense[c] # NULL =>
           dense[c] \in live /\ RowList(dense[c]) = <<"tableau", t>> /\ cell[dense[c]].column = c
  BY <1>t, <1>p DEF LinkedInv, ScanInv, RowScanned, InRow
<1>3. PICK S : S = Q \ {cursor}
  OBVIOUS
<1>4. cursor \in Q /\ Chain(byRow, S, byRow.next[cursor])
  BY <1>3, <1>q, ChainTail
<1>5. PICK j \in Variable : j = cell[cursor].column
  BY <1>4, <1>q, <1>y, CellFacts
<1>6. PICK entry \in Link : entry = dense[j]
  BY <1>y
<1>7. PICK x \in Value, y \in Value, z \in Value :
        x = Cell("tableau", t, j) /\ y = Cell("tableau", s, j) /\ z = op.scale
  <2>1. Cell("tableau", t, j) \in Value /\ Cell("tableau", s, j) \in Value
    BY <1>h, <1>y, Reading
  <2> QED BY <2>1, Typing DEF LinkedInv
<1>8. PICK v \in Value : v = IF j = op.index THEN op.value ELSE Plus(x, Times(y, z))
  <2>1. Times(y, z) \in Value
    BY Sums
  <2>2. Plus(x, Times(y, z)) \in Value
    BY <2>1, Sums
  <2> QED BY <2>2, Typing DEF LinkedInv
<1>9. cell[cursor].value = y
  <2>1. PlacedAt(cursor, "tableau", s, j) /\ cursor \in live
    BY <1>4, <1>5, <1>q DEF PlacedAt, RowList
  <2> QED BY <2>1, <1>7, <1>h, <1>y, Reading
<1>10. IF entry = NULL
       THEN \A d \in live : ~PlacedAt(d, "tableau", t, j)
       ELSE /\ entry \in live /\ PlacedAt(entry, "tableau", t, j) /\ x = cell[entry].value
            /\ RowList(entry) = <<"tableau", t>>
  <2>1. ASSUME NEW d \in live, PlacedAt(d, "tableau", t, j)
        PROVE  dense[j] = d
    <3>1. d \in InRow("tableau", t) /\ cell[d].column = cell[cursor].column
      BY <1>5, <2>1 DEF PlacedAt, InRow, RowList
    <3> QED BY <1>1, <1>4, <1>5, <3>1
  <2>2. entry # NULL => /\ entry \in live /\ PlacedAt(entry, "tableau", t, j)
                        /\ RowList(entry) = <<"tableau", t>>
    BY <1>2, <1>6 DEF PlacedAt, RowList
  <2>3. entry # NULL => x = cell[entry].value
    BY <2>2, <1>7, <1>h, <1>y, Reading
  <2> QED BY <1>6, <1>y, <2>1, <2>2, <2>3
<1>11. entry = NULL => x = 0
  BY <1>10, <1>7, <1>h, <1>y, Reading
<1>12. /\ cursor' = byRow.next[cursor]
       /\ entry = NULL => AddEntry("tableau", t, j, v)
       /\ entry # NULL => SetValue(entry, v)
  <2>1. Times(y, z) \in Value
    BY Sums
  <2>2. v = IF j = op.index THEN op.value
            ELSE IF entry = NULL THEN Times(cell[cursor].value, op.scale)
            ELSE Plus(cell[entry].value, Times(cell[cursor].value, op.scale))
    BY <1>7, <1>8, <1>9, <1>10, <1>11, <2>1, Zeros
  <2> QED BY <2>2, <1>p, <1>5, <1>6 DEF AddScaledRowStep
<1>13. /\ Sets("tableau", t, j, v)
       /\ \A R \in SUBSET live : (\A e \in R : RowList(e) # <<"tableau", t>>) =>
            Untouched(R) /\ \A first : Chain(byRow, R, first) => Chain(byRow', R, first)
       /\ \A e \in live' : \/ e \in live /\ RowList(e)' = RowList(e)
                           \/ RowList(e)' = <<"tableau", t>>
  <2>1. CASE entry = NULL /\ v = 0
    <3>1. UNCHANGED <<live, cell, byRow, byColumn>>
      BY <1>12, <2>1 DEF AddEntry, heap
    <3>2. Sets("tableau", t, j, v)
      BY <3>1, <2>1, <1>7, <1>11, SameRead DEF Sets, SameCells
    <3>3. \A R \in SUBSET live :
            Untouched(R) /\ \A first : Chain(byRow, R, first) => Chain(byRow', R, first)
      BY <3>1 DEF Untouched
    <3>4. \A e \in live' : e \in live /\ RowList(e)' = RowList(e)
      BY <3>1 DEF RowList
    <3> QED BY <3>2, <3>3, <3>4
  <2>2. CASE entry = NULL /\ v # 0
    <3>1. PICK none : none = {} /\ HeapLinked(none, none)
      BY <1>h
    <3>2. \A d \in live : ~(RowList(d) = <<"tableau", t>> /\ ColumnList(d) = <<"tableau", j>>)
      BY <1>10, <2>2 DEF PlacedAt, RowList, ColumnList
    <3>3. <<"tableau", t>> \notin none /\ <<"tableau", j>> \notin none /\ v \in Value \ {0}
      BY <3>1, <2>2
    <3>4. Inserted("tableau", t, j, v)
      BY <1>12, <1>y, <2>2, <3>1, <3>2, <3>3, AddEntryLinks
    <3>5. PICK e \in Entry \ live :
            /\ live' = live \union {e}
            /\ cell' = [cell EXCEPT ![e] = [matrix |-> "tableau", row |-> t,
                                            column |-> j, value |-> v]]
      BY <3>4 DEF Inserted
    <3>6. Sets("tableau", t, j, v)
      BY <1>h, <1>y, <3>5, InsertedSets
    <3>7. /\ \A d \in live : d \in live' /\ cell'[d] = cell[d]
          /\ cell'[e].matrix = "tableau" /\ cell'[e].row = t
      BY <1>y, <3>5 DEF HeapType
    <3>8. \A R \in SUBSET live :
            Untouched(R) /\ \A first : Chain(byRow, R, first) => Chain(byRow', R, first)
      BY <3>4, <3>7 DEF Untouched, Inserted
    <3>9. \A d \in live' : \/ d \in live /\ RowList(d)' = RowList(d)
                           \/ RowList(d)' = <<"tableau", t>>
      BY <3>5, <3>7 DEF RowList
    <3> QED BY <3>6, <3>8, <3>9
  <2>3. CASE entry # NULL
    <3>1. PICK none : none = {} /\ HeapLinked(none, none)
      BY <1>h
    <3>2. /\ entry \in live /\ SetValue(entry, v)
          /\ RowList(entry) \notin none /\ ColumnList(entry) \notin none
      BY <1>10, <1>12, <2>3, <3>1
    <3>3. Assigned(entry, v)
      BY <3>1, <3>2, SetValueLinks
    <3>4. Sets("tableau", t, j, v)
      BY <1>h, <1>y, <1>10, <2>3, <3>3, AssignedSets DEF Assigned
    <3>5. /\ \A d \in live : d # entry => d \in live' /\ cell'[d] = cell[d]
          /\ \A d \in live' : d \in live /\ RowList(d)' = RowList(d)
      BY <1>y, <3>2, <3>3 DEF Assigned, HeapType, CellOK, RowList
    <3>6. ASSUME NEW R \in SUBSET live, \A e \in R : RowList(e) # <<"tableau", t>>
          PROVE  Untouched(R) /\ \A first : Chain(byRow, R, first) => Chain(byRow', R, first)
      <4>1. entry \notin R
        BY <1>10, <2>3, <3>6
      <4> QED BY <4>1, <3>3, <3>5 DEF Assigned, Untouched
    <3> QED BY <3>4, <3>5, <3>6
  <2> QED BY <2>1, <2>2, <2>3
<1>14. \A e \in S : cell'[e] = cell[e] /\ e \in live' /\ cell[e].column # j
  <2>1. Untouched(Q)
    <3>1. \A e \in Q : RowList(e) # <<"tableau", t>>
      BY <1>q, <1>2
    <3> QED BY <3>1, <1>q, <1>13
  <2>2. ASSUME NEW e \in S, cell[e].column = j
        PROVE  FALSE
    <3>1. e \in live /\ cursor \in live /\ RowList(e) = RowList(cursor) /\ e # cursor
      BY <1>3, <1>4, <1>q
    <3>2. ColumnList(e) = ColumnList(cursor)
      BY <3>1, <2>2, <1>5 DEF RowList, ColumnList
    <3> QED BY <3>1, <3>2, <1>h DEF CellsUnique
  <2> QED BY <1>3, <2>1, <2>2 DEF Untouched
<1>15. S \in Left(byRow, InRow("tableau", op.source), cursor)'
  <2>1. S \in SUBSET live /\ \A e \in S : RowList(e) = <<"tableau", s>>
    BY <1>3, <1>q
  <2>2. \A e \in S : RowList(e) # <<"tableau", t>>
    BY <1>2, <2>1
  <2>3. Chain(byRow', S, byRow.next[cursor])
    BY <1>4, <1>13, <2>1, <2>2
  <2>4. \A e \in S : e \in live' /\ RowList(e)' = <<"tableau", s>>
    BY <1>14, <2>1 DEF RowList
  <2> QED BY <2>3, <2>4, <1>12, <1>t, <1>p DEF Left, InRow
<1>16. \E ss, tt, jj \in Variable, w \in Value :
         /\ ss = op.source /\ tt = op.target /\ jj = cell[cursor].column /\ ss # tt
         /\ w = IF jj = op.index THEN op.value
                ELSE Plus(Cell("tableau", tt, jj), Times(Cell("tableau", ss, jj), op.scale))
         /\ Sets("tableau", tt, jj, w)
  BY <1>p, <1>2, <1>5, <1>7, <1>8, <1>13
<1> QED BY <1>t, <1>3, <1>4, <1>5, <1>p, <1>13, <1>14, <1>15, <1>16

\* eraseRow and eraseColumn: a cell of the source becomes zero, until all are.
LEMMA EraseRowTurn ==
  ASSUME LinkedInv, LinkedInv', EraseRowStep
  PROVE  \E s \in Variable :
           /\ s = op.source /\ live' \subseteq live /\ cell' = cell
           /\ cursor = NULL => /\ op' = NoOp /\ cursor' = NULL /\ live' = live
                               /\ InRow("tableau", s) = {}
           /\ cursor # NULL => op' = op /\ \E c \in Variable : Sets("tableau", s, c, 0)
<1>t. op.kind = "eraseRow" /\ cell' = cell
  BY DEF EraseRowStep
<1>y. /\ HeapType /\ CellsUnique /\ HeapType' /\ CellsUnique' /\ NULL \notin live
      /\ op.source \in Variable /\ "tableau" \in Matrix
  BY Typing DEF LinkedInv, Matrix, HeapLinked
<1>p. PICK s \in Variable : s = op.source
  BY <1>y
<1>1. Chain(byRow, InRow("tableau", s), cursor)
  BY <1>p, <1>t DEF LinkedInv, ScanInv
<1>2. CASE cursor = NULL
  <2>1. InRow("tableau", s) = {}
    BY <1>1, <1>2, <1>y DEF Chain, InRow
  <2>2. op' = NoOp /\ cursor' = NULL /\ live' = live
    BY <1>2 DEF EraseRowStep, Return
  <2> QED BY <1>2, <1>p, <1>t, <2>1, <2>2
<1>3. CASE cursor # NULL
  <2>1. live' = live \ {cursor} /\ op' = op
    BY <1>3 DEF EraseRowStep
  <2>2. PICK e \in live : e = cursor /\ RowList(e) = <<"tableau", s>>
    BY <1>1, <1>3 DEF Chain, InRow
  <2>3. PICK c \in Variable : c = cell[e].column
    BY <1>y, CellFacts DEF HeapType
  <2>4. PlacedAt(e, "tableau", s, c)
    BY <2>2, <2>3 DEF PlacedAt, RowList
  <2>5. Sets("tableau", s, c, 0)
    BY <1>t, <1>y, <2>1, <2>2, <2>4, FreedSets
  <2> QED BY <1>3, <1>p, <1>t, <2>1, <2>5
<1> QED BY <1>2, <1>3

\* eraseColumn: another entry of the column is gone, or none is left.
LEMMA EraseColumnTurn ==
  ASSUME LinkedInv, LinkedInv', EraseColumnStep
  PROVE  \E s \in Variable :
           /\ s = op.source /\ live' \subseteq live /\ cell' = cell
           /\ cursor = NULL => /\ op' = NoOp /\ cursor' = NULL /\ live' = live
                               /\ InColumn("tableau", s) = {}
           /\ cursor # NULL => op' = op /\ \E r \in Variable : Sets("tableau", r, s, 0)
<1>t. op.kind = "eraseColumn" /\ cell' = cell
  BY DEF EraseColumnStep
<1>y. /\ HeapType /\ CellsUnique /\ HeapType' /\ CellsUnique' /\ NULL \notin live
      /\ op.source \in Variable /\ "tableau" \in Matrix
  BY Typing DEF LinkedInv, Matrix, HeapLinked
<1>p. PICK s \in Variable : s = op.source
  BY <1>y
<1>1. Chain(byColumn, InColumn("tableau", s), cursor)
  BY <1>p, <1>t DEF LinkedInv, ScanInv
<1>2. CASE cursor = NULL
  <2>1. InColumn("tableau", s) = {}
    BY <1>1, <1>2, <1>y DEF Chain, InColumn
  <2>2. op' = NoOp /\ cursor' = NULL /\ live' = live
    BY <1>2 DEF EraseColumnStep, Return
  <2> QED BY <1>2, <1>p, <1>t, <2>1, <2>2
<1>3. CASE cursor # NULL
  <2>1. live' = live \ {cursor} /\ op' = op
    BY <1>3 DEF EraseColumnStep
  <2>2. PICK e \in live : e = cursor /\ ColumnList(e) = <<"tableau", s>>
    BY <1>1, <1>3 DEF Chain, InColumn
  <2>3. PICK r \in Variable : r = cell[e].row
    BY <1>y, CellFacts DEF HeapType
  <2>4. PlacedAt(e, "tableau", r, s)
    BY <2>2, <2>3 DEF PlacedAt, ColumnList
  <2>5. Sets("tableau", r, s, 0)
    BY <1>t, <1>y, <2>1, <2>2, <2>4, FreedSets
  <2> QED BY <1>3, <1>p, <1>t, <2>1, <2>5
<1> QED BY <1>2, <1>3

\* addColumn: a cell of the source is added to that of the target in its row, and
\* stays or leaves its own empty.
LEMMA ColumnTurn ==
  ASSUME LinkedInv, LinkedInv', AddColumnStep, cursor # NULL,
         NEW Q \in Left(byColumn, InColumn("tableau", op.source), cursor)
  PROVE  /\ op' = op /\ cursor \in Q
         /\ Q \ {cursor} \in Left(byColumn, InColumn("tableau", op.source), cursor)'
         /\ \A e \in Q \ {cursor} : cell'[e] = cell[e] /\ cell[e].row # cell[cursor].row
         /\ \E s, t, i \in Variable :
              /\ s = op.source /\ t = op.target /\ i = cell[cursor].row /\ s # t
              /\ \A n \in Matrix, r, c \in Variable : ~(n = "tableau" /\ r = i /\ c = s) =>
                   Cell(n, r, c)' =
                     IF n = "tableau" /\ r = i /\ c = t
                     THEN Plus(Cell("tableau", i, t), Cell("tableau", i, s))
                     ELSE Cell(n, r, c)
         /\ \A e \in live' : e \in live /\ RowList(e)' = RowList(e)
<1>t. op.kind = "addColumn" /\ op' = op
  BY DEF AddColumnStep
<1>y. /\ HeapType /\ live \in SUBSET Entry /\ NULL \notin Entry
      /\ dense \in [Variable -> Link]
      /\ op.source \in Variable /\ op.target \in Variable /\ "tableau" \in Matrix
  BY Typing DEF LinkedInv, Matrix
<1>h. /\ HeapLinked({}, {}) /\ HeapCounted({}, {})
      /\ CellsUnique /\ HeapType' /\ CellsUnique'
  BY <1>t DEF LinkedInv, SizesInv, ErasedRows, ErasedColumns, HeapLinked
<1>n. PICK none : none = {} /\ HeapLinked(none, none) /\ HeapCounted(none, none)
  BY <1>h
<1>p. PICK s \in Variable, t \in Variable : s = op.source /\ t = op.target
  BY <1>y
<1>q. /\ Q \subseteq live /\ NULL \notin Q /\ Chain(byColumn, Q, cursor)
      /\ \A e \in Q : ColumnList(e) = <<"tableau", s>>
  BY <1>y, <1>p DEF Left, InColumn
<1>1. \A e \in Q, d \in InColumn("tableau", t) :
        cell[d].row = cell[e].row => dense[cell[e].row] = d
  <2>1. PICK R \in Left(byColumn, InColumn("tableau", op.source), cursor) :
          \A e \in R, d \in InColumn("tableau", op.target) :
            cell[d].row = cell[e].row => dense[cell[e].row] = d
    BY <1>t DEF LinkedInv, ScanInv, ColumnScanned
  <2>2. NULL \notin R /\ Chain(byColumn, R, cursor)
    BY <1>y, <2>1 DEF Left, InColumn
  <2>3. R = Q
    BY <1>q, <2>2, ChainUnique
  <2> QED BY <1>p, <2>1, <2>3
<1>2. /\ s # t
      /\ \A r \in Variable : dense[r] # NULL =>
           dense[r] \in live /\ ColumnList(dense[r]) = <<"tableau", t>> /\ cell[dense[r]].row = r
  BY <1>t, <1>p DEF LinkedInv, ScanInv, ColumnScanned, InColumn
<1>3. PICK S : S = Q \ {cursor}
  OBVIOUS
<1>4. cursor \in Q /\ Chain(byColumn, S, byColumn.next[cursor])
  BY <1>3, <1>q, ChainTail
<1>e. PICK from \in live : from = cursor
  BY <1>4, <1>q
<1>5. PICK i \in Variable : i = cell[from].row
  BY <1>y, CellFacts
<1>6. PICK entry \in Link : entry = dense[i]
  BY <1>y
<1>7. PICK x \in Value, y \in Value : x = Cell("tableau", i, t) /\ y = Cell("tableau", i, s)
  BY <1>h, <1>y, Reading
<1>8. PlacedAt(from, "tableau", i, s) /\ cell[from].value = y
  <2>1. PlacedAt(from, "tableau", i, s)
    BY <1>4, <1>e, <1>5, <1>q DEF PlacedAt, ColumnList
  <2> QED BY <2>1, <1>7, <1>h, <1>y, Reading
<1>9. \A e \in S : e \in live /\ ColumnList(e) = <<"tableau", s>> /\ cell[e].row # i
  <2>1. ASSUME NEW e \in S, cell[e].row = i
        PROVE  FALSE
    <3>1. e \in live /\ ColumnList(e) = ColumnList(from) /\ e # from
      BY <1>3, <1>4, <1>e, <1>q
    <3>2. RowList(e) = RowList(from)
      BY <3>1, <2>1, <1>5 DEF RowList, ColumnList
    <3> QED BY <3>1, <3>2, <1>h DEF CellsUnique
  <2> QED BY <1>3, <1>q, <2>1
<1>10. IF entry = NULL
       THEN \A d \in live : ~PlacedAt(d, "tableau", i, t)
       ELSE /\ entry \in live /\ PlacedAt(entry, "tableau", i, t) /\ x = cell[entry].value
            /\ ColumnList(entry) = <<"tableau", t>>
  <2>1. ASSUME NEW d \in live, PlacedAt(d, "tableau", i, t)
        PROVE  dense[i] = d
    <3>1. d \in InColumn("tableau", t) /\ cell[d].row = cell[cursor].row
      BY <1>5, <1>e, <2>1 DEF PlacedAt, InColumn, ColumnList
    <3> QED BY <1>1, <1>4, <1>5, <1>e, <3>1
  <2>2. entry # NULL => /\ entry \in live /\ PlacedAt(entry, "tableau", i, t)
                        /\ ColumnList(entry) = <<"tableau", t>>
    BY <1>2, <1>6 DEF PlacedAt, ColumnList
  <2>3. entry # NULL => x = cell[entry].value
    BY <2>2, <1>7, <1>h, <1>y, Reading
  <2> QED BY <1>6, <1>y, <2>1, <2>2, <2>3
<1>11. PICK v \in Value : v = Plus(x, y)
  BY Sums
<1>12. /\ cursor' = byColumn.next[cursor]
       /\ entry # NULL => SetValue(entry, v)
       /\ entry = NULL =>
            /\ byColumn' = PushFront(Unlink(byColumn, <<"tableau", s>>, from),
                                     <<"tableau", t>>, from)
            /\ cell' = [cell EXCEPT ![from] = [cell[from] EXCEPT !.column = t]]
            /\ UNCHANGED <<live, byRow>>
  <2>1. /\ entry # NULL => SetValue(entry, Plus(cell[entry].value, cell[cursor].value))
        /\ cursor' = byColumn.next[cursor]
        /\ entry = NULL =>
            /\ byColumn' = PushFront(Unlink(byColumn, <<"tableau", s>>, from),
                                     <<"tableau", t>>, from)
            /\ cell' = [cell EXCEPT ![from] = [cell[from] EXCEPT !.column = t]]
            /\ UNCHANGED <<live, byRow>>
    BY <1>5, <1>6, <1>e, <1>p DEF AddColumnStep
  <2>2. entry # NULL => Plus(cell[entry].value, cell[cursor].value) = v
    BY <1>8, <1>10, <1>11, <1>e
  <2> QED BY <2>1, <2>2
<1>13. /\ \A n \in Matrix, r, c \in Variable : ~(n = "tableau" /\ r = i /\ c = s) =>
            Cell(n, r, c)' = IF n = "tableau" /\ r = i /\ c = t THEN v ELSE Cell(n, r, c)
       /\ \A e \in S : e \in live' /\ cell'[e] = cell[e]
       /\ Chain(byColumn', S, byColumn.next[cursor])
       /\ \A e \in live' : e \in live /\ RowList(e)' = RowList(e)
  <2>1. CASE entry # NULL
    <3>1. /\ entry \in live /\ SetValue(entry, v)
          /\ RowList(entry) \notin none /\ ColumnList(entry) \notin none
      BY <1>10, <1>12, <1>n, <2>1
    <3>2. Assigned(entry, v)
      BY <1>n, <3>1, SetValueLinks
    <3>3. Sets("tableau", i, t, v)
      BY <1>h, <1>y, <1>10, <2>1, <3>2, AssignedSets DEF Assigned
    <3>4. /\ \A d \in live : d # entry => d \in live' /\ cell'[d] = cell[d]
          /\ \A d \in live' : d \in live /\ RowList(d)' = RowList(d)
      BY <1>y, <3>1, <3>2 DEF Assigned, HeapType, CellOK, RowList
    <3>5. S \in SUBSET live /\ entry \notin S
      BY <1>2, <1>9, <1>10, <2>1
    <3>6. Chain(byColumn', S, byColumn.next[cursor])
      BY <1>4, <3>2, <3>5 DEF Assigned
    <3> QED BY <3>3, <3>4, <3>5, <3>6 DEF Sets
  <2>2. CASE entry = NULL
    <3>1. /\ ColumnList(from) = <<"tableau", s>>
          /\ \A d \in live : ~(RowList(d) = RowList(from) /\ ColumnList(d) = <<"tableau", t>>)
      BY <1>8, <1>10, <2>2 DEF PlacedAt, RowList, ColumnList
    <3>2. \A R \in SUBSET live : \A first : from \notin R /\ Chain(byColumn, R, first) =>
            Chain(byColumn', R, first)
      BY <1>2, <1>12, <1>n, <2>2, <3>1, StealLinks
    <3>3. S \in SUBSET live /\ from \notin S
      BY <1>3, <1>9, <1>e
    <3>4. Chain(byColumn', S, byColumn.next[cursor])
      BY <1>4, <3>2, <3>3
    <3>5. /\ \A d \in live : d # from => cell'[d] = cell[d]
          /\ \A d \in live : RowList(d)' = RowList(d)
      BY <1>12, <1>y, <2>2 DEF HeapType, CellOK, RowList
    <3>6. v = y
      <4>1. x = 0
        BY <1>7, <1>10, <1>h, <1>y, <2>2, Reading
      <4> QED BY <4>1, <1>11, Zeros
    <3>7. t \in Variable \ {s}
      BY <1>2
    <3>8. \A n \in Matrix, r, c \in Variable :
            Cell(n, r, c)' = IF n = "tableau" /\ r = i /\ c = t THEN cell[from].value
                             ELSE IF n = "tableau" /\ r = i /\ c = s THEN 0 ELSE Cell(n, r, c)
      BY <1>8, <1>12, <1>h, <1>y, <2>2, <3>7, MovedSets
    <3>9. \A n \in Matrix, r, c \in Variable : ~(n = "tableau" /\ r = i /\ c = s) =>
            Cell(n, r, c)' = IF n = "tableau" /\ r = i /\ c = t THEN v ELSE Cell(n, r, c)
      BY <1>8, <3>6, <3>8
    <3> QED BY <1>12, <2>2, <3>3, <3>4, <3>5, <3>9
  <2> QED BY <2>1, <2>2
<1>14. S \in Left(byColumn, InColumn("tableau", op.source), cursor)'
  <2>1. \A e \in S : e \in live' /\ ColumnList(e)' = <<"tableau", s>>
    BY <1>9, <1>13 DEF ColumnList
  <2> QED BY <2>1, <1>12, <1>13, <1>t, <1>p DEF Left, InColumn
<1>15. \E ss, tt, ii \in Variable :
         /\ ss = op.source /\ tt = op.target /\ ii = cell[cursor].row /\ ss # tt
         /\ \A n \in Matrix, r, c \in Variable : ~(n = "tableau" /\ r = ii /\ c = ss) =>
              Cell(n, r, c)' =
                IF n = "tableau" /\ r = ii /\ c = tt
                THEN Plus(Cell("tableau", ii, tt), Cell("tableau", ii, ss))
                ELSE Cell(n, r, c)
  BY <1>p, <1>2, <1>5, <1>e, <1>7, <1>11, <1>13
<1>16. \A e \in Q \ {cursor} : cell'[e] = cell[e] /\ cell[e].row # cell[cursor].row
  BY <1>3, <1>5, <1>9, <1>13, <1>e
<1> QED BY <1>t, <1>3, <1>4, <1>13, <1>14, <1>15, <1>16

\* backupIntoMatrix: a cell is copied, or the next row is begun.
LEMMA CopyTurn ==
  ASSUME LinkedInv, LinkedInv', CopyStep,
         NEW Q \in Left(byRow, InRow(op.matrix, op.source), cursor)
  PROVE  \E m, o \in Matrix, s \in Variable :
           /\ m = op.matrix /\ o # m /\ s = op.source
           /\ cursor = NULL =>
                /\ Q = {} /\ UNCHANGED <<live, cell>>
                /\ s + 1 \in Variable =>
                     /\ op'.kind = "copy" /\ op'.matrix = m /\ op'.source = s + 1
                     /\ InRow(m, s + 1) \in Left(byRow, InRow(op.matrix, op.source), cursor)'
                /\ s + 1 \notin Variable => op' = NoOp
           /\ cursor # NULL =>
                /\ op' = op /\ cursor \in Q
                /\ Q \ {cursor} \in Left(byRow, InRow(op.matrix, op.source), cursor)'
                /\ \A e \in Q \ {cursor} : cell'[e] = cell[e]
                                           /\ cell[e].column # cell[cursor].column
                /\ \E c \in Variable : c = cell[cursor].column /\ Sets(o, s, c, Cell(m, s, c))
           /\ \A e \in live' : \/ e \in live /\ RowList(e)' = RowList(e)
                               \/ \E d \in live : /\ cell'[e].matrix = o /\ cell[d].matrix = m
                                                  /\ cell'[e].row = cell[d].row
<1>t. op.kind = "copy"
  BY DEF CopyStep
<1>y. /\ HeapType /\ live \in SUBSET Entry /\ NULL \notin Entry /\ byRow \in ListsOK
      /\ op.source \in Variable /\ op.matrix \in Matrix /\ op \in OpOK
  BY Typing DEF LinkedInv, HeapType
<1>h. HeapLinked({}, {}) /\ CellsUnique /\ HeapType' /\ CellsUnique'
  BY <1>t DEF LinkedInv, ErasedRows, ErasedColumns, HeapLinked
<1>n. PICK none : none = {} /\ HeapLinked(none, none)
  BY <1>h
<1>p. PICK m \in Matrix, s \in Variable : m = op.matrix /\ s = op.source
  BY <1>y
<1>o. PICK o \in Matrix : o = Other(m) /\ o # m
  BY OtherMatrix
<1>q. /\ Q \subseteq live /\ NULL \notin Q /\ Chain(byRow, Q, cursor)
      /\ \A e \in Q : RowList(e) = <<m, s>>
  BY <1>y, <1>p DEF Left, InRow
<1>1. CASE cursor = NULL
  <2>1. UNCHANGED <<live, cell, byRow>> /\ Q = {}
    BY <1>1, <1>q DEF CopyStep, heap, Chain
  <2>2. s + 1 \notin Variable => op' = NoOp
    BY <1>1, <1>p DEF CopyStep, Return
  <2>3. ASSUME s + 1 \in Variable
        PROVE  /\ op'.kind = "copy" /\ op'.matrix = m /\ op'.source = s + 1
               /\ InRow(m, s + 1) \in Left(byRow, InRow(op.matrix, op.source), cursor)'
    <3>1. /\ op' = [op EXCEPT !.source = op.source + 1]
          /\ cursor' = byRow.head[<<op.matrix, op.source + 1>>]
      BY <1>1, <1>p, <2>3 DEF CopyStep
    <3>2. op'.kind = "copy" /\ op'.matrix = m /\ op'.source = s + 1
      BY <1>p, <1>t, <1>y, <3>1 DEF OpOK
    <3>3. PICK r \in Variable : r = s + 1
      BY <2>3
    <3>4. List(byRow, InRow(m, r), <<m, r>>)
      <4>1. InRow(m, r) = ListOf(live, RowKey, <<m, r>>)
        BY <1>y, Keys
      <4>2. <<m, r>> \in (Matrix \X Variable) \ none
        BY <1>n
      <4> QED BY <1>n, <4>1, <4>2 DEF HeapLinked, Linked
    <3>5. Chain(byRow', InRow(m, r), cursor')
      BY <1>p, <2>1, <3>1, <3>3, <3>4 DEF List
    <3>6. InRow(m, r) = {e \in live' : RowList(e)' = <<m, r>>}
      BY <2>1 DEF InRow, RowList
    <3>7. PICK R : R = InRow(m, r)
      OBVIOUS
    <3>8. R \in Left(byRow, InRow(op.matrix, op.source), cursor)'
      BY <3>2, <3>3, <3>5, <3>6, <3>7 DEF Left, InRow
    <3> QED BY <3>2, <3>3, <3>7, <3>8
  <2>4. \A e \in live' : e \in live /\ RowList(e)' = RowList(e)
    BY <2>1 DEF RowList
  <2> QED BY <1>1, <1>o, <1>p, <2>1, <2>2, <2>3, <2>4
<1>2. CASE cursor # NULL
  <2>1. PICK S \in SUBSET Q : S = Q \ {cursor}
    OBVIOUS
  <2>2. cursor \in Q /\ Chain(byRow, S, byRow.next[cursor])
    BY <1>2, <1>q, <2>1, ChainTail
  <2>3. PICK from \in live : from = cursor
    BY <1>q, <2>2
  <2>4. /\ RowList(from) = <<m, s>> /\ cell[from].matrix = m /\ cell[from].row = s
        /\ cell[from] \in CellOK
    BY <1>q, <1>y, <2>2, <2>3 DEF RowList, HeapType
  <2>5. PICK c \in Variable, v \in Value : c = cell[from].column /\ v = cell[from].value
    BY <2>4 DEF CellOK
  <2>6. PICK e \in Entry \ live :
          /\ live' = live \union {e}
          /\ cell' = [cell EXCEPT ![e] = [cell[from] EXCEPT !.matrix = o]]
          /\ byRow' = [PushFront(byRow, <<o, s>>, e) EXCEPT !.size = byRow.size]
          /\ cursor' = byRow.next[from] /\ op' = op
    <3>1. live # Entry /\ live \subseteq Entry
      BY <1>2, <1>t, <1>y DEF CopyStep
    <3>2. (CHOOSE x \in Entry \ live : TRUE) \in Entry \ live
      BY <3>1
    <3> QED BY <1>2, <1>o, <1>p, <2>3, <2>4, <2>5, <3>2 DEF CopyStep
  <2>7. cell' = [cell EXCEPT ![e] = [matrix |-> o, row |-> s, column |-> c, value |-> v]]
    <3>1. [cell[from] EXCEPT !.matrix = o] = [matrix |-> o, row |-> s, column |-> c, value |-> v]
      BY <2>4, <2>5 DEF CellOK
    <3> QED BY <2>6, <3>1
  <2>8. Sets(o, s, c, v)
    BY <1>h, <1>y, <2>6, <2>7, InsertedSets
  <2>9. Cell(m, s, c) = v
    <3>1. PlacedAt(from, m, s, c)
      BY <2>4, <2>5 DEF PlacedAt
    <3> QED BY <1>h, <1>y, <2>5, <3>1, Reading
  <2>10. \A d \in live : d \in live' /\ cell'[d] = cell[d] /\ RowList(d)' = RowList(d)
    BY <1>y, <2>6, <2>7 DEF HeapType, RowList
  <2>11. \A d \in S : d \in live /\ cell'[d] = cell[d] /\ cell[d].column # c
    <3>1. ASSUME NEW d \in S, cell[d].column = c
          PROVE  FALSE
      <4>1. d \in live /\ RowList(d) = RowList(from) /\ d # from
        BY <1>q, <2>1, <2>3, <2>4
      <4>2. ColumnList(d) = ColumnList(from)
        BY <3>1, <4>1, <2>5 DEF RowList, ColumnList
      <4> QED BY <4>1, <4>2, <1>h DEF CellsUnique
    <3> QED BY <1>q, <2>1, <2>10, <3>1
  <2>12. S \in Left(byRow, InRow(op.matrix, op.source), cursor)'
    <3>1. Chain(byRow', S, byRow.next[from])
      <4>1. <<o, s>> \in (Matrix \X Variable) \ none
        BY <1>n
      <4>2. byRow.head[<<o, s>>] # NULL => byRow.prev[byRow.head[<<o, s>>]] = NULL
        BY <1>n, <4>1 DEF HeapLinked, Linked, List
      <4>3. S \in SUBSET Entry /\ e \in Entry \ S
        BY <1>q, <1>y
      <4>4. Chain(PushFront(byRow, <<o, s>>, e), S, byRow.next[from])
        BY <1>y, <2>2, <2>3, <4>1, <4>2, <4>3, PushKeeps
      <4>5. /\ byRow'.next = PushFront(byRow, <<o, s>>, e).next
            /\ byRow'.prev = PushFront(byRow, <<o, s>>, e).prev
        BY <2>6 DEF PushFront
      <4> QED BY <4>4, <4>5 DEF Chain
    <3>2. \A d \in S : d \in live' /\ RowList(d)' = <<m, s>>
      BY <1>q, <2>1, <2>10
    <3> QED BY <1>p, <2>6, <3>1, <3>2 DEF Left, InRow
  <2>13. \A d \in live' : \/ d \in live /\ RowList(d)' = RowList(d)
                          \/ cell'[d].matrix = o /\ cell[from].matrix = m
                             /\ cell'[d].row = cell[from].row
    <3>1. cell'[e].matrix = o /\ cell'[e].row = s
      BY <1>y, <2>7 DEF HeapType
    <3> QED BY <2>4, <2>6, <2>10, <3>1
  <2>14. \E j \in Variable : j = cell[cursor].column /\ Sets(o, s, j, Cell(m, s, j))
    BY <2>3, <2>5, <2>8, <2>9
  <2>15. op' = op /\ \A d \in Q \ {cursor} : cell'[d] = cell[d]
                                              /\ cell[d].column # cell[cursor].column
    BY <2>1, <2>3, <2>5, <2>6, <2>11
  <2> QED BY <1>2, <1>o, <1>p, <2>1, <2>2, <2>12, <2>13, <2>14, <2>15
<1> QED BY <1>1, <1>2

-----------------------------------------------------------------------------
(***************************************************************************)
(* The invariant, loop by loop.                                            *)
(***************************************************************************)
LEMMA PivotValues ==
  ASSUME NEW W \in Cells, NEW nb \in Variable, NEW b \in Variable, NEW k \in Value
  PROVE  \A r, c \in Variable : /\ W[r][c] \in Value
                                /\ NewRow(W, nb, b, k, c) \in Value
                                /\ Pivoted(W, nb, b, k, r, c) \in Value
<1> TAKE r, c \in Variable
<1>1. \A i, j \in Variable : W[i][j] \in Value
  BY DEF Cells
<1>2. NewRow(W, nb, b, k, c) \in Value
  BY <1>1, Sums, Constants DEF NewRow
<1>3. PICK x \in Value : x = NewRow(W, nb, b, k, c)
  BY <1>2
<1>4. Times(W[r][nb], x) \in Value
  BY <1>1, Sums
<1>5. Plus(W[r][c], Times(W[r][nb], x)) \in Value
  BY <1>1, <1>4, Sums
<1> QED BY <1>1, <1>2, <1>3, <1>5, Constants DEF Pivoted

\* The loop's entry is the last of its column, or row, to come.
LEMMA LeftShrinks ==
  ASSUME NEW Q, NEW S, S = Q \ {cursor}, cursor \in Q, \A e \in S : cell'[e] = cell[e]
  PROVE  /\ (\A e \in S : cell[e].column # cell[cursor].column) =>
              \A c : ColumnLeft(S, c)' <=> ColumnLeft(Q, c) /\ c # cell[cursor].column
         /\ (\A e \in S : cell[e].row # cell[cursor].row) =>
              \A r : RowLeft(S, r)' <=> RowLeft(Q, r) /\ r # cell[cursor].row
BY DEF ColumnLeft, RowLeft

\* What MatrixInv says of the operation under way; the rest changes little.
LEMMA PivotingKept ==
  ASSUME MatrixInv, before' = before, RowsBasic', NEW W \in Cells, before["tableau"] = W,
         Pivoting(W)' \/ Merging(W)' \/ Erasing(W)',
         ~Idle, op.kind # "copy",
         \A r, c \in Variable : Cell("preprocessed", r, c)' = Cell("preprocessed", r, c)
  PROVE  MatrixInv'
<1>1. SavedLeft'
  BY DEF MatrixInv, SavedLeft
<1> QED BY <1>1 DEF MatrixInv

\* Sums of rows are made in a pivot only.
LEMMA WithinPivot ==
  ASSUME MatrixInv, op.kind \in {"addScaledRow", "eraseRow"} \/ pivoting.stage # "none"
  PROVE  \E W \in Cells, nb, b \in Variable, k \in Value :
           /\ before["tableau"] = W /\ ~Idle /\ op.kind # "copy"
           /\ pivoting.nonBasic = nb /\ pivoting.basic = b
           /\ nb # b /\ W[b][nb] # 0
           /\ Moving(W, nb, b, k) \/ Leaving(W, nb, b, k) \/ Clearing(W, nb, b, k)
<1>1. PICK W \in Cells : /\ before["tableau"] = W
                         /\ Idle \/ Pivoting(W) \/ Merging(W) \/ Erasing(W) \/ Copied
  BY DEF MatrixInv, Matrix
<1>2. ~Idle
  BY DEF Idle, Returned
<1>3. Pivoting(W)
  BY <1>1, <1>2 DEF Merging, Erasing, Copied
<1>4. op.kind # "copy"
  BY <1>3 DEF Pivoting, Moving, Leaving, Clearing
<1> QED BY <1>1, <1>2, <1>3, <1>4 DEF Pivoting

\* The end of the sum of two rows.
LEMMA ScaledEnd ==
  ASSUME LinkedInv, LinkedInv', MatrixInv, AddScaledRowStep, UNCHANGED <<pivoting, client>>,
         cursor = NULL
  PROVE  MatrixInv'
<1>t. /\ op.kind = "addScaledRow" /\ op'.kind = "none" /\ cursor' = NULL
      /\ UNCHANGED <<live, cell, byRow, byColumn, pivoting, basicVariables, before>>
  BY DEF AddScaledRowStep, Return, heap, client, NoOp
<1>1. PICK W \in Cells, nb \in Variable, b \in Variable, k \in Value :
           /\ before["tableau"] = W /\ ~Idle /\ op.kind # "copy"
           /\ pivoting.nonBasic = nb /\ pivoting.basic = b
           /\ nb # b /\ W[b][nb] # 0
           /\ Moving(W, nb, b, k) \/ Leaving(W, nb, b, k) \/ Clearing(W, nb, b, k)
  BY <1>t, WithinPivot
<1>2. SameCells /\ "tableau" \in Matrix /\ "preprocessed" \in Matrix
  BY <1>t, SameRead DEF Matrix
<1>3. RowsBasic'
  BY <1>t DEF MatrixInv, RowsBasic
<1>n. \A m, i : NULL \notin InRow(m, i)
  BY Typing DEF LinkedInv, InRow
<1>4. CASE Moving(W, nb, b, k)
  <2>1. PICK Q \in Left(byRow, InRow("tableau", b), cursor) : \A r, c \in Variable :
          Now(r, c) = IF r # nb THEN W[r][c]
                      ELSE IF ColumnLeft(Q, c) THEN 0 ELSE NewRow(W, nb, b, k, c)
    BY <1>4 DEF Moving
  <2>2. Q = {}
    BY <1>n, <2>1, NothingLeft
  <2>3. Q \in Left(byRow, InRow("tableau", b), cursor)'
    BY <1>t, <2>1 DEF Left, InRow, RowList
  <2>4. \A r, c \in Variable :
          Now(r, c)' = IF r # nb THEN W[r][c]
                       ELSE IF ColumnLeft(Q, c)' THEN 0 ELSE NewRow(W, nb, b, k, c)
    BY <1>2, <2>1, <2>2 DEF SameCells, Now, ColumnLeft
  <2>5. Moving(W, nb, b, k)'
    BY <1>4, <1>t, <2>3, <2>4 DEF Moving
  <2>6. Pivoting(W)'
    BY <1>1, <1>t, <2>5 DEF Pivoting
  <2> QED BY <1>1, <1>2, <1>3, <1>t, <2>6, PivotingKept DEF SameCells
<1>5. CASE Clearing(W, nb, b, k)
  <2>1. PICK P \in Left(byColumn, InColumn("tableau", nb), pivoting.cursor),
             Q \in Left(byRow, InRow("tableau", nb), cursor) :
          \A r, c \in Variable :
            Now(r, c) = IF \/ r = op.target /\ ColumnLeft(Q, c)
                           \/ r # nb /\ RowLeft(P, r)
                        THEN W[r][c] ELSE Pivoted(W, nb, b, k, r, c)
    BY <1>5 DEF Clearing
  <2>2. Q = {}
    BY <1>n, <1>t, <2>1, NothingLeft
  <2>3. /\ P \in Left(byColumn, InColumn("tableau", nb), pivoting.cursor)'
        /\ Q \in Left(byRow, InRow("tableau", nb), cursor)'
    BY <1>t, <2>1 DEF Left, InRow, RowList, InColumn, ColumnList
  <2>4. \A r, c \in Variable :
            Now(r, c)' = IF \/ r = op'.target /\ ColumnLeft(Q, c)'
                            \/ r # nb /\ RowLeft(P, r)'
                         THEN W[r][c] ELSE Pivoted(W, nb, b, k, r, c)
    BY <1>2, <1>t, <2>1, <2>2 DEF SameCells, Now, ColumnLeft, RowLeft
  <2>5. InRow("tableau", b)' = {}
    BY <1>5, <1>t DEF Clearing, InRow, RowList
  <2>6. Clearing(W, nb, b, k)'
    BY <1>5, <1>t, <2>3, <2>4, <2>5 DEF Clearing
  <2>7. Pivoting(W)'
    BY <1>1, <1>t, <2>6 DEF Pivoting
  <2> QED BY <1>1, <1>2, <1>3, <1>t, <2>7, PivotingKept DEF SameCells
<1>6. ~Leaving(W, nb, b, k)
  BY <1>t DEF Leaving
<1> QED BY <1>1, <1>4, <1>5, <1>6

\* A turn of addScaledRow, in either of its uses by pivot.
LEMMA ScaledMatrix ==
  ASSUME LinkedInv, LinkedInv', MatrixInv, AddScaledRowStep, UNCHANGED <<pivoting, client>>
  PROVE  MatrixInv'
<1>1. CASE cursor = NULL
  BY <1>1, ScaledEnd
<1>2. CASE cursor # NULL
  <2>t. /\ op.kind = "addScaledRow"
        /\ UNCHANGED <<pivoting, basicVariables, before>>
    BY DEF AddScaledRowStep, client
  <2>1. PICK W \in Cells, nb \in Variable, b \in Variable, k \in Value :
           /\ before["tableau"] = W /\ ~Idle /\ op.kind # "copy"
           /\ pivoting.nonBasic = nb /\ pivoting.basic = b
           /\ nb # b /\ W[b][nb] # 0
           /\ Moving(W, nb, b, k) \/ Leaving(W, nb, b, k) \/ Clearing(W, nb, b, k)
    BY <2>t, WithinPivot
  <2>2. "tableau" \in Matrix /\ "preprocessed" \in Matrix /\ "preprocessed" # "tableau"
    BY DEF Matrix
  <2>r. ASSUME op' = op, NEW t, t = op.target,
               \A e \in live' : \/ e \in live /\ RowList(e)' = RowList(e)
                                \/ RowList(e)' = <<"tableau", t>>
        PROVE  RowsBasic'
    <3>1. t \in basicVariables["tableau"]
      BY <2>t, <2>r DEF MatrixInv, RowsBasic
    <3> SUFFICES ASSUME NEW e \in live'
                 PROVE  \/ cell'[e].row \in basicVariables[cell'[e].matrix]
                        \/ /\ cell'[e].matrix = "tableau" /\ cell'[e].row = pivoting.basic
                           /\ pivoting.stage = "moved"
      BY <2>t, <2>r, <3>1 DEF RowsBasic
    <3>2. CASE RowList(e)' = <<"tableau", t>>
      BY <3>1, <3>2 DEF RowList
    <3>3. CASE e \in live /\ RowList(e)' = RowList(e)
      <4>1. cell'[e].row = cell[e].row /\ cell'[e].matrix = cell[e].matrix
        BY <3>3 DEF RowList
      <4> QED BY <2>t, <3>3, <4>1 DEF MatrixInv, RowsBasic
    <3> QED BY <2>r, <3>2, <3>3
  <2>f. PICK j : j = cell[cursor].column
    OBVIOUS
  <2>3. CASE Moving(W, nb, b, k)
    <3>0. /\ op.source = b /\ op.target = nb
          /\ op.scale = k /\ op.index = nb /\ op.value = MinusOne
      BY <2>3, <2>t DEF Moving
    <3>1. PICK Q \in Left(byRow, InRow("tableau", b), cursor) : \A r, c \in Variable :
            Now(r, c) = IF r # nb THEN W[r][c]
                        ELSE IF ColumnLeft(Q, c) THEN 0 ELSE NewRow(W, nb, b, k, c)
      BY <2>3 DEF Moving
    <3>2. Q \in Left(byRow, InRow("tableau", op.source), cursor)
      BY <3>0, <3>1
    <3>3. PICK S : S = Q \ {cursor}
      OBVIOUS
    <3>4. /\ op' = op /\ cursor \in Q
          /\ S \in Left(byRow, InRow("tableau", op.source), cursor)'
          /\ \A e \in S : cell'[e] = cell[e] /\ cell[e].column # cell[cursor].column
          /\ \A e \in live' : \/ e \in live /\ RowList(e)' = RowList(e)
                              \/ RowList(e)' = <<"tableau", op.target>>
      BY <1>2, <3>2, <3>3, ScaledTurn
    <3>5. PICK s \in Variable, t \in Variable, i \in Variable, v \in Value :
              /\ s = op.source /\ t = op.target /\ i = cell[cursor].column /\ s # t
              /\ v = IF i = op.index THEN op.value
                     ELSE Plus(Cell("tableau", t, i), Times(Cell("tableau", s, i), op.scale))
              /\ Sets("tableau", t, i, v)
      BY <1>2, <3>2, ScaledTurn
    <3>6. s = b /\ t = nb /\ i = j
      BY <2>f, <3>0, <3>5
    <3>7. ColumnLeft(Q, i) /\ \A c : ColumnLeft(S, c)' <=> ColumnLeft(Q, c) /\ c # i
      BY <3>3, <3>4, <3>5, LeftShrinks DEF ColumnLeft
    <3>8. v = NewRow(W, nb, b, k, i)
      <4>1. Cell("tableau", nb, i) = 0 /\ Cell("tableau", b, i) = W[b][i]
        BY <2>1, <3>1, <3>7 DEF Now
      <4>2. W[b][i] \in Value
        BY PivotValues
      <4>3. Times(W[b][i], k) = Times(k, W[b][i]) /\ Times(k, W[b][i]) \in Value
        BY <4>2, TimesCommutes, Sums
      <4>4. Plus(0, Times(k, W[b][i])) = Times(k, W[b][i])
        BY <4>3, Zeros
      <4> QED BY <3>0, <3>5, <3>6, <4>1, <4>3, <4>4 DEF NewRow
    <3>9. \A r, c \in Variable :
            Now(r, c)' = IF r # nb THEN W[r][c]
                         ELSE IF ColumnLeft(S, c)' THEN 0 ELSE NewRow(W, nb, b, k, c)
      <4> TAKE r, c \in Variable
      <4>1. Cell("tableau", r, c)' = IF r = nb /\ c = i THEN v ELSE Cell("tableau", r, c)
        BY <2>2, <3>5, <3>6 DEF Sets
      <4> QED BY <3>1, <3>7, <3>8, <4>1 DEF Now
    <3>10. S \in Left(byRow, InRow("tableau", b), cursor)'
      BY <3>0, <3>4 DEF Left, InRow
    <3>11. Moving(W, nb, b, k)'
      BY <2>3, <2>t, <3>4, <3>9, <3>10 DEF Moving
    <3>12. Pivoting(W)'
      BY <2>1, <2>t, <3>11 DEF Pivoting
    <3>13. RowsBasic'
      BY <2>r, <3>4, <3>5
    <3>14. \A r, c \in Variable : Cell("preprocessed", r, c)' = Cell("preprocessed", r, c)
      BY <2>2, <3>5 DEF Sets
    <3> QED BY <2>1, <2>t, <3>12, <3>13, <3>14, PivotingKept
  <2>4. CASE Clearing(W, nb, b, k)
    <3>1. PICK P \in Left(byColumn, InColumn("tableau", nb), pivoting.cursor),
               Q \in Left(byRow, InRow("tableau", nb), cursor) :
          /\ op.source = nb /\ op.target \notin {nb, b} /\ ~RowLeft(P, op.target)
          /\ op.scale = W[op.target][nb] /\ op.index = nb /\ op.value = 0
          /\ \A r, c \in Variable :
               Now(r, c) = IF \/ r = op.target /\ ColumnLeft(Q, c)
                              \/ r # nb /\ RowLeft(P, r)
                           THEN W[r][c] ELSE Pivoted(W, nb, b, k, r, c)
      BY <2>4, <2>t DEF Clearing
    <3>2. Q \in Left(byRow, InRow("tableau", op.source), cursor)
      BY <3>1
    <3>3. PICK S : S = Q \ {cursor}
      OBVIOUS
    <3>4. /\ op' = op /\ cursor \in Q
          /\ S \in Left(byRow, InRow("tableau", op.source), cursor)'
          /\ \A e \in S : cell'[e] = cell[e] /\ cell[e].column # cell[cursor].column
          /\ \A e \in live' : \/ e \in live /\ RowList(e)' = RowList(e)
                              \/ RowList(e)' = <<"tableau", op.target>>
          /\ \A R \in SUBSET live : (\A e \in R : RowList(e) # <<"tableau", op.target>>) =>
               Untouched(R)
      BY <1>2, <3>2, <3>3, ScaledTurn
    <3>5. PICK s \in Variable, t \in Variable, i \in Variable, v \in Value :
              /\ s = op.source /\ t = op.target /\ i = cell[cursor].column /\ s # t
              /\ v = IF i = op.index THEN op.value
                     ELSE Plus(Cell("tableau", t, i), Times(Cell("tableau", s, i), op.scale))
              /\ Sets("tableau", t, i, v)
      BY <1>2, <3>2, ScaledTurn
    <3>6. s = nb /\ t \notin {nb, b} /\ ~RowLeft(P, t) /\ op.scale = W[t][nb]
      BY <3>1, <3>5
    <3>7. ColumnLeft(Q, i) /\ \A c : ColumnLeft(S, c)' <=> ColumnLeft(Q, c) /\ c # i
      BY <3>3, <3>4, <3>5, LeftShrinks DEF ColumnLeft
    <3>8. v = Pivoted(W, nb, b, k, t, i)
      <4>1. Cell("tableau", t, i) = W[t][i]
        BY <3>1, <3>5, <3>7 DEF Now
      <4>2. Cell("tableau", nb, i) = NewRow(W, nb, b, k, i)
        BY <3>1, <3>5, <3>6 DEF Now, Pivoted
      <4>3. W[t][nb] \in Value /\ NewRow(W, nb, b, k, i) \in Value
        BY PivotValues
      <4>4. Times(NewRow(W, nb, b, k, i), W[t][nb]) = Times(W[t][nb], NewRow(W, nb, b, k, i))
        BY <4>3, TimesCommutes
      <4> QED BY <3>1, <3>5, <3>6, <4>1, <4>2, <4>4 DEF Pivoted
    <3>p. /\ \A e \in P : e \in live' /\ cell'[e] = cell[e]
          /\ Chain(byColumn', P, pivoting.cursor)
      <4>1. P \in SUBSET live /\ Chain(byColumn, P, pivoting.cursor)
        BY <3>1 DEF Left, InColumn
      <4>2. \A e \in P : RowList(e) # <<"tableau", op.target>>
        BY <3>1 DEF RowLeft, RowList
      <4>3. Untouched(P)
        BY <3>4, <4>1, <4>2
      <4>4. P \in SUBSET P
        OBVIOUS
      <4> QED BY <4>1, <4>3, <4>4 DEF Untouched
    <3>q. P \in Left(byColumn, InColumn("tableau", nb), pivoting.cursor)'
      BY <2>t, <3>1, <3>p DEF Left, InColumn, ColumnList
    <3>9. \A r, c \in Variable :
            Now(r, c)' = IF \/ r = op'.target /\ ColumnLeft(S, c)'
                            \/ r # nb /\ RowLeft(P, r)'
                         THEN W[r][c] ELSE Pivoted(W, nb, b, k, r, c)
      <4> TAKE r, c \in Variable
      <4>1. Cell("tableau", r, c)' = IF r = t /\ c = i THEN v ELSE Cell("tableau", r, c)
        BY <2>2, <3>5 DEF Sets
      <4>2. RowLeft(P, r)' <=> RowLeft(P, r)
        BY <3>p DEF RowLeft
      <4>3. op'.target = t /\ op.target = t
        BY <3>4, <3>5
      <4>4. Now(r, c) = IF \/ r = t /\ ColumnLeft(Q, c)
                           \/ r # nb /\ RowLeft(P, r)
                        THEN W[r][c] ELSE Pivoted(W, nb, b, k, r, c)
        BY <3>1, <4>3
      <4> QED BY <3>6, <3>7, <3>8, <4>1, <4>2, <4>3, <4>4 DEF Now
    <3>10. S \in Left(byRow, InRow("tableau", nb), cursor)'
      BY <3>1, <3>4 DEF Left, InRow
    <3>11. InRow("tableau", b)' = {}
      <4>1. \A e \in live : RowList(e) # <<"tableau", b>>
        BY <2>4 DEF Clearing, InRow
      <4>2. \A e \in live' : RowList(e)' # <<"tableau", b>>
        BY <3>1, <3>4, <4>1
      <4> QED BY <4>2 DEF InRow
    <3>12. ~RowLeft(P, op.target)'
      BY <3>1, <3>4, <3>p DEF RowLeft
    <3>13. Clearing(W, nb, b, k)'
      BY <2>4, <2>t, <3>1, <3>4, <3>9, <3>10, <3>11, <3>12, <3>q DEF Clearing
    <3>14. Pivoting(W)'
      BY <2>1, <2>t, <3>13 DEF Pivoting
    <3>15. RowsBasic'
      BY <2>r, <3>4, <3>5
    <3>16. \A r, c \in Variable : Cell("preprocessed", r, c)' = Cell("preprocessed", r, c)
      BY <2>2, <3>5 DEF Sets
    <3> QED BY <2>1, <2>t, <3>14, <3>15, <3>16, PivotingKept
  <2>5. ~Leaving(W, nb, b, k)
    BY <2>t DEF Leaving
  <2> QED BY <2>1, <2>3, <2>4, <2>5
<1> QED BY <1>1, <1>2

\* A turn of eraseRow, on the row of the leaving variable.
LEMMA EraseRowMatrix ==
  ASSUME LinkedInv, LinkedInv', MatrixInv, EraseRowStep, UNCHANGED <<pivoting, client>>
  PROVE  MatrixInv'
<1>t. /\ op.kind = "eraseRow"
      /\ UNCHANGED <<pivoting, basicVariables, before>>
  BY DEF EraseRowStep, client
<1>1. PICK W \in Cells, nb \in Variable, b \in Variable, k \in Value :
         /\ before["tableau"] = W /\ ~Idle /\ op.kind # "copy"
         /\ pivoting.nonBasic = nb /\ pivoting.basic = b
         /\ nb # b /\ W[b][nb] # 0
         /\ Moving(W, nb, b, k) \/ Leaving(W, nb, b, k) \/ Clearing(W, nb, b, k)
  BY <1>t, WithinPivot
<1>2. Leaving(W, nb, b, k) /\ op.source = b /\ pivoting.stage = "erased"
  BY <1>1, <1>t DEF Moving, Leaving, Clearing
<1>3. /\ live' \subseteq live /\ cell' = cell
      /\ cursor = NULL => op' = NoOp /\ live' = live /\ InRow("tableau", b) = {}
      /\ cursor # NULL => op' = op /\ \E c \in Variable : Sets("tableau", b, c, 0)
  BY <1>2, EraseRowTurn
<1>4. "tableau" \in Matrix /\ "preprocessed" \in Matrix /\ "preprocessed" # "tableau"
  BY DEF Matrix
<1>5. \A m \in Matrix, r, c \in Variable : m # "tableau" \/ r # b =>
        Cell(m, r, c)' = Cell(m, r, c)
  <2>1. CASE cursor = NULL
    BY <1>3, <2>1, SameRead DEF SameCells
  <2>2. CASE cursor # NULL
    BY <1>3, <2>2 DEF Sets
  <2> QED BY <2>1, <2>2
<1>6. /\ op'.kind \in {"none", "eraseRow"}
      /\ op'.kind = "eraseRow" => op'.source = b
      /\ op'.kind = "none" => InRow("tableau", b)' = {}
  <2>1. InRow("tableau", b) = {} => InRow("tableau", b)' = {}
    BY <1>3 DEF InRow, RowList
  <2> QED BY <1>2, <1>3, <1>t, <2>1 DEF NoOp
<1>7. Leaving(W, nb, b, k)'
  BY <1>2, <1>4, <1>5, <1>6, <1>t DEF Leaving, Now
<1>8. Pivoting(W)'
  BY <1>1, <1>7, <1>t DEF Pivoting
<1>9. RowsBasic'
  <2> SUFFICES ASSUME NEW e \in live'
               PROVE  \/ cell[e].row \in basicVariables[cell[e].matrix]
                      \/ /\ cell[e].matrix = "tableau" /\ cell[e].row = b
                         /\ op'.kind = "eraseRow"
    BY <1>1, <1>2, <1>3, <1>6, <1>t DEF RowsBasic
  <2>1. e \in live /\ (\/ cell[e].row \in basicVariables[cell[e].matrix]
                       \/ cell[e].matrix = "tableau" /\ cell[e].row = b)
    BY <1>1, <1>3 DEF MatrixInv, RowsBasic
  <2>2. cell[e].matrix = "tableau" /\ cell[e].row = b => op'.kind = "eraseRow"
    BY <1>3, <1>6, <2>1 DEF InRow, RowList
  <2> QED BY <2>1, <2>2
<1> QED BY <1>1, <1>4, <1>5, <1>8, <1>9, <1>t, PivotingKept

\* Between operations nothing is left to say but where the rows are.
LEMMA IdleKept ==
  ASSUME before' \in [Matrix -> Cells], RowsBasic', Idle'
  PROVE  MatrixInv'
BY DEF MatrixInv, SavedLeft

\* A turn of eraseColumn.
LEMMA EraseColumnMatrix ==
  ASSUME LinkedInv, LinkedInv', MatrixInv, EraseColumnStep, UNCHANGED <<pivoting, client>>
  PROVE  MatrixInv'
<1>t. /\ op.kind = "eraseColumn"
      /\ UNCHANGED <<pivoting, basicVariables, before>>
  BY DEF EraseColumnStep, client
<1>4. "tableau" \in Matrix /\ "preprocessed" \in Matrix /\ "preprocessed" # "tableau"
  BY DEF Matrix
<1>1. PICK W \in Cells : before["tableau"] = W /\ Erasing(W) /\ ~Idle /\ pivoting.stage = "none"
  BY <1>t, <1>4 DEF MatrixInv, Idle, Returned, Pivoting, Moving, Leaving, Clearing, Merging,
                    Erasing, Copied
<1>2. PICK s \in Variable :
        /\ s = op.source /\ live' \subseteq live /\ cell' = cell
        /\ cursor = NULL => op' = NoOp /\ live' = live
        /\ cursor # NULL => op' = op /\ \E r \in Variable : Sets("tableau", r, s, 0)
  BY EraseColumnTurn
<1>3. RowsBasic'
  <2>1. op'.kind # "addScaledRow"
    BY <1>2, <1>t DEF NoOp
  <2>2. \A e \in live' : cell[e].row \in basicVariables[cell[e].matrix]
    BY <1>1, <1>2 DEF MatrixInv, RowsBasic
  <2> QED BY <1>2, <1>t, <2>1, <2>2 DEF RowsBasic
<1>5. CASE cursor = NULL
  <2>1. Idle'
    BY <1>1, <1>2, <1>5, <1>t DEF Idle, Returned, NoOp
  <2> QED BY <1>3, <1>t, <2>1, IdleKept DEF MatrixInv
<1>6. CASE cursor # NULL
  <2>1. \A m \in Matrix, r, c \in Variable : m # "tableau" \/ c # s =>
          Cell(m, r, c)' = Cell(m, r, c)
    BY <1>2, <1>6 DEF Sets
  <2>2. op' = op
    BY <1>2, <1>6
  <2>3. PICK f \in Variable : \A r, c \in Variable : c # op.source =>
          Now(r, c) = IF c = f THEN Plus(W[r][c], W[r][op.source]) ELSE W[r][c]
    BY <1>1 DEF Erasing
  <2>4. \A r, c \in Variable : c # op'.source =>
          Now(r, c)' = IF c = f THEN Plus(W[r][c], W[r][op'.source]) ELSE W[r][c]
    BY <1>2, <1>4, <2>1, <2>2, <2>3 DEF Now
  <2>5. Erasing(W)'
    BY <1>1, <1>t, <2>2, <2>4 DEF Erasing
  <2> QED BY <1>1, <1>3, <1>4, <1>t, <2>1, <2>5, PivotingKept
<1> QED BY <1>5, <1>6

\* A turn of addColumnEraseSource, or its call of eraseColumn.
LEMMA AddColumnMatrix ==
  ASSUME LinkedInv, LinkedInv', MatrixInv, AddColumnStep, UNCHANGED <<pivoting, client>>
  PROVE  MatrixInv'
<1>t. /\ op.kind = "addColumn"
      /\ UNCHANGED <<pivoting, basicVariables, before>>
  BY DEF AddColumnStep, client
<1>1. "tableau" \in Matrix /\ "preprocessed" \in Matrix /\ "preprocessed" # "tableau"
  BY DEF Matrix
<1>2. PICK W \in Cells : before["tableau"] = W /\ Merging(W) /\ ~Idle /\ pivoting.stage = "none"
  BY <1>t, <1>1 DEF MatrixInv, Idle, Returned, Pivoting, Moving, Leaving, Clearing, Merging,
                    Erasing, Copied
<1>3. PICK s \in Variable, t \in Variable : s = op.source /\ t = op.target /\ s # t
  BY <1>t, Typing DEF LinkedInv, ScanInv
<1>4. PICK Q \in Left(byColumn, InColumn("tableau", op.source), cursor) :
        \A r, c \in Variable : c # s \/ RowLeft(Q, r) =>
          Now(r, c) = IF c = t /\ ~RowLeft(Q, r) THEN Plus(W[r][c], W[r][s]) ELSE W[r][c]
  BY <1>2, <1>3 DEF Merging
<1>5. CASE cursor = NULL
  <2>1. /\ op' = [NoOp EXCEPT !.kind = "eraseColumn", !.source = op.source]
        /\ UNCHANGED <<live, cell>>
    BY <1>5 DEF AddColumnStep, EraseColumn, heap
  <2>2. op'.kind = "eraseColumn" /\ op'.source = s
    BY <1>3, <2>1 DEF NoOp
  <2>3. Q = {}
    <3>1. NULL \notin InColumn("tableau", op.source)
      BY Typing DEF LinkedInv, InColumn
    <3> QED BY <1>4, <1>5, <3>1, NothingLeft
  <2>4. SameCells
    BY <2>1, SameRead
  <2>5. \A r, c \in Variable : c # s =>
          Now(r, c)' = IF c = t THEN Plus(W[r][c], W[r][s]) ELSE W[r][c]
    BY <1>1, <1>4, <2>3, <2>4 DEF SameCells, Now, RowLeft
  <2>6. Erasing(W)'
    BY <1>2, <1>t, <2>2, <2>5 DEF Erasing
  <2>7. RowsBasic'
    BY <1>2, <1>t, <2>1, <2>2 DEF MatrixInv, RowsBasic
  <2> QED BY <1>1, <1>2, <1>t, <2>4, <2>6, <2>7, PivotingKept DEF SameCells
<1>6. CASE cursor # NULL
  <2>1. PICK S : S = Q \ {cursor}
    OBVIOUS
  <2>2. /\ op' = op /\ cursor \in Q
        /\ S \in Left(byColumn, InColumn("tableau", op.source), cursor)'
        /\ \A e \in S : cell'[e] = cell[e] /\ cell[e].row # cell[cursor].row
        /\ \A e \in live' : e \in live /\ RowList(e)' = RowList(e)
    BY <1>4, <1>6, <2>1, ColumnTurn
  <2>3. PICK i \in Variable :
          /\ i = cell[cursor].row
          /\ \A n \in Matrix, r, c \in Variable : ~(n = "tableau" /\ r = i /\ c = s) =>
               Cell(n, r, c)' = IF n = "tableau" /\ r = i /\ c = t
                                THEN Plus(Cell("tableau", i, t), Cell("tableau", i, s))
                                ELSE Cell(n, r, c)
    <3>1. PICK ss \in Variable, tt \in Variable, i \in Variable :
            /\ ss = op.source /\ tt = op.target /\ i = cell[cursor].row /\ ss # tt
            /\ \A n \in Matrix, r, c \in Variable : ~(n = "tableau" /\ r = i /\ c = ss) =>
                 Cell(n, r, c)' = IF n = "tableau" /\ r = i /\ c = tt
                                  THEN Plus(Cell("tableau", i, tt), Cell("tableau", i, ss))
                                  ELSE Cell(n, r, c)
      BY <1>4, <1>6, ColumnTurn
    <3>2. ss = s /\ tt = t
      BY <1>3, <3>1
    <3> QED BY <3>1, <3>2
  <2>4. RowLeft(Q, i) /\ \A r : RowLeft(S, r)' <=> RowLeft(Q, r) /\ r # i
    BY <2>1, <2>2, <2>3, LeftShrinks DEF RowLeft
  <2>5. Cell("tableau", i, t) = W[i][t] /\ Cell("tableau", i, s) = W[i][s]
    BY <1>3, <1>4, <2>4 DEF Now
  <2>6. \A r, c \in Variable : c # s \/ RowLeft(S, r)' =>
          Now(r, c)' = IF c = t /\ ~RowLeft(S, r)' THEN Plus(W[r][c], W[r][s]) ELSE W[r][c]
    <3> TAKE r, c \in Variable
    <3> SUFFICES ASSUME c # s \/ RowLeft(S, r)'
                 PROVE  Cell("tableau", r, c)' =
                          IF c = t /\ ~RowLeft(S, r)' THEN Plus(W[r][c], W[r][s]) ELSE W[r][c]
      BY DEF Now
    <3>1. ~(r = i /\ c = s)
      BY <2>4
    <3>2. Cell("tableau", r, c)' = IF r = i /\ c = t THEN Plus(W[i][t], W[i][s])
                                   ELSE Cell("tableau", r, c)
      BY <1>1, <2>3, <2>5, <3>1
    <3>3. c # s \/ RowLeft(Q, r) => Cell("tableau", r, c) =
            IF c = t /\ ~RowLeft(Q, r) THEN Plus(W[r][c], W[r][s]) ELSE W[r][c]
      BY <1>4 DEF Now
    <3> QED BY <2>4, <3>2, <3>3
  <2>7. Merging(W)'
    BY <1>2, <1>3, <1>t, <2>2, <2>6 DEF Merging
  <2>8. RowsBasic'
    <3> SUFFICES ASSUME NEW e \in live'
                 PROVE  cell'[e].row \in basicVariables[cell'[e].matrix]
      BY <1>2, <1>t, <2>2 DEF RowsBasic
    <3>1. e \in live /\ cell'[e].row = cell[e].row /\ cell'[e].matrix = cell[e].matrix
      BY <2>2 DEF RowList
    <3> QED BY <1>2, <3>1 DEF MatrixInv, RowsBasic
  <2>9. \A r, c \in Variable : Cell("preprocessed", r, c)' = Cell("preprocessed", r, c)
    BY <1>1, <2>3
  <2> QED BY <1>2, <1>t, <2>7, <2>8, <2>9, PivotingKept
<1> QED BY <1>5, <1>6

\* A turn of backupIntoMatrix, within a row or on to the next.
LEMMA CopyMatrix ==
  ASSUME LinkedInv, LinkedInv', MatrixInv, CopyStep, UNCHANGED <<pivoting, client>>
  PROVE  MatrixInv'
<1>t. op.kind = "copy" /\ UNCHANGED <<pivoting, basicVariables, before>>
  BY DEF CopyStep, client
<1>1. Copied
  BY <1>t DEF MatrixInv, Idle, Returned, Pivoting, Moving, Leaving, Clearing, Merging, Erasing
<1>2. PICK Q \in Left(byRow, InRow(op.matrix, op.source), cursor) :
        \A n \in Matrix, r, c \in Variable :
         Cell(n, r, c) =
           IF n # op.matrix /\ (r > op.source \/ (r = op.source /\ ColumnLeft(Q, c)))
           THEN 0 ELSE before[op.matrix][r][c]
  BY <1>1 DEF Copied
<1>3. PICK m \in Matrix, o \in Matrix, s \in Variable :
           /\ m = op.matrix /\ o # m /\ s = op.source
           /\ cursor = NULL =>
                /\ Q = {} /\ UNCHANGED <<live, cell>>
                /\ s + 1 \in Variable =>
                     /\ op'.kind = "copy" /\ op'.matrix = m /\ op'.source = s + 1
                     /\ InRow(m, s + 1) \in Left(byRow, InRow(op.matrix, op.source), cursor)'
                /\ s + 1 \notin Variable => op' = NoOp
           /\ cursor # NULL =>
                /\ op' = op /\ cursor \in Q
                /\ Q \ {cursor} \in Left(byRow, InRow(op.matrix, op.source), cursor)'
                /\ \A e \in Q \ {cursor} : cell'[e] = cell[e]
                                           /\ cell[e].column # cell[cursor].column
                /\ \E c \in Variable : c = cell[cursor].column /\ Sets(o, s, c, Cell(m, s, c))
           /\ \A e \in live' : \/ e \in live /\ RowList(e)' = RowList(e)
                               \/ \E d \in live : /\ cell'[e].matrix = o /\ cell[d].matrix = m
                                                  /\ cell'[e].row = cell[d].row
  BY CopyTurn
<1>4. /\ pivoting.stage = "none" /\ basicVariables["tableau"] = basicVariables["preprocessed"]
      /\ \A n \in Matrix : n # m => n = o
  BY <1>1, <1>3 DEF Copied, Matrix
<1>5. op'.kind # "addScaledRow"
  BY <1>3, <1>t DEF NoOp
<1>6. RowsBasic'
  <2> SUFFICES ASSUME NEW e \in live'
               PROVE  cell'[e].row \in basicVariables[cell'[e].matrix]
    BY <1>5, <1>t DEF RowsBasic
  <2>1. \A d \in live : cell[d].row \in basicVariables[cell[d].matrix]
    BY <1>4 DEF MatrixInv, RowsBasic
  <2>2. basicVariables[m] = basicVariables[o]
    BY <1>4 DEF Matrix
  <2>3. CASE e \in live /\ RowList(e)' = RowList(e)
    BY <2>1, <2>3 DEF RowList
  <2>4. CASE \E d \in live : /\ cell'[e].matrix = o /\ cell[d].matrix = m
                             /\ cell'[e].row = cell[d].row
    BY <2>1, <2>2, <2>4
  <2> QED BY <1>3, <2>3, <2>4
<1>7. ASSUME NEW s2 \in Variable, op'.kind = "copy", op'.matrix = m, op'.source = s2,
             NEW R \in Left(byRow, InRow(op.matrix, op.source), cursor)',
             \A n \in Matrix, r, c \in Variable :
               Cell(n, r, c)' = IF n # m /\ (r > s2 \/ (r = s2 /\ ColumnLeft(R, c)'))
                                THEN 0 ELSE before[m][r][c]
      PROVE  MatrixInv'
  <2>1. Copied'
    BY <1>4, <1>7, <1>t DEF Copied
  <2>2. SavedLeft'
    BY <1>7 DEF SavedLeft
  <2> QED BY <1>6, <1>t, <2>1, <2>2 DEF MatrixInv
<1>i. \A r \in Variable : r \in Int
  BY Constants DEF Variable
<1>8. CASE cursor = NULL /\ s + 1 \notin Variable
  <2>1. Idle'
    BY <1>3, <1>4, <1>8, <1>t DEF Idle, Returned, NoOp
  <2> QED BY <1>6, <1>t, <2>1, IdleKept DEF MatrixInv
<1>9. CASE cursor = NULL /\ s + 1 \in Variable
  <2>0. PICK s2 \in Variable : s2 = s + 1
    BY <1>9
  <2>1. PICK R : s2 = s + 1 /\ R = InRow(m, s + 1)
    BY <2>0
  <2>2. /\ op'.kind = "copy" /\ op'.matrix = m /\ op'.source = s2
        /\ R \in Left(byRow, InRow(op.matrix, op.source), cursor)'
        /\ UNCHANGED <<live, cell>> /\ Q = {}
    BY <1>3, <1>9, <2>1
  <2>3. SameCells
    BY <2>2, SameRead
  <2>4. \A c \in Variable : ~ColumnLeft(R, c) => Cell(m, s2, c) = 0
    <3>1. HeapType /\ CellsUnique
      BY Typing DEF LinkedInv, HeapLinked
    <3>2. R = {e \in live : cell[e].matrix = m /\ cell[e].row = s2}
      BY <2>1, <3>1, Keys
    <3>3. ASSUME NEW c \in Variable, ~ColumnLeft(R, c)
          PROVE  Cell(m, s2, c) = 0
      <4>1. \A e \in live : ~PlacedAt(e, m, s2, c)
        BY <3>2, <3>3 DEF PlacedAt, ColumnLeft
      <4> QED BY <3>1, <4>1, Reading
    <3> QED BY <3>3
  <2>5. \A n \in Matrix, r, c \in Variable :
               Cell(n, r, c)' = IF n # m /\ (r > s2 \/ (r = s2 /\ ColumnLeft(R, c)'))
                                THEN 0 ELSE before[m][r][c]
    <3> TAKE n \in Matrix, r, c \in Variable
    <3>1. ColumnLeft(R, c)' <=> ColumnLeft(R, c)
      BY <2>2 DEF ColumnLeft
    <3>2. r > s <=> r > s2 \/ r = s2
      BY <1>i, <2>1
    <3>3. Cell(n, r, c) = IF n # m /\ r > s THEN 0 ELSE before[m][r][c]
      BY <1>2, <1>3, <2>2 DEF ColumnLeft
    <3>4. Cell(m, r, c) = before[m][r][c]
      BY <1>2, <1>3
    <3>5. Cell(n, r, c)' = Cell(n, r, c)
      BY <2>3 DEF SameCells
    <3>6. ~(r > s2 /\ r = s2)
      BY <1>i
    <3> QED BY <2>4, <3>1, <3>2, <3>3, <3>4, <3>5, <3>6
  <2> QED BY <1>7, <2>2, <2>5
<1>10. CASE cursor # NULL
  <2>1. PICK S : S = Q \ {cursor}
    OBVIOUS
  <2>2. /\ op' = op /\ cursor \in Q
        /\ S \in Left(byRow, InRow(op.matrix, op.source), cursor)'
        /\ \A e \in S : cell'[e] = cell[e] /\ cell[e].column # cell[cursor].column
    BY <1>3, <1>10, <2>1
  <2>3. PICK j \in Variable : j = cell[cursor].column /\ Sets(o, s, j, Cell(m, s, j))
    BY <1>3, <1>10
  <2>4. ColumnLeft(Q, j) /\ \A c : ColumnLeft(S, c)' <=> ColumnLeft(Q, c) /\ c # j
    BY <2>1, <2>2, <2>3, LeftShrinks DEF ColumnLeft
  <2>5. \A n \in Matrix, r, c \in Variable :
               Cell(n, r, c)' = IF n # m /\ (r > s \/ (r = s /\ ColumnLeft(S, c)'))
                                THEN 0 ELSE before[m][r][c]
    <3> TAKE n \in Matrix, r, c \in Variable
    <3>1. Cell(n, r, c)' = IF n = o /\ r = s /\ c = j THEN Cell(m, s, j) ELSE Cell(n, r, c)
      BY <2>3 DEF Sets
    <3>2. Cell(m, s, j) = before[m][s][j]
      BY <1>2, <1>3
    <3>3. Cell(n, r, c) = IF n # m /\ (r > s \/ (r = s /\ ColumnLeft(Q, c)))
                          THEN 0 ELSE before[m][r][c]
      BY <1>2, <1>3
    <3>4. ~(s > s)
      BY <1>i
    <3> QED BY <1>3, <1>4, <2>4, <3>1, <3>2, <3>3, <3>4
  <2> QED BY <1>3, <1>7, <1>t, <2>2, <2>5
<1> QED BY <1>8, <1>9, <1>10

\* The row has been moved; the one it came from is erased.
LEMMA PivotEraseRowMatrix ==
  ASSUME LinkedInv, MatrixInv, PivotEraseRow
  PROVE  MatrixInv'
<1>1. PICK W \in Cells, nb \in Variable, b \in Variable, k \in Value :
         /\ before["tableau"] = W /\ ~Idle /\ op.kind # "copy"
         /\ pivoting.nonBasic = nb /\ pivoting.basic = b
         /\ nb # b /\ W[b][nb] # 0
         /\ Moving(W, nb, b, k) \/ Leaving(W, nb, b, k) \/ Clearing(W, nb, b, k)
  BY WithinPivot DEF PivotEraseRow
<1>2. Moving(W, nb, b, k) /\ pivoting.stage = "moved" /\ op.kind = "none" /\ cursor = NULL
  BY <1>1 DEF PivotEraseRow, Returned, Leaving, Clearing, LinkedInv, ScanInv
<1>3. /\ UNCHANGED <<live, cell, basicVariables, before>>
      /\ op'.kind = "eraseRow" /\ op'.source = b
      /\ pivoting' = [pivoting EXCEPT !.stage = "erased"]
  BY <1>1 DEF PivotEraseRow, EraseRow, NoOp, heap, client
<1>4. /\ pivoting'.stage = "erased" /\ pivoting'.nonBasic = nb /\ pivoting'.basic = b
  BY <1>1, <1>3, Typing DEF LinkedInv, PivotOK
<1>5. SameCells /\ "tableau" \in Matrix /\ "preprocessed" \in Matrix
  BY <1>3, SameRead DEF Matrix
<1>6. \A r, c \in Variable :
        Now(r, c) = IF r # nb THEN W[r][c] ELSE NewRow(W, nb, b, k, c)
  <2>1. PICK Q \in Left(byRow, InRow("tableau", b), cursor) : \A r, c \in Variable :
          Now(r, c) = IF r # nb THEN W[r][c]
                      ELSE IF ColumnLeft(Q, c) THEN 0 ELSE NewRow(W, nb, b, k, c)
    BY <1>2 DEF Moving
  <2>2. NULL \notin InRow("tableau", b)
    BY Typing DEF LinkedInv, InRow
  <2>3. Q = {}
    BY <1>2, <2>1, <2>2, NothingLeft
  <2> QED BY <2>1, <2>3 DEF ColumnLeft
<1>7. Leaving(W, nb, b, k)'
  BY <1>3, <1>4, <1>5, <1>6 DEF Leaving, Now, SameCells
<1>8. Pivoting(W)'
  BY <1>1, <1>4, <1>7 DEF Pivoting
<1>9. RowsBasic'
  BY <1>1, <1>2, <1>3, <1>4 DEF MatrixInv, RowsBasic
<1> QED BY <1>1, <1>3, <1>5, <1>8, <1>9, PivotingKept DEF SameCells

\* A row whose list is all still to come: its other cells are zero.
LEMMA RowWhole ==
  ASSUME LinkedInv, NEW r \in Variable, NEW c \in Variable
  PROVE  /\ ~ColumnLeft(InRow("tableau", r), c) => Cell("tableau", r, c) = 0
         /\ ~RowLeft(InColumn("tableau", c), r) => Cell("tableau", r, c) = 0
<1>1. HeapType /\ CellsUnique /\ "tableau" \in Matrix
  BY Typing DEF LinkedInv, HeapLinked, Matrix
<1>2. /\ InRow("tableau", r) = {e \in live : cell[e].matrix = "tableau" /\ cell[e].row = r}
      /\ InColumn("tableau", c) = {e \in live : cell[e].matrix = "tableau" /\ cell[e].column = c}
  BY <1>1, Keys
<1>3. (\A e \in live : ~PlacedAt(e, "tableau", r, c)) => Cell("tableau", r, c) = 0
  BY <1>1, Reading
<1> QED BY <1>2, <1>3 DEF ColumnLeft, RowLeft, PlacedAt

\* It is erased; all of the column is to come, and what is not in it is done.
LEMMA PivotReadColumnMatrix ==
  ASSUME LinkedInv, MatrixInv, PivotReadColumn
  PROVE  MatrixInv'
<1>1. PICK W \in Cells, nb \in Variable, b \in Variable, k \in Value :
         /\ before["tableau"] = W /\ ~Idle /\ op.kind # "copy"
         /\ pivoting.nonBasic = nb /\ pivoting.basic = b
         /\ nb # b /\ W[b][nb] # 0
         /\ Moving(W, nb, b, k) \/ Leaving(W, nb, b, k) \/ Clearing(W, nb, b, k)
  BY WithinPivot DEF PivotReadColumn
<1>2. Leaving(W, nb, b, k) /\ pivoting.stage = "erased" /\ op.kind = "none" /\ cursor = NULL
  BY <1>1 DEF PivotReadColumn, Returned, Moving, Clearing, LinkedInv, ScanInv
<1>3. /\ UNCHANGED <<live, cell, byRow, byColumn, op, cursor, basicVariables, before>>
      /\ pivoting' = [pivoting EXCEPT !.stage = "column",
                        !.cursor = byColumn.head[<<"tableau", pivoting.nonBasic>>]]
  BY DEF PivotReadColumn, heap, client
<1>4. /\ pivoting'.stage = "column" /\ pivoting'.nonBasic = nb /\ pivoting'.basic = b
      /\ pivoting'.cursor = byColumn.head[<<"tableau", nb>>]
  BY <1>1, <1>3, Typing DEF LinkedInv, PivotOK
<1>5. SameCells /\ "tableau" \in Matrix /\ "preprocessed" \in Matrix
  BY <1>3, SameRead DEF Matrix
<1>6. PICK P : P = InColumn("tableau", nb)
  OBVIOUS
<1>7. P \in Left(byColumn, InColumn("tableau", nb), pivoting.cursor)'
  <2>1. P \in Left(byColumn, InColumn("tableau", nb), byColumn.head[<<"tableau", nb>>])
    BY <1>2, <1>6, WholeLists
  <2> QED BY <1>3, <1>4, <2>1 DEF Left, InColumn, ColumnList
<1>8. PICK Q : Q = {} /\ Q \in Left(byRow, InRow("tableau", nb), cursor)'
  <2>1. PICK Q : Q = {}
    OBVIOUS
  <2>2. Q \in Left(byRow, InRow("tableau", nb), cursor)'
    BY <1>2, <1>3, <2>1 DEF Left, Chain
  <2> QED BY <2>1, <2>2
<1>9. InRow("tableau", b) = {} /\ InRow("tableau", b)' = {}
  BY <1>2, <1>3 DEF Leaving, InRow, RowList
<1>10. \A r, c \in Variable :
         Now(r, c)' = IF \/ r = op'.target /\ ColumnLeft(Q, c)'
                         \/ r # nb /\ RowLeft(P, r)'
                      THEN W[r][c] ELSE Pivoted(W, nb, b, k, r, c)
  <2> TAKE r, c \in Variable
  <2>1. RowLeft(P, r)' <=> RowLeft(P, r)
    BY <1>3 DEF RowLeft
  <2>2. ~ColumnLeft(Q, c)'
    BY <1>8 DEF ColumnLeft
  <2>3. Now(r, c)' = Cell("tableau", r, c)
    BY <1>5 DEF SameCells, Now
  <2>4. r # b => Cell("tableau", r, c) = IF r = nb THEN NewRow(W, nb, b, k, c) ELSE W[r][c]
    BY <1>2 DEF Leaving, Now
  <2>5. CASE r = nb
    BY <1>1, <2>1, <2>2, <2>3, <2>4, <2>5 DEF Pivoted
  <2>6. CASE r = b
    <3>1. Cell("tableau", r, c) = 0
      BY <1>9, <2>6, RowWhole DEF ColumnLeft
    <3>2. ~RowLeft(P, r)
      BY <1>6, <1>9, <2>6 DEF RowLeft, InRow, InColumn, RowList, ColumnList
    <3> QED BY <1>1, <2>1, <2>2, <2>3, <2>6, <3>1, <3>2 DEF Pivoted
  <2>7. CASE r # nb /\ r # b /\ ~RowLeft(P, r)
    <3>1. W[r][nb] = 0
      <4>1. Cell("tableau", r, nb) = 0
        BY <1>6, <2>7, RowWhole
      <4> QED BY <1>2, <2>7, <4>1 DEF Leaving, Now
    <3>2. /\ W[r][c] \in Value /\ NewRow(W, nb, b, k, c) \in Value
      BY PivotValues
    <3>3. Plus(W[r][c], Times(W[r][nb], NewRow(W, nb, b, k, c))) = W[r][c]
      BY <3>1, <3>2, Zeros
    <3> QED BY <2>1, <2>2, <2>3, <2>4, <2>7, <3>1, <3>3 DEF Pivoted
  <2>8. CASE r # nb /\ r # b /\ RowLeft(P, r)
    BY <2>1, <2>3, <2>4, <2>8
  <2> QED BY <2>5, <2>6, <2>7, <2>8
<1>11. Clearing(W, nb, b, k)'
  BY <1>2, <1>3, <1>4, <1>7, <1>8, <1>9, <1>10 DEF Clearing
<1>12. Pivoting(W)'
  BY <1>1, <1>4, <1>11 DEF Pivoting
<1>13. RowsBasic'
  <2>1. \A e \in live : cell[e].row \in basicVariables[cell[e].matrix]
    BY <1>2 DEF MatrixInv, RowsBasic
  <2> QED BY <1>2, <1>3, <2>1 DEF RowsBasic
<1> QED BY <1>1, <1>3, <1>5, <1>12, <1>13, PivotingKept DEF SameCells

\* A turn of the loop of pivot goes on, or begins to clear a cell of the column.
LEMMA PivotClearCellMatrix ==
  ASSUME LinkedInv, MatrixInv, PivotClearCell
  PROVE  MatrixInv'
<1>1. PICK W \in Cells, nb \in Variable, b \in Variable, k \in Value :
         /\ before["tableau"] = W /\ ~Idle /\ op.kind # "copy"
         /\ pivoting.nonBasic = nb /\ pivoting.basic = b
         /\ nb # b /\ W[b][nb] # 0
         /\ Moving(W, nb, b, k) \/ Leaving(W, nb, b, k) \/ Clearing(W, nb, b, k)
  BY WithinPivot DEF PivotClearCell
<1>2. Clearing(W, nb, b, k) /\ pivoting.stage = "column" /\ op.kind = "none" /\ cursor = NULL
  BY <1>1 DEF PivotClearCell, Returned, Moving, Leaving, LinkedInv, ScanInv
<1>3. UNCHANGED <<live, cell, byRow, byColumn, basicVariables, before>>
  BY DEF PivotClearCell, AddScaledRow, heap, client
<1>4. SameCells /\ "tableau" \in Matrix /\ "preprocessed" \in Matrix
  BY <1>3, SameRead DEF Matrix
<1>5. PICK P \in Left(byColumn, InColumn("tableau", nb), pivoting.cursor),
           Q \in Left(byRow, InRow("tableau", nb), cursor) :
         \A r, c \in Variable :
            Now(r, c) = IF \/ r = op.target /\ ColumnLeft(Q, c)
                           \/ r # nb /\ RowLeft(P, r)
                        THEN W[r][c] ELSE Pivoted(W, nb, b, k, r, c)
  BY <1>2 DEF Clearing
<1>n. NULL \notin live
  BY Typing DEF LinkedInv
<1>6. Q = {} /\ \A r, c \in Variable :
        Cell("tableau", r, c) = IF r # nb /\ RowLeft(P, r)
                                THEN W[r][c] ELSE Pivoted(W, nb, b, k, r, c)
  <2>1. NULL \notin InRow("tableau", nb)
    BY <1>n DEF InRow
  <2>2. Q = {}
    BY <1>2, <1>5, <2>1, NothingLeft
  <2> QED BY <1>5, <2>2 DEF ColumnLeft, Now
<1>7. \A e \in live : cell[e].row \in basicVariables[cell[e].matrix]
  BY <1>2 DEF MatrixInv, RowsBasic
<1>8. CASE pivoting.cursor = NULL
  <2>1. pivoting' = NoPivot /\ op' = op
    BY <1>8 DEF PivotClearCell
  <2>2. Idle'
    BY <1>2, <2>1 DEF Idle, Returned, NoPivot
  <2>3. RowsBasic'
    BY <1>2, <1>3, <1>7, <2>1 DEF RowsBasic
  <2> QED BY <1>3, <2>2, <2>3, IdleKept DEF MatrixInv
<1>9. CASE pivoting.cursor # NULL
  <2>1. PICK current : current = pivoting.cursor
    OBVIOUS
  <2>2. PICK S : S = P \ {current}
    OBVIOUS
  <2>3. /\ P \subseteq live /\ Chain(byColumn, P, current) /\ NULL \notin P
        /\ \A e \in P : ColumnList(e) = <<"tableau", nb>>
    BY <1>5, <1>n, <2>1 DEF Left, InColumn
  <2>4. current \in P /\ Chain(byColumn, S, byColumn.next[current])
    BY <1>9, <2>1, <2>2, <2>3, ChainTail
  <2>5. PICK row \in Variable : row = cell[current].row
    BY <2>3, <2>4, CellFacts, Typing DEF LinkedInv
  <2>6. /\ pivoting' = [pivoting EXCEPT !.cursor = byColumn.next[current]]
        /\ row = nb => UNCHANGED <<op, cursor>>
        /\ row # nb => AddScaledRow(nb, cell[current].value, row, nb, 0)
    BY <1>1, <1>9, <2>1, <2>5 DEF PivotClearCell
  <2>7. /\ pivoting'.stage = "column" /\ pivoting'.nonBasic = nb /\ pivoting'.basic = b
        /\ pivoting'.cursor = byColumn.next[current]
    BY <1>1, <1>2, <2>6, Typing DEF LinkedInv, PivotOK
  <2>8. S \in Left(byColumn, InColumn("tableau", nb), pivoting.cursor)'
    BY <1>3, <2>2, <2>3, <2>4, <2>7 DEF Left, InColumn, ColumnList
  <2>9. InRow("tableau", b) = {} /\ InRow("tableau", b)' = {}
    BY <1>2, <1>3 DEF Clearing, InRow, RowList
  <2>10. \A r \in Variable : RowLeft(S, r)' <=> RowLeft(P, r) /\ r # row
    <3>1. \A e \in S : cell[e].row # row
      <4>1. ASSUME NEW e \in S, cell[e].row = row
            PROVE  FALSE
        <5>1. e \in live /\ current \in live /\ e # current /\ ColumnList(e) = ColumnList(current)
          BY <2>2, <2>3, <2>4
        <5>2. RowList(e) = RowList(current)
          BY <5>1, <4>1, <2>5 DEF RowList, ColumnList
        <5> QED BY <5>1, <5>2 DEF LinkedInv, HeapLinked, CellsUnique
      <4> QED BY <4>1
    <3> QED BY <1>3, <2>2, <2>5, <3>1 DEF RowLeft
  <2>11. current \in live /\ RowLeft(P, row) /\ row # b
    <3>1. RowList(current) # <<"tableau", b>>
      BY <2>3, <2>4, <2>9 DEF InRow
    <3>2. RowList(current) = <<"tableau", row>>
      BY <2>3, <2>4, <2>5 DEF RowList, ColumnList
    <3> QED BY <2>3, <2>4, <2>5, <3>1, <3>2 DEF RowLeft
  <2>12. ASSUME Clearing(W, nb, b, k)', RowsBasic'
         PROVE  MatrixInv'
    <3>1. Pivoting(W)'
      BY <1>1, <2>7, <2>12 DEF Pivoting
    <3> QED BY <1>1, <1>3, <1>4, <2>12, <3>1, PivotingKept DEF SameCells
  <2>13. CASE row = nb
    <3>1. op' = op /\ cursor' = cursor
      BY <2>6, <2>13
    <3>2. Q \in Left(byRow, InRow("tableau", nb), cursor)'
      BY <1>3, <1>5, <3>1 DEF Left, InRow, RowList
    <3>3. \A r, c \in Variable :
            Now(r, c)' = IF \/ r = op'.target /\ ColumnLeft(Q, c)'
                            \/ r # nb /\ RowLeft(S, r)'
                         THEN W[r][c] ELSE Pivoted(W, nb, b, k, r, c)
      BY <1>4, <1>6, <2>10, <2>13 DEF SameCells, Now, ColumnLeft
    <3>4. Clearing(W, nb, b, k)'
      BY <1>2, <2>7, <2>8, <2>9, <3>1, <3>2, <3>3 DEF Clearing
    <3>5. RowsBasic'
      BY <1>2, <1>3, <1>7, <3>1 DEF RowsBasic
    <3> QED BY <2>12, <3>4, <3>5
  <2>14. CASE row # nb
    <3>n. \A c \in Variable : Cell("tableau", nb, c) = NewRow(W, nb, b, k, c)
      BY <1>6 DEF Pivoted
    <3>r. PICK R : R = InRow("tableau", nb)
      OBVIOUS
    <3>0. \A c \in Variable : ~ColumnLeft(R, c) => NewRow(W, nb, b, k, c) = 0
      BY <3>n, <3>r, RowWhole
    <3>1. byRow.head[<<"tableau", nb>>] # NULL
      <4>1. NewRow(W, nb, b, k, nb) # 0
        BY Constants DEF NewRow
      <4>2. R # {}
        BY <3>0, <4>1 DEF ColumnLeft
      <4>3. Chain(byRow, R, byRow.head[<<"tableau", nb>>]) /\ NULL \notin R
        BY <1>2, <1>n, <3>r, WholeLists DEF Left, InRow
      <4> QED BY <4>2, <4>3 DEF Chain
    <3>2. /\ op' = [kind |-> "addScaledRow", matrix |-> "tableau", source |-> nb, target |-> row,
                    scale |-> cell[current].value, index |-> nb, value |-> 0]
          /\ cursor' = byRow.head[<<"tableau", nb>>]
      BY <2>6, <2>14, <3>1 DEF AddScaledRow
    <3>3. /\ op'.kind = "addScaledRow" /\ op'.source = nb /\ op'.target = row
          /\ op'.scale = cell[current].value /\ op'.index = nb /\ op'.value = 0
      BY <3>2
    <3>4. cell[current].value = W[row][nb]
      <4>1. Cell("tableau", row, nb) = W[row][nb]
        BY <1>6, <2>11, <2>14
      <4>2. PlacedAt(current, "tableau", row, nb)
        BY <2>3, <2>4, <2>5 DEF PlacedAt, ColumnList
      <4>3. HeapType /\ CellsUnique
        BY Typing DEF LinkedInv, HeapLinked
      <4> QED BY <1>4, <2>11, <4>1, <4>2, <4>3, Reading
    <3>5. R \in Left(byRow, InRow("tableau", nb), cursor)'
      <4>1. R \in Left(byRow, InRow("tableau", nb), byRow.head[<<"tableau", nb>>])
        BY <1>2, <3>r, WholeLists
      <4> QED BY <1>3, <3>2, <4>1 DEF Left, InRow, RowList
    <3>6. \A r, c \in Variable :
            Now(r, c)' = IF \/ r = op'.target /\ ColumnLeft(R, c)'
                            \/ r # nb /\ RowLeft(S, r)'
                         THEN W[r][c] ELSE Pivoted(W, nb, b, k, r, c)
      <4> TAKE r, c \in Variable
      <4>1. ColumnLeft(R, c)' <=> ColumnLeft(R, c)
        BY <1>3 DEF ColumnLeft
      <4>2. Now(r, c)' = Cell("tableau", r, c)
        BY <1>4 DEF SameCells, Now
      <4>3. CASE r # row
        BY <1>6, <2>10, <3>3, <4>2, <4>3
      <4>4. CASE r = row /\ ColumnLeft(R, c)
        BY <1>6, <2>11, <2>14, <3>3, <4>1, <4>2, <4>4
      <4>5. CASE r = row /\ ~ColumnLeft(R, c)
        <5>1. NewRow(W, nb, b, k, c) = 0 /\ c # nb
          BY <3>0, <4>5, Constants DEF NewRow
        <5>2. W[r][c] \in Value /\ W[r][nb] \in Value
          BY PivotValues
        <5>3. Pivoted(W, nb, b, k, r, c) = W[r][c]
          BY <2>11, <2>14, <4>5, <5>1, <5>2, Zeros DEF Pivoted
        <5> QED BY <1>6, <2>11, <2>14, <4>2, <4>5, <5>3
      <4> QED BY <4>3, <4>4, <4>5
    <3>7. ~RowLeft(S, op.target)'
      BY <2>10, <3>3 DEF RowLeft
    <3>8. Clearing(W, nb, b, k)'
      BY <2>7, <2>8, <2>9, <2>11, <2>14, <3>3, <3>4, <3>5, <3>6, <3>7 DEF Clearing
    <3>9. row \in basicVariables["tableau"]
      BY <1>7, <2>3, <2>4, <2>5, <2>11 DEF ColumnList
    <3>10. RowsBasic'
      BY <1>3, <1>7, <3>3, <3>9 DEF RowsBasic
    <3> QED BY <2>12, <3>8, <3>10
  <2> QED BY <2>13, <2>14
<1> QED BY <1>8, <1>9

-----------------------------------------------------------------------------
(***************************************************************************)
(* The invariant as the operations begin.                                  *)
(***************************************************************************)
LEMMA CellValue ==
  ASSUME LinkedInv, NEW m \in Matrix, NEW r \in Variable, NEW c \in Variable
  PROVE  Cell(m, r, c) \in Value /\ MatrixOf(m)[r][c] = Cell(m, r, c)
<1>1. HeapType /\ CellsUnique
  BY Typing DEF LinkedInv, HeapLinked
<1>2. Cell(m, r, c) \in Value
  BY <1>1, Reading
<1>3. MatrixOf(m)[r][c] = Cell(m, r, c)
  BY DEF MatrixOf
<1> QED BY <1>2, <1>3

\* A call remembers both matrices.
LEMMA Remembered ==
  ASSUME LinkedInv, before' = [m \in Matrix |-> MatrixOf(m)]
  PROVE  /\ before' \in [Matrix -> Cells]
         /\ \A m \in Matrix, r, c \in Variable : before'[m][r][c] = Cell(m, r, c)
<1>1. ASSUME NEW m \in Matrix
      PROVE  MatrixOf(m) \in Cells
  <2>1. MatrixOf(m) = [r \in Variable |-> [c \in Variable |-> Cell(m, r, c)]]
    BY DEF MatrixOf
  <2>2. \A r, c \in Variable : Cell(m, r, c) \in Value
    BY CellValue
  <2> QED BY <2>1, <2>2 DEF Cells
<1>2. \A m \in Matrix, r, c \in Variable : before'[m][r][c] = Cell(m, r, c)
  BY CellValue
<1> QED BY <1>1, <1>2

\* The cells when the call began are those now.
LEMMA CallBegun ==
  ASSUME LinkedInv, before' = [m \in Matrix |-> MatrixOf(m)], RowsBasic', SameCells,
         NEW W \in Cells, before'["tableau"] = W,
         Pivoting(W)' \/ Merging(W)' \/ Erasing(W)'
  PROVE  MatrixInv'
<1>1. SavedLeft'
  BY Remembered DEF SavedLeft, SameCells, Matrix
<1> QED BY <1>1, Remembered DEF MatrixInv

\* pivot: the row of the leaving variable is to be moved into an empty one.
LEMMA PivotMatrix ==
  ASSUME LinkedInv, MatrixInv, NEW nb \in Variable, NEW b \in Variable, NEW k \in Value \ {0},
         Pivot(nb, b, k)
  PROVE  MatrixInv'
<1>1. /\ op.kind = "none" /\ pivoting.stage = "none"
      /\ before' = [m \in Matrix |-> MatrixOf(m)]
      /\ nb \notin basicVariables["tableau"] /\ b \in basicVariables["tableau"] /\ nb # b
      /\ Cell("tableau", b, nb) # 0
      /\ basicVariables' = [basicVariables EXCEPT !["tableau"]
           = (basicVariables["tableau"] \ {b}) \union {nb}]
      /\ pivoting' = [NoPivot EXCEPT !.stage = "moved", !.nonBasic = nb, !.basic = b]
      /\ AddScaledRow(b, k, nb, nb, MinusOne)
      /\ UNCHANGED <<live, cell, byRow, byColumn>>
  BY DEF Pivot, Call, Calls, Idle, Returned, AddScaledRow, heap
<1>2. pivoting'.stage = "moved" /\ pivoting'.nonBasic = nb /\ pivoting'.basic = b
  BY <1>1 DEF NoPivot
<1>3. SameCells /\ "tableau" \in Matrix
  BY <1>1, SameRead DEF Matrix
<1>4. PICK W \in Cells :
        before'["tableau"] = W /\ \A r, c \in Variable : W[r][c] = Cell("tableau", r, c)
  BY <1>1, <1>3, Remembered
<1>5. basicVariables \in [Matrix -> SUBSET Variable] /\ NULL \notin live
  BY Typing DEF LinkedInv, TableauTypeOK
<1>6. \A e \in live : cell[e].row \in basicVariables[cell[e].matrix]
  BY <1>1 DEF MatrixInv, RowsBasic
<1>7. PICK R : R = InRow("tableau", b)
  OBVIOUS
<1>8. \A c \in Variable : ~ColumnLeft(R, c) => W[b][c] = 0
  BY <1>4, <1>7, RowWhole
<1>9. byRow.head[<<"tableau", b>>] # NULL
  <2>1. R # {}
    BY <1>1, <1>4, <1>8 DEF ColumnLeft
  <2>2. Chain(byRow, R, byRow.head[<<"tableau", b>>]) /\ NULL \notin R
    BY <1>1, <1>5, <1>7, WholeLists DEF Left, InRow
  <2> QED BY <2>1, <2>2 DEF Chain
<1>10. /\ op' = [kind |-> "addScaledRow", matrix |-> "tableau", source |-> b, target |-> nb,
                 scale |-> k, index |-> nb, value |-> MinusOne]
       /\ cursor' = byRow.head[<<"tableau", b>>]
  BY <1>1, <1>9 DEF AddScaledRow
<1>11. /\ op'.kind = "addScaledRow" /\ op'.source = b /\ op'.target = nb
       /\ op'.scale = k /\ op'.index = nb /\ op'.value = MinusOne
  BY <1>10
<1>12. R \in Left(byRow, InRow("tableau", b), cursor)'
  <2>1. R \in Left(byRow, InRow("tableau", b), byRow.head[<<"tableau", b>>])
    BY <1>1, <1>7, WholeLists
  <2> QED BY <1>1, <1>10, <2>1 DEF Left, InRow, RowList
<1>13. \A c \in Variable : Cell("tableau", nb, c) = 0
  <2>1. InRow("tableau", nb) = {}
    BY <1>1, <1>6 DEF InRow, RowList
  <2> QED BY <2>1, RowWhole DEF ColumnLeft
<1>14. \A r, c \in Variable :
         Now(r, c)' = IF r # nb THEN W[r][c]
                      ELSE IF ColumnLeft(R, c)' THEN 0 ELSE NewRow(W, nb, b, k, c)
  <2> TAKE r, c \in Variable
  <2>1. Now(r, c)' = Cell("tableau", r, c)
    BY <1>3 DEF SameCells, Now
  <2>2. ColumnLeft(R, c)' <=> ColumnLeft(R, c)
    BY <1>1 DEF ColumnLeft
  <2>3. ~ColumnLeft(R, c) => NewRow(W, nb, b, k, c) = 0
    <3> SUFFICES ASSUME ~ColumnLeft(R, c)
                 PROVE  NewRow(W, nb, b, k, c) = 0
      OBVIOUS
    <3>1. W[b][c] = 0 /\ W[b][nb] # 0
      BY <1>1, <1>4, <1>8
    <3>2. Times(k, 0) = 0
      BY Zeros
    <3> QED BY <3>1, <3>2 DEF NewRow
  <2> QED BY <1>4, <1>13, <2>1, <2>2, <2>3
<1>15. Moving(W, nb, b, k)'
  BY <1>2, <1>11, <1>12, <1>14 DEF Moving
<1>16. Pivoting(W)'
  BY <1>1, <1>2, <1>4, <1>15 DEF Pivoting
<1>17. RowsBasic'
  <2>1. /\ basicVariables'["tableau"] = (basicVariables["tableau"] \ {b}) \union {nb}
        /\ \A m \in Matrix : m # "tableau" => basicVariables'[m] = basicVariables[m]
    BY <1>1, <1>3, <1>5
  <2>2. \A e \in live : cell[e].matrix \in Matrix
    BY CellFacts, Typing DEF LinkedInv, HeapType
  <2> QED BY <1>1, <1>2, <1>6, <1>11, <2>1, <2>2 DEF RowsBasic
<1> QED BY <1>1, <1>3, <1>4, <1>16, <1>17, CallBegun

\* unifyReluPair: all of the column is to be added.
LEMMA UnifyMatrix ==
  ASSUME LinkedInv, MatrixInv, NEW b \in Variable, NEW f \in Variable, b # f,
         UnifyReluPair(b, f)
  PROVE  MatrixInv'
<1>1. /\ op.kind = "none" /\ pivoting.stage = "none"
      /\ before' = [m \in Matrix |-> MatrixOf(m)]
      /\ byColumn.size[<<"tableau", b>>] # 0
      /\ AddColumnEraseSource(b, f)
      /\ UNCHANGED <<live, cell, byRow, byColumn, pivoting, basicVariables>>
  BY DEF UnifyReluPair, Call, Calls, Idle, Returned, AddColumnEraseSource, heap
<1>3. SameCells /\ "tableau" \in Matrix
  BY <1>1, SameRead DEF Matrix
<1>4. PICK W \in Cells :
        before'["tableau"] = W /\ \A r, c \in Variable : W[r][c] = Cell("tableau", r, c)
  BY <1>1, <1>3, Remembered
<1>5. NULL \notin live /\ HeapType
  BY Typing DEF LinkedInv
<1>7. PICK R : R = InColumn("tableau", b)
  OBVIOUS
<1>8. \A r \in Variable : ~RowLeft(R, r) => W[r][b] = 0
  BY <1>4, <1>7, RowWhole
<1>9. byColumn.head[<<"tableau", b>>] # NULL
  <2>1. byColumn.size[<<"tableau", b>>] = Cardinality(R)
    <3>1. R = ListOf(live, ColumnKey, <<"tableau", b>>)
      BY <1>3, <1>5, <1>7, Keys
    <3>2. <<"tableau", b>> \in (Matrix \X Variable) \ ErasedColumns
      BY <1>1, <1>3 DEF ErasedColumns
    <3> QED BY <1>1, <3>1, <3>2 DEF LinkedInv, SizesInv, HeapCounted, Counted
  <2>2. R # {}
    BY <1>1, <2>1, FS_EmptySet
  <2>3. Chain(byColumn, R, byColumn.head[<<"tableau", b>>]) /\ NULL \notin R
    BY <1>1, <1>5, <1>7, WholeLists DEF Left, InColumn
  <2> QED BY <2>2, <2>3 DEF Chain
<1>10. /\ op' = [NoOp EXCEPT !.kind = "addColumn", !.source = b, !.target = f]
       /\ cursor' = byColumn.head[<<"tableau", b>>]
  BY <1>1, <1>9 DEF AddColumnEraseSource
<1>11. op'.kind = "addColumn" /\ op'.source = b /\ op'.target = f
  BY <1>10 DEF NoOp
<1>12. R \in Left(byColumn, InColumn("tableau", op.source), cursor)'
  <2>1. R \in Left(byColumn, InColumn("tableau", b), byColumn.head[<<"tableau", b>>])
    BY <1>1, <1>7, WholeLists
  <2> QED BY <1>1, <1>10, <1>11, <2>1 DEF Left, InColumn, ColumnList
<1>13. \A r, c \in Variable : c # b \/ RowLeft(R, r)' =>
         Now(r, c)' = IF c = f /\ ~RowLeft(R, r)' THEN Plus(W[r][c], W[r][b]) ELSE W[r][c]
  <2> TAKE r, c \in Variable
  <2>1. Now(r, c)' = W[r][c]
    BY <1>3, <1>4 DEF SameCells, Now
  <2>2. RowLeft(R, r)' <=> RowLeft(R, r)
    BY <1>1 DEF RowLeft
  <2>3. W[r][c] \in Value
    BY DEF Cells
  <2>4. Plus(W[r][c], 0) = W[r][c]
    BY <2>3, Zeros
  <2> QED BY <1>8, <2>1, <2>2, <2>4
<1>14. Merging(W)'
  BY <1>1, <1>11, <1>12, <1>13 DEF Merging
<1>15. RowsBasic'
  BY <1>1, <1>11 DEF MatrixInv, RowsBasic
<1> QED BY <1>1, <1>3, <1>4, <1>14, <1>15, CallBegun

\* eliminateIfPossible: the column is to be erased.
LEMMA EliminateMatrix ==
  ASSUME LinkedInv, MatrixInv, NEW aux \in Variable, Eliminate(aux)
  PROVE  MatrixInv'
<1>1. /\ op.kind = "none" /\ pivoting.stage = "none"
      /\ before' = [m \in Matrix |-> MatrixOf(m)]
      /\ op' = [NoOp EXCEPT !.kind = "eraseColumn", !.source = aux]
      /\ UNCHANGED <<live, cell, pivoting, basicVariables>>
  BY DEF Eliminate, Call, Calls, Idle, Returned, EraseColumn, heap
<1>2. op'.kind = "eraseColumn" /\ op'.source = aux
  BY <1>1 DEF NoOp
<1>3. SameCells /\ "tableau" \in Matrix
  BY <1>1, SameRead DEF Matrix
<1>4. PICK W \in Cells :
        before'["tableau"] = W /\ \A r, c \in Variable : W[r][c] = Cell("tableau", r, c)
  BY <1>1, <1>3, Remembered
<1>5. \A r, c \in Variable : c # op'.source =>
        Now(r, c)' = IF c = aux THEN Plus(W[r][c], W[r][op'.source]) ELSE W[r][c]
  BY <1>2, <1>3, <1>4 DEF SameCells, Now
<1>6. Erasing(W)'
  BY <1>1, <1>2, <1>5 DEF Erasing
<1>7. RowsBasic'
  BY <1>1, <1>2 DEF MatrixInv, RowsBasic
<1> QED BY <1>1, <1>3, <1>4, <1>6, <1>7, CallBegun

\* The other matrix is empty, and all rows are to come.
LEMMA CopyBegunMatrix ==
  ASSUME LinkedInv, LinkedInv', MatrixInv, Idle, NEW m \in Matrix, BackupIntoMatrix(m),
         before' = [n \in Matrix |-> MatrixOf(n)], pivoting' = pivoting,
         basicVariables' = [n \in Matrix |-> basicVariables[m]]
  PROVE  MatrixInv'
<1>1. /\ live' = {e \in live : cell[e].matrix = m} /\ cell' = cell
      /\ op' = [NoOp EXCEPT !.kind = "copy", !.matrix = m]
      /\ cursor' = byRow.head[<<m, 0>>]
      /\ byRow'.next = byRow.next /\ byRow'.prev = byRow.prev
  BY DEF BackupIntoMatrix
<1>2. op'.kind = "copy" /\ op'.matrix = m /\ op'.source = 0
  BY <1>1 DEF NoOp
<1>3. /\ op.kind = "none" /\ pivoting.stage = "none" /\ 0 \in Variable
      /\ "tableau" \in Matrix /\ "preprocessed" \in Matrix
  BY Constants DEF Idle, Returned, Matrix
<1>h. HeapType /\ CellsUnique /\ HeapType' /\ CellsUnique'
  <2>1. HeapType /\ CellsUnique
    BY DEF LinkedInv, HeapLinked
  <2>2. HeapType' /\ CellsUnique'
    BY DEF LinkedInv, HeapLinked
  <2> QED BY <2>1, <2>2
<1>4. PICK B \in [Matrix -> Cells] :
        before' = B /\ \A n \in Matrix, r, c \in Variable : B[n][r][c] = Cell(n, r, c)
  BY Remembered
<1>5. PICK Q : Q = InRow(m, 0)
  OBVIOUS
<1>6. Q \in Left(byRow, InRow(op.matrix, op.source), cursor)'
  <2>1. List(byRow, Q, <<m, 0>>)
    <3>1. ListsLinked /\ ErasedRows = {}
      BY <1>3, HeapLists DEF LinkedInv, ErasedRows
    <3> QED BY <1>3, <1>5, <3>1 DEF ListsLinked
  <2>2. Chain(byRow', Q, cursor')
    BY <1>1, <2>1 DEF List, Chain
  <2>3. Q = {e \in live' : RowList(e)' = <<m, 0>>}
    BY <1>1, <1>5 DEF InRow, RowList
  <2> QED BY <1>2, <2>2, <2>3 DEF Left, InRow
<1>7. ASSUME NEW n \in Matrix, NEW r \in Variable, NEW c \in Variable
      PROVE  Cell(n, r, c)' = IF n # m THEN 0 ELSE B[m][r][c]
  <2>1. CASE n # m
    <3>1. \A e \in live' : ~PlacedAt(e, n, r, c)'
      BY <1>1, <2>1 DEF PlacedAt
    <3> QED BY <1>h, <2>1, <3>1, ReadingNext
  <2>2. CASE n = m
    <3>1. \A e \in live : PlacedAt(e, n, r, c) => e \in live' /\ cell'[e] = cell[e]
      BY <1>1, <2>2 DEF PlacedAt
    <3>2. \A e \in live' : PlacedAt(e, n, r, c)' => e \in live /\ cell'[e] = cell[e]
      BY <1>1
    <3>3. Cell(n, r, c)' = Cell(n, r, c)
      BY <1>h, <3>1, <3>2, CellKept
    <3> QED BY <1>4, <2>2, <3>3
  <2> QED BY <2>1, <2>2
<1>8. ASSUME NEW c \in Variable, ~ColumnLeft(Q, c)
      PROVE  B[m][0][c] = 0
  <2>1. Q = {e \in live : cell[e].matrix = m /\ cell[e].row = 0}
    BY <1>3, <1>5, <1>h, Keys
  <2>2. \A e \in live : ~PlacedAt(e, m, 0, c)
    BY <1>8, <2>1 DEF PlacedAt, ColumnLeft
  <2>3. Cell(m, 0, c) = 0
    BY <1>3, <1>h, <2>2, Reading
  <2> QED BY <1>3, <1>4, <2>3
<1>9. ASSUME NEW n \in Matrix, NEW r \in Variable, NEW c \in Variable
      PROVE  Cell(n, r, c)' = IF n # m /\ (r > 0 \/ (r = 0 /\ ColumnLeft(Q, c)'))
                              THEN 0 ELSE B[m][r][c]
  <2>1. ColumnLeft(Q, c)' <=> ColumnLeft(Q, c)
    BY <1>1 DEF ColumnLeft
  <2>2. r > 0 \/ r = 0
    BY Constants DEF Variable
  <2> QED BY <1>7, <1>8, <2>1, <2>2
<1>10. /\ basicVariables'["tableau"] = basicVariables[m]
       /\ basicVariables'["preprocessed"] = basicVariables[m]
       /\ basicVariables'[m] = basicVariables[m]
  BY <1>3
<1>11. Copied'
  <2>1. \A n \in Matrix, r, c \in Variable :
          Cell(n, r, c)' = IF n # m /\ (r > 0 \/ (r = 0 /\ ColumnLeft(Q, c)'))
                           THEN 0 ELSE B[m][r][c]
    BY <1>9
  <2> QED BY <1>2, <1>3, <1>4, <1>6, <1>10, <2>1 DEF Copied
<1>12. RowsBasic'
  <2>1. \A e \in live : cell[e].row \in basicVariables[cell[e].matrix]
    BY <1>3 DEF MatrixInv, RowsBasic
  <2> QED BY <1>1, <1>2, <1>10, <2>1 DEF RowsBasic
<1>13. SavedLeft'
  BY <1>2 DEF SavedLeft
<1> QED BY <1>4, <1>11, <1>12, <1>13 DEF MatrixInv

\* storePreprocessedMatrix copies the tableau.
LEMMA StoreMatrix ==
  ASSUME LinkedInv, LinkedInv', MatrixInv, StorePreprocessedMatrix
  PROVE  MatrixInv'
<1>1. /\ Idle /\ BackupIntoMatrix("tableau") /\ "tableau" \in Matrix /\ pivoting' = pivoting
      /\ before' = [n \in Matrix |-> MatrixOf(n)]
      /\ basicVariables' = [n \in Matrix |-> basicVariables["tableau"]]
  BY DEF StorePreprocessedMatrix, Matrix
<1> QED BY <1>1, CopyBegunMatrix

\* restoreTableauFromBackup copies the preprocessed matrix.
LEMMA RestoreMatrix ==
  ASSUME LinkedInv, LinkedInv', MatrixInv, RestoreTableauFromBackup
  PROVE  MatrixInv'
<1>1. /\ Idle /\ BackupIntoMatrix("preprocessed") /\ "preprocessed" \in Matrix
      /\ pivoting' = pivoting /\ before' = [n \in Matrix |-> MatrixOf(n)]
      /\ basicVariables' = [n \in Matrix |-> basicVariables["preprocessed"]]
  BY DEF RestoreTableauFromBackup, Call, Calls, Matrix
<1> QED BY <1>1, CopyBegunMatrix

(***************************************************************************)
(* The rows being written, and written anew.                               *)
(***************************************************************************)
\* One cell, which was zero, of a row of a basic variable.
LEMMA FillTurn ==
  ASSUME LinkedInv, LinkedInv', FillCell
  PROVE  /\ Idle /\ Idle' /\ UNCHANGED <<op, pivoting, basicVariables, before>>
         /\ \E r, c \in Variable, v \in Value :
              Cell("tableau", r, c) = 0 /\ Sets("tableau", r, c, v)
         /\ \A e \in live' :
              \/ e \in live /\ cell'[e] = cell[e]
              \/ cell'[e].matrix = "tableau" /\ cell'[e].row \in basicVariables["tableau"]
<1>y. /\ "tableau" \in Matrix /\ HeapType /\ CellsUnique /\ live \in SUBSET Entry
      /\ Size \in Nat \ {0} /\ filling \in Nat /\ Size * Size \in Nat
      /\ op.kind = "none" /\ pivoting.stage = "none"
  <2>1. filling \in 0 .. Size * Size
    BY DEF LinkedInv, TableauTypeOK
  <2> QED BY <2>1, Typing, Constants DEF LinkedInv, HeapLinked, Matrix, FillCell, Idle, Returned
<1>z. HeapType' /\ CellsUnique'
  BY DEF LinkedInv, HeapLinked
<1>1. /\ filling < Size * Size
      /\ UNCHANGED <<op, cursor, dense, pivoting, basicVariables, before>>
  BY DEF FillCell, locals
<1>2. PICK r, c : r = filling \div Size /\ c = filling % Size
  OBVIOUS
<1>d. r \in Variable /\ c \in Variable /\ r * Size + c = filling
  <2>1. PICK n, f : n = Size /\ f = filling
    OBVIOUS
  <2>2. n \in Nat \ {0} /\ f \in Nat /\ f < n * n /\ r = f \div n /\ c = f % n
    BY <1>1, <1>2, <1>y, <2>1
  <2>3. r \in Int /\ c \in 0 .. n - 1
    BY <2>2
  <2>4. r * n + c = f
    BY <2>2
  <2>5. r \in 0 .. n - 1
    BY <2>2, <2>3, <2>4, Division
  <2> QED BY <2>1, <2>3, <2>4, <2>5 DEF Variable
<1>3. PICK v \in Value :
        /\ AddEntry("tableau", r, c, v)
        /\ v # 0 => r \in basicVariables["tableau"]
  <2>1. {0} \subseteq Value /\ {MinusOne} \subseteq Value
        /\ GlpkWeight \subseteq Value /\ Weight \subseteq Value
    BY Constants
  <2> QED BY <1>2, <1>d, <2>1 DEF FillCell
<1>4. \A d \in live : ~PlacedAt(d, "tableau", r, c)
  <2>1. ASSUME NEW d \in live, PlacedAt(d, "tableau", r, c)
        PROVE  FALSE
    <3>1. cell[d].row * Size + cell[d].column < filling
      BY <1>1, <2>1 DEF LinkedInv, FillInv, PlacedAt
    <3> QED BY <1>d, <1>y, <2>1, <3>1 DEF PlacedAt
  <2> QED BY <2>1
<1>5. Cell("tableau", r, c) = 0
  BY <1>4, <1>d, <1>y, Reading
<1>6. CASE v = 0
  <2>1. UNCHANGED <<live, cell>>
    BY <1>3, <1>6 DEF AddEntry, heap
  <2>2. SameCells
    BY <2>1, SameRead
  <2>3. Sets("tableau", r, c, v)
    BY <1>5, <1>6, <2>2 DEF SameCells, Sets
  <2> QED BY <1>1, <1>5, <1>d, <1>y, <2>1, <2>3 DEF Idle, Returned
<1>7. CASE v # 0
  <2>1. PICK e \in Entry \ live :
          /\ live' = live \union {e}
          /\ cell' = [cell EXCEPT ![e] = [matrix |-> "tableau", row |-> r, column |-> c,
                                          value |-> v]]
    <3>1. live # Entry
      BY <1>3, <1>7 DEF AddEntry
    <3>2. (CHOOSE x \in Entry \ live : TRUE) \in Entry \ live
      BY <1>y, <3>1
    <3> QED BY <1>3, <1>7, <3>2 DEF AddEntry
  <2>2. Sets("tableau", r, c, v)
    BY <1>d, <1>y, <1>z, <2>1, InsertedSets
  <2>3. /\ cell'[e].matrix = "tableau" /\ cell'[e].row = r
        /\ \A d \in live : cell'[d] = cell[d]
    BY <1>y, <2>1 DEF HeapType
  <2> QED BY <1>1, <1>3, <1>5, <1>7, <1>d, <1>y, <2>1, <2>2, <2>3 DEF Idle, Returned
<1> QED BY <1>6, <1>7

\* Writing a cell leaves the rows those of basic variables.
LEMMA FillMatrix ==
  ASSUME LinkedInv, LinkedInv', MatrixInv, FillCell
  PROVE  MatrixInv'
<1>1. /\ Idle /\ Idle' /\ UNCHANGED <<op, pivoting, basicVariables, before>>
      /\ \A e \in live' :
           \/ e \in live /\ cell'[e] = cell[e]
           \/ cell'[e].matrix = "tableau" /\ cell'[e].row \in basicVariables["tableau"]
  BY FillTurn
<1>2. op.kind = "none" /\ pivoting.stage = "none"
  BY <1>1 DEF Idle, Returned
<1>3. \A e \in live : cell[e].row \in basicVariables[cell[e].matrix]
  BY <1>2 DEF MatrixInv, RowsBasic
<1>4. RowsBasic'
  BY <1>1, <1>2, <1>3 DEF RowsBasic
<1> QED BY <1>1, <1>4, IdleKept DEF MatrixInv

\* The entries of the tableau are gone.
LEMMA ExtractTurn ==
  ASSUME LinkedInv, LinkedInv', ExtractTableau
  PROVE  /\ Idle /\ Idle'
         /\ \A r, c \in Variable :
              /\ Cell("tableau", r, c)' = 0
              /\ Cell("preprocessed", r, c)' = Cell("preprocessed", r, c)
<1>1. /\ live' = {e \in live : cell[e].matrix # "tableau"}
      /\ UNCHANGED <<cell, op, pivoting>>
      /\ Idle /\ Idle'
  BY DEF ExtractTableau, DeleteAllEntries, locals, Call, Idle, Returned
<1>2. /\ HeapType /\ CellsUnique
      /\ "tableau" \in Matrix /\ "preprocessed" \in Matrix /\ "tableau" # "preprocessed"
  BY DEF LinkedInv, HeapLinked, Matrix
<1>3. HeapType' /\ CellsUnique'
  BY DEF LinkedInv, HeapLinked
<1>4. ASSUME NEW r \in Variable, NEW c \in Variable
      PROVE  Cell("tableau", r, c)' = 0
  <2>1. \A e \in live' : ~PlacedAt(e, "tableau", r, c)'
    BY <1>1 DEF PlacedAt
  <2> QED BY <1>2, <1>3, <2>1, ReadingNext
<1>5. ASSUME NEW r \in Variable, NEW c \in Variable
      PROVE  Cell("preprocessed", r, c)' = Cell("preprocessed", r, c)
  <2>1. \A e \in live : PlacedAt(e, "preprocessed", r, c) => e \in live' /\ cell'[e] = cell[e]
    BY <1>1, <1>2 DEF PlacedAt
  <2>2. \A e \in live' : PlacedAt(e, "preprocessed", r, c)' => e \in live /\ cell'[e] = cell[e]
    BY <1>1
  <2> QED BY <1>2, <1>3, <2>1, <2>2, CellKept
<1> QED BY <1>1, <1>4, <1>5

\* So does throwing them away.
LEMMA ExtractMatrix ==
  ASSUME LinkedInv, LinkedInv', MatrixInv, ExtractTableau
  PROVE  MatrixInv'
<1>1. /\ live' = {e \in live : cell[e].matrix # "tableau"}
      /\ UNCHANGED <<cell, op, pivoting>> /\ op.kind = "none" /\ pivoting.stage = "none"
      /\ before' = [m \in Matrix |-> MatrixOf(m)]
  BY DEF ExtractTableau, DeleteAllEntries, locals, Call, Calls, Idle, Returned
<1>2. PICK B : basicVariables' = [basicVariables EXCEPT !["tableau"] = B]
  BY DEF ExtractTableau
<1>3. \A e \in live' : basicVariables'[cell[e].matrix] = basicVariables[cell[e].matrix]
  <2>1. \A e \in live : cell[e].matrix \in Matrix
    BY CellFacts, Typing DEF LinkedInv, HeapType
  <2>2. \A m \in Matrix : m # "tableau" => basicVariables'[m] = basicVariables[m]
    BY <1>2 DEF LinkedInv, TableauTypeOK
  <2> QED BY <1>1, <2>1, <2>2
<1>4. RowsBasic'
  <2>1. \A e \in live : cell[e].row \in basicVariables[cell[e].matrix]
    BY <1>1 DEF MatrixInv, RowsBasic
  <2> QED BY <1>1, <1>3, <2>1 DEF RowsBasic
<1>5. Idle' /\ before' \in [Matrix -> Cells]
  BY <1>1, ExtractTurn, Remembered
<1> QED BY <1>4, <1>5, IdleKept

-----------------------------------------------------------------------------
(***************************************************************************)
(* The invariant holds at first and is kept by every step.                 *)
(***************************************************************************)
LEMMA MatrixInit ==
  ASSUME LinkedInv, Init
  PROVE  MatrixInv
<1>1. /\ live = {} /\ op.kind = "none" /\ pivoting.stage = "none" /\ Idle
      /\ before = [m \in Matrix |-> MatrixOf(m)]
  BY DEF Init, NoOp, NoPivot, Idle, Returned
<1>2. before \in [Matrix -> Cells]
  <2>1. ASSUME NEW m \in Matrix
        PROVE  MatrixOf(m) \in Cells
    <3>1. MatrixOf(m) = [r \in Variable |-> [c \in Variable |-> Cell(m, r, c)]]
      BY DEF MatrixOf
    <3>2. \A r, c \in Variable : Cell(m, r, c) \in Value
      BY CellValue
    <3> QED BY <3>1, <3>2 DEF Cells
  <2> QED BY <1>1, <2>1
<1>3. RowsBasic /\ SavedLeft
  BY <1>1 DEF RowsBasic, SavedLeft
<1> QED BY <1>1, <1>2, <1>3 DEF MatrixInv

\* A step that changes nothing.
LEMMA MatrixStutter ==
  ASSUME MatrixInv, UNCHANGED vars
  PROVE  MatrixInv'
<1>1. UNCHANGED <<live, cell, byRow, byColumn, op, cursor, pivoting, basicVariables, before>>
  BY DEF vars, heap, locals, client
<1>2. SameCells /\ Idle' = Idle
  BY <1>1, SameRead DEF Idle, Returned
<1>3. /\ \A m, i : InRow(m, i)' = InRow(m, i) /\ InColumn(m, i)' = InColumn(m, i)
      /\ \A Q, i : ColumnLeft(Q, i)' = ColumnLeft(Q, i) /\ RowLeft(Q, i)' = RowLeft(Q, i)
  BY <1>1 DEF InRow, InColumn, RowList, ColumnList, ColumnLeft, RowLeft
<1>4. \A r, c \in Variable :
        /\ Now(r, c)' = Now(r, c)
        /\ \A m \in Matrix : Cell(m, r, c)' = Cell(m, r, c)
        /\ Cell("preprocessed", r, c)' = Cell("preprocessed", r, c)
  BY <1>2 DEF SameCells, Now, Matrix
<1>5. RowsBasic' /\ SavedLeft'
  <2>1. RowsBasic'
    BY <1>1 DEF MatrixInv, RowsBasic
  <2>2. SavedLeft'
    BY <1>1, <1>2, <1>4 DEF MatrixInv, SavedLeft
  <2> QED BY <2>1, <2>2
<1>6. PICK W \in Cells :
        before["tableau"] = W /\ (Idle \/ Pivoting(W) \/ Merging(W) \/ Erasing(W) \/ Copied)
  BY DEF MatrixInv, Matrix
<1>7. CASE Pivoting(W)
  <2>1. PICK nb \in Variable, b \in Variable, k \in Value :
          /\ pivoting.nonBasic = nb /\ pivoting.basic = b
          /\ nb # b /\ W[b][nb] # 0
          /\ Moving(W, nb, b, k) \/ Leaving(W, nb, b, k) \/ Clearing(W, nb, b, k)
    BY <1>7 DEF Pivoting
  <2>2. Moving(W, nb, b, k) => Moving(W, nb, b, k)'
    BY <1>1, <1>3, <1>4 DEF Moving, Left
  <2>3. Leaving(W, nb, b, k) => Leaving(W, nb, b, k)'
    BY <1>1, <1>3, <1>4 DEF Leaving
  <2>4. Clearing(W, nb, b, k) => Clearing(W, nb, b, k)'
    <3> SUFFICES ASSUME Clearing(W, nb, b, k)
                 PROVE  Clearing(W, nb, b, k)'
      OBVIOUS
    <3>1. PICK P \in Left(byColumn, InColumn("tableau", nb), pivoting.cursor),
               Q \in Left(byRow, InRow("tableau", nb), cursor) :
            /\ op.kind = "addScaledRow" =>
                 /\ op.source = nb /\ op.target \notin {nb, b} /\ ~RowLeft(P, op.target)
                 /\ op.scale = W[op.target][nb] /\ op.index = nb /\ op.value = 0
            /\ \A r, c \in Variable :
                 Now(r, c) = IF \/ r = op.target /\ ColumnLeft(Q, c)
                                \/ r # nb /\ RowLeft(P, r)
                             THEN W[r][c] ELSE Pivoted(W, nb, b, k, r, c)
      BY DEF Clearing
    <3>2. /\ P \in Left(byColumn, InColumn("tableau", nb), pivoting.cursor)'
          /\ Q \in Left(byRow, InRow("tableau", nb), cursor)'
      BY <1>1, <3>1 DEF Left, InRow, InColumn, RowList, ColumnList
    <3>3. op'.kind = "addScaledRow" =>
                 /\ op'.source = nb /\ op'.target \notin {nb, b} /\ ~RowLeft(P, op.target)'
                 /\ op'.scale = W[op'.target][nb] /\ op'.index = nb /\ op'.value = 0
      BY <1>1, <3>1 DEF RowLeft
    <3>4. \A r, c \in Variable :
            Now(r, c)' = IF \/ r = op'.target /\ ColumnLeft(Q, c)'
                            \/ r # nb /\ RowLeft(P, r)'
                         THEN W[r][c] ELSE Pivoted(W, nb, b, k, r, c)
      BY <1>1, <1>3, <1>4, <3>1
    <3>5. pivoting'.stage = "column" /\ op'.kind \in {"none", "addScaledRow"}
          /\ InRow("tableau", b)' = {}
      BY <1>1, <1>3 DEF Clearing
    <3> QED BY <3>2, <3>3, <3>4, <3>5 DEF Clearing
  <2>5. Pivoting(W)'
    BY <1>1, <2>1, <2>2, <2>3, <2>4 DEF Pivoting
  <2> QED BY <1>1, <1>5, <1>6, <2>5 DEF MatrixInv
<1>8. CASE Merging(W)
  <2>1. PICK Q \in Left(byColumn, InColumn("tableau", op.source), cursor) :
          \A r, c \in Variable : c # op.source \/ RowLeft(Q, r) =>
            Now(r, c) = IF c = op.target /\ ~RowLeft(Q, r)
                        THEN Plus(W[r][c], W[r][op.source]) ELSE W[r][c]
    BY <1>8 DEF Merging
  <2>2. Q \in Left(byColumn, InColumn("tableau", op.source), cursor)'
    BY <1>1, <2>1 DEF Left, InColumn, ColumnList
  <2>3. \A r, c \in Variable : c # op'.source \/ RowLeft(Q, r)' =>
          Now(r, c)' = IF c = op'.target /\ ~RowLeft(Q, r)'
                       THEN Plus(W[r][c], W[r][op'.source]) ELSE W[r][c]
    BY <1>1, <1>3, <1>4, <2>1
  <2>4. Merging(W)'
    BY <1>1, <1>8, <2>2, <2>3 DEF Merging
  <2> QED BY <1>1, <1>5, <1>6, <2>4 DEF MatrixInv
<1>9. CASE Erasing(W)
  <2>0. PICK f \in Variable : \A r, c \in Variable : c # op.source =>
          Now(r, c) = IF c = f THEN Plus(W[r][c], W[r][op.source]) ELSE W[r][c]
    BY <1>9 DEF Erasing
  <2>n. \A r, c \in Variable : c # op'.source =>
          Now(r, c)' = IF c = f THEN Plus(W[r][c], W[r][op'.source]) ELSE W[r][c]
    BY <1>1, <1>4, <2>0
  <2>1. Erasing(W)'
    BY <1>1, <1>9, <2>n DEF Erasing
  <2> QED BY <1>1, <1>5, <1>6, <2>1 DEF MatrixInv
<1>10. CASE Copied
  <2>1. PICK Q \in Left(byRow, InRow(op.matrix, op.source), cursor) :
          \A m \in Matrix, r, c \in Variable :
            Cell(m, r, c) =
              IF m # op.matrix /\ (r > op.source \/ (r = op.source /\ ColumnLeft(Q, c)))
              THEN 0 ELSE before[op.matrix][r][c]
    BY <1>10 DEF Copied
  <2>2. Q \in Left(byRow, InRow(op.matrix, op.source), cursor)'
    BY <1>1, <2>1 DEF Left, InRow, RowList
  <2>3. \A m \in Matrix, r, c \in Variable :
          Cell(m, r, c)' =
            IF m # op'.matrix /\ (r > op'.source \/ (r = op'.source /\ ColumnLeft(Q, c)'))
            THEN 0 ELSE before'[op'.matrix][r][c]
    BY <1>1, <1>3, <1>4, <2>1
  <2>4. Copied'
    BY <1>1, <1>10, <2>2, <2>3 DEF Copied
  <2> QED BY <1>1, <1>5, <1>6, <2>4 DEF MatrixInv
<1>11. CASE Idle
  BY <1>1, <1>2, <1>5, <1>11, IdleKept DEF MatrixInv
<1> QED BY <1>6, <1>7, <1>8, <1>9, <1>10, <1>11

\* One step per operation.
LEMMA MatrixNext ==
  ASSUME LinkedInv, MatrixInv, [Next]_vars
  PROVE  LinkedInv' /\ MatrixInv'
<1>0. LinkedInv'
  BY LinkedNext
<1>1. CASE Loop
  <2>1. UNCHANGED <<pivoting, client>>
    BY <1>1 DEF Loop
  <2>2. CASE EraseRowStep
    BY <1>0, <2>1, <2>2, EraseRowMatrix
  <2>3. CASE EraseColumnStep
    BY <1>0, <2>1, <2>3, EraseColumnMatrix
  <2>4. CASE AddScaledRowStep
    BY <1>0, <2>1, <2>4, ScaledMatrix
  <2>5. CASE AddColumnStep
    BY <1>0, <2>1, <2>5, AddColumnMatrix
  <2>6. CASE CopyStep
    BY <1>0, <2>1, <2>6, CopyMatrix
  <2> QED BY <1>0, <1>1, <2>2, <2>3, <2>4, <2>5, <2>6 DEF Loop
<1>2. CASE PivotEraseRow
  BY <1>0, <1>2, PivotEraseRowMatrix
<1>3. CASE PivotReadColumn
  BY <1>0, <1>3, PivotReadColumnMatrix
<1>4. CASE PivotClearCell
  BY <1>0, <1>4, PivotClearCellMatrix
<1>5. CASE FillCell
  BY <1>0, <1>5, FillMatrix
<1>6. CASE ExtractTableau
  BY <1>0, <1>6, ExtractMatrix
<1>7. ASSUME NEW nb \in Variable, NEW b \in Variable, NEW k \in Value \ {0}, Pivot(nb, b, k)
      PROVE  MatrixInv'
  BY <1>7, PivotMatrix
<1>8. ASSUME NEW pair \in Pairs, UnifyReluPair(pair[1], pair[2])
      PROVE  MatrixInv'
  <2>1. PICK b \in Variable, f \in Variable : b = pair[1] /\ f = pair[2] /\ b # f
    BY Constants
  <2> QED BY <1>8, <2>1, UnifyMatrix
<1>9. ASSUME NEW aux \in Variable, Eliminate(aux)
      PROVE  MatrixInv'
  BY <1>9, EliminateMatrix
<1>10. CASE StorePreprocessedMatrix
  BY <1>0, <1>10, StoreMatrix
<1>11. CASE RestoreTableauFromBackup
  BY <1>0, <1>11, RestoreMatrix
<1>12. CASE UNCHANGED vars
  BY <1>0, <1>12, MatrixStutter
<1> QED BY <1>0, <1>1, <1>2, <1>3, <1>4, <1>5, <1>6, <1>7, <1>8, <1>9, <1>10, <1>11, <1>12
        DEF Next, Step, Client

\* In the middle of every operation the cells are those before it, or its result.
THEOREM MatrixInvariant == Spec => [](LinkedInv /\ MatrixInv)
<1>1. Init => LinkedInv /\ MatrixInv
  BY LinkedInit, MatrixInit
<1>2. LinkedInv /\ MatrixInv /\ [Next]_vars => (LinkedInv /\ MatrixInv)'
  BY MatrixNext
<1> QED BY <1>1, <1>2, PTL DEF Spec

-----------------------------------------------------------------------------
(***************************************************************************)
(* The refinement.  Between calls the callers see the cells, and during a  *)
(* call those it began with.                                               *)
(***************************************************************************)
LEMMA SeenCells ==
  ASSUME LinkedInv, MatrixInv, NEW m \in Matrix
  PROVE  /\ Seen(m) \in Cells
         /\ Idle => \A r, c \in Variable : Seen(m)[r][c] = Cell(m, r, c)
         /\ ~Idle => Seen(m) = before[m]
<1>1. MatrixOf(m) \in Cells /\ \A r, c \in Variable : MatrixOf(m)[r][c] = Cell(m, r, c)
  <2>1. MatrixOf(m) = [r \in Variable |-> [c \in Variable |-> Cell(m, r, c)]]
    BY DEF MatrixOf
  <2>2. \A r, c \in Variable : Cell(m, r, c) \in Value
    BY CellValue
  <2> QED BY <2>1, <2>2 DEF Cells
<1>2. before[m] \in Cells
  BY DEF MatrixInv
<1> QED BY <1>1, <1>2 DEF Seen

\* The same in the next state.
LEMMA SeenCellsNext ==
  ASSUME LinkedInv', MatrixInv', NEW m \in Matrix
  PROVE  /\ Seen(m)' \in Cells
         /\ Idle' => \A r, c \in Variable : Seen(m)'[r][c] = Cell(m, r, c)'
         /\ ~Idle' => Seen(m)' = before'[m]
<1>1. Idle' => /\ Seen(m)' \in Cells
               /\ \A r, c \in Variable : Seen(m)'[r][c] = Cell(m, r, c)'
  <2> SUFFICES ASSUME Idle'
               PROVE  /\ Seen(m)' \in Cells
                      /\ \A r, c \in Variable : Seen(m)'[r][c] = Cell(m, r, c)'
    OBVIOUS
  <2>1. Seen(m)' = [r \in Variable |-> [c \in Variable |-> Cell(m, r, c)']]
    BY DEF Seen, MatrixOf
  <2>2. HeapType' /\ CellsUnique'
    BY DEF LinkedInv, HeapLinked
  <2>3. \A r, c \in Variable : Cell(m, r, c)' \in Value
    BY <2>2, ReadingNext
  <2> QED BY <2>1, <2>3 DEF Cells
<1>2. ~Idle' => Seen(m)' = before'[m]
  BY DEF Seen
<1>3. before'[m] \in Cells
  BY DEF MatrixInv
<1> QED BY <1>1, <1>2, <1>3

\* Matrices with the same cells are the same.
LEMMA SameMatrix ==
  ASSUME NEW A \in Cells, NEW B \in Cells, \A r, c \in Variable : A[r][c] = B[r][c]
  PROVE  A = B
<1>1. ASSUME NEW r \in Variable
      PROVE  A[r] = B[r]
  <2>1. A[r] \in [Variable -> Value] /\ B[r] \in [Variable -> Value]
    BY DEF Cells
  <2> QED BY <2>1
<1> QED BY <1>1 DEF Cells

\* Cells that are those of a pivot are a Pivot of the matrix; and so on.
LEMMA AsPivot ==
  ASSUME NEW W \in Cells, MatrixSeen = W, NEW M \in Cells, MatrixSeen' = M,
         SavedSeen' = SavedSeen,
         NEW nb \in Variable, NEW b \in Variable, NEW k \in Value, nb # b, W[b][nb] # 0,
         \A r, c \in Variable : M[r][c] = Pivoted(W, nb, b, k, r, c)
  PROVE  Abstract!Pivot(nb, b, k)
<1>1. PICK new : new = [c \in Variable |-> IF c = nb THEN MinusOne ELSE Times(k, W[b][c])]
  OBVIOUS
<1>2. ASSUME NEW r \in Variable
      PROVE  M[r] = IF r = nb THEN new
                    ELSE [c \in Variable |-> IF r = b \/ c = nb THEN 0
                                             ELSE Plus(W[r][c], Times(W[r][nb], new[c]))]
  <2>1. M[r] \in [Variable -> Value]
    BY DEF Cells
  <2>2. \A c \in Variable : new[c] = NewRow(W, nb, b, k, c)
    BY <1>1 DEF NewRow
  <2>3. CASE r = nb
    BY <1>1, <2>1, <2>2, <2>3 DEF Pivoted
  <2>4. CASE r # nb
    <3>1. \A c \in Variable : M[r][c] = IF r = b \/ c = nb THEN 0
                                        ELSE Plus(W[r][c], Times(W[r][nb], new[c]))
      BY <2>2, <2>4 DEF Pivoted
    <3> QED BY <2>1, <2>4, <3>1
  <2> QED BY <2>3, <2>4
<1>3. M = [r \in Variable |-> IF r = nb THEN new
                              ELSE [c \in Variable |-> IF r = b \/ c = nb THEN 0
                                      ELSE Plus(W[r][c], Times(W[r][nb], new[c]))]]
  BY <1>2 DEF Cells
<1> QED BY <1>1, <1>3 DEF Abstract!Pivot, Abstract!Variable, Abstract!MinusOne, Abstract!Plus,
             Abstract!Times, Variable, MinusOne, Plus, Times

\* One cell that was zero has a value.
LEMMA AsSetCell ==
  ASSUME NEW W \in Cells, MatrixSeen = W, NEW M \in Cells, MatrixSeen' = M,
         SavedSeen' = SavedSeen,
         NEW i \in Variable, NEW j \in Variable, NEW v \in Value, W[i][j] = 0,
         \A r, c \in Variable : M[r][c] = IF r = i /\ c = j THEN v ELSE W[r][c]
  PROVE  Abstract!SetCell(i, j, v)
<1>1. PICK N : N = [W EXCEPT ![i][j] = v]
  OBVIOUS
<1>2. N \in Cells /\ \A r, c \in Variable : N[r][c] = IF r = i /\ c = j THEN v ELSE W[r][c]
  BY <1>1 DEF Cells
<1>3. M = N
  BY <1>2, SameMatrix
<1> QED BY <1>1, <1>3 DEF Abstract!SetCell

\* A column is added to another one and cleared.
LEMMA AsMerge ==
  ASSUME NEW W \in Cells, MatrixSeen = W, NEW M \in Cells, MatrixSeen' = M,
         SavedSeen' = SavedSeen, NEW s \in Variable, NEW f \in Variable, s # f,
         \A r, c \in Variable : M[r][c] = IF c = s THEN 0
                                          ELSE IF c = f THEN Plus(W[r][c], W[r][s])
                                          ELSE W[r][c]
  PROVE  Abstract!MergeColumns(s, f)
<1>1. ASSUME NEW r \in Variable
      PROVE  M[r] = [W[r] EXCEPT ![f] = Plus(W[r][f], W[r][s]), ![s] = 0]
  <2>1. M[r] \in [Variable -> Value] /\ W[r] \in [Variable -> Value]
    BY DEF Cells
  <2> QED BY <2>1
<1>2. M = [r \in Variable |-> [W[r] EXCEPT ![f] = Plus(W[r][f], W[r][s]), ![s] = 0]]
  BY <1>1 DEF Cells
<1> QED BY <1>2 DEF Abstract!MergeColumns, Abstract!Variable, Abstract!Plus, Variable, Plus

\* A column is cleared.
LEMMA AsClearColumn ==
  ASSUME NEW W \in Cells, MatrixSeen = W, NEW M \in Cells, MatrixSeen' = M,
         SavedSeen' = SavedSeen, NEW s \in Variable,
         \A r, c \in Variable : M[r][c] = IF c = s THEN 0 ELSE W[r][c]
  PROVE  Abstract!ClearColumn(s)
<1>1. ASSUME NEW r \in Variable
      PROVE  M[r] = [W[r] EXCEPT ![s] = 0]
  <2>1. M[r] \in [Variable -> Value] /\ W[r] \in [Variable -> Value]
    BY DEF Cells
  <2> QED BY <2>1
<1>2. M = [r \in Variable |-> [W[r] EXCEPT ![s] = 0]]
  BY <1>1 DEF Cells
<1> QED BY <1>2 DEF Abstract!ClearColumn, Abstract!Variable, Variable

\* All cells are zero.
LEMMA AsZero ==
  ASSUME NEW M \in Cells, \A r, c \in Variable : M[r][c] = 0
  PROVE  M = Abstract!ZeroMatrix
<1>1. PICK N : N = [r \in Variable |-> [c \in Variable |-> 0]]
  OBVIOUS
<1>2. N \in Cells /\ \A r, c \in Variable : N[r][c] = 0
  BY <1>1, Constants DEF Cells
<1>3. M = N
  BY <1>2, SameMatrix
<1> QED BY <1>1, <1>3 DEF Abstract!ZeroMatrix, Abstract!Variable, Variable

(***************************************************************************)
(* What the callers see, step by step.                                     *)
(***************************************************************************)
NothingSeen == MatrixSeen' = MatrixSeen /\ SavedSeen' = SavedSeen
SeenStep == Abstract!Next \/ NothingSeen

\* In the middle of a call nothing is seen.
LEMMA UnseenWithin ==
  ASSUME ~Idle, ~Idle', before' = before
  PROVE  NothingSeen
BY DEF NothingSeen, MatrixSeen, SavedSeen, Seen

\* Nor when it begins.
LEMMA UnseenBegin ==
  ASSUME Idle, before' = [m \in Matrix |-> MatrixOf(m)],
         ~Idle' \/ UNCHANGED <<live, cell>>
  PROVE  NothingSeen
<1>1. "tableau" \in Matrix /\ "preprocessed" \in Matrix
  BY DEF Matrix
<1>2. CASE ~Idle'
  BY <1>1, <1>2 DEF NothingSeen, MatrixSeen, SavedSeen, Seen
<1>3. CASE Idle' /\ UNCHANGED <<live, cell>>
  <2>1. \A m, r, c : Cell(m, r, c)' = Cell(m, r, c)
    BY <1>3 DEF Cell, InRow, RowList
  <2>2. \A m : MatrixOf(m)' = MatrixOf(m)
    BY <2>1 DEF MatrixOf
  <2> QED BY <1>3, <2>2 DEF NothingSeen, MatrixSeen, SavedSeen, Seen
<1> QED BY <1>2, <1>3

\* A loop of the pivot.
LEMMA WithinPivotSeen ==
  ASSUME MatrixInv, Loop, op.kind \in {"addScaledRow", "eraseRow"}
  PROVE  NothingSeen
<1>1. pivoting.stage # "none" /\ ~Idle
  BY WithinPivot DEF Moving, Leaving, Clearing
<1>2. ~Idle' /\ before' = before
  BY <1>1 DEF Loop, client, Idle
<1> QED BY <1>1, <1>2, UnseenWithin

\* The saved matrix while no copy is made.
LEMMA SavedKept ==
  ASSUME LinkedInv, LinkedInv', MatrixInv, MatrixInv', ~Idle, op.kind # "copy", Idle',
         \A r, c \in Variable : Cell("preprocessed", r, c)' = Cell("preprocessed", r, c)
  PROVE  SavedSeen' = SavedSeen
<1>1. "preprocessed" \in Matrix
  BY DEF Matrix
<1>2. PICK A \in Cells : A = Seen("preprocessed") /\ A = before["preprocessed"]
  BY <1>1, SeenCells
<1>3. PICK B \in Cells : /\ B = Seen("preprocessed")'
                         /\ \A r, c \in Variable : B[r][c] = Cell("preprocessed", r, c)'
  BY <1>1, SeenCellsNext
<1>4. \A r, c \in Variable : Cell("preprocessed", r, c) = A[r][c]
  BY <1>2 DEF MatrixInv, SavedLeft
<1>5. B = A
  BY <1>3, <1>4, SameMatrix
<1> QED BY <1>2, <1>3, <1>5 DEF SavedSeen

\* The last turn of pivot's loop: the cells are those of the pivot.
LEMMA PivotSeen ==
  ASSUME LinkedInv, LinkedInv', MatrixInv, MatrixInv', PivotClearCell
  PROVE  SeenStep
<1>1. PICK W \in Cells, nb \in Variable, b \in Variable, k \in Value :
         /\ before["tableau"] = W /\ ~Idle /\ op.kind # "copy"
         /\ pivoting.nonBasic = nb /\ pivoting.basic = b
         /\ nb # b /\ W[b][nb] # 0
         /\ Moving(W, nb, b, k) \/ Leaving(W, nb, b, k) \/ Clearing(W, nb, b, k)
  BY WithinPivot DEF PivotClearCell
<1>2. Clearing(W, nb, b, k) /\ op.kind = "none" /\ cursor = NULL
  BY <1>1 DEF PivotClearCell, Returned, Moving, Leaving, LinkedInv, ScanInv
<1>3. UNCHANGED <<live, cell, before>>
  BY DEF PivotClearCell, AddScaledRow, heap, client
<1>4. SameCells /\ "tableau" \in Matrix /\ "preprocessed" \in Matrix
  BY <1>3, SameRead DEF Matrix
<1>5. CASE pivoting.cursor # NULL
  <2>1. pivoting' = [pivoting EXCEPT !.cursor = byColumn.next[pivoting.cursor]]
    BY <1>5 DEF PivotClearCell
  <2>2. pivoting'.stage = "column"
    BY <2>1, Typing DEF PivotClearCell, LinkedInv, PivotOK
  <2> QED BY <1>1, <1>3, <2>2, UnseenWithin DEF Idle, SeenStep
<1>6. CASE pivoting.cursor = NULL
  <2>1. pivoting' = NoPivot /\ op' = op
    BY <1>6 DEF PivotClearCell
  <2>2. Idle'
    BY <1>2, <2>1 DEF Idle, Returned, NoPivot
  <2>3. PICK P \in Left(byColumn, InColumn("tableau", nb), pivoting.cursor),
             Q \in Left(byRow, InRow("tableau", nb), cursor) :
         \A r, c \in Variable :
            Now(r, c) = IF \/ r = op.target /\ ColumnLeft(Q, c)
                           \/ r # nb /\ RowLeft(P, r)
                        THEN W[r][c] ELSE Pivoted(W, nb, b, k, r, c)
    BY <1>2 DEF Clearing
  <2>4. P = {} /\ Q = {}
    <3>1. NULL \notin InRow("tableau", nb) /\ NULL \notin InColumn("tableau", nb)
      BY Typing DEF LinkedInv, InRow, InColumn
    <3> QED BY <1>2, <1>6, <2>3, <3>1, NothingLeft
  <2>5. \A r, c \in Variable : Cell("tableau", r, c)' = Pivoted(W, nb, b, k, r, c)
    BY <1>4, <2>3, <2>4 DEF SameCells, Now, ColumnLeft, RowLeft
  <2>6. PICK M \in Cells : M = Seen("tableau")'
                           /\ \A r, c \in Variable : M[r][c] = Cell("tableau", r, c)'
    BY <1>4, <2>2, SeenCellsNext
  <2>7. MatrixSeen = W /\ MatrixSeen' = M
    BY <1>1, <2>6 DEF MatrixSeen, Seen
  <2>8. SavedSeen' = SavedSeen
    BY <1>1, <1>4, <2>2, SavedKept DEF SameCells
  <2>9. Abstract!Pivot(nb, b, k)
    BY <1>1, <2>5, <2>6, <2>7, <2>8, AsPivot
  <2> QED BY <2>9 DEF SeenStep, Abstract!Next, Abstract!Variable, Abstract!Value, Variable, Value
<1> QED BY <1>5, <1>6

\* The last turn of eraseColumn: a merge, or an elimination.
LEMMA EraseColumnSeen ==
  ASSUME LinkedInv, LinkedInv', MatrixInv, MatrixInv', EraseColumnStep,
         UNCHANGED <<pivoting, client>>
  PROVE  SeenStep
<1>t. op.kind = "eraseColumn" /\ UNCHANGED <<pivoting, before>>
  BY DEF EraseColumnStep, client
<1>1. "tableau" \in Matrix /\ "preprocessed" \in Matrix
  BY DEF Matrix
<1>2. PICK W \in Cells : before["tableau"] = W /\ Erasing(W) /\ ~Idle /\ pivoting.stage = "none"
  BY <1>t, <1>1 DEF MatrixInv, Idle, Returned, Pivoting, Moving, Leaving, Clearing, Merging,
                    Erasing, Copied
<1>3. CASE cursor # NULL
  <2>1. op' = op
    BY <1>3 DEF EraseColumnStep
  <2> QED BY <1>2, <1>t, <2>1, UnseenWithin DEF Idle, Returned, SeenStep
<1>4. CASE cursor = NULL
  <2>1. op' = NoOp /\ UNCHANGED <<live, cell>>
    BY <1>4 DEF EraseColumnStep, Return
  <2>2. Idle' /\ SameCells
    BY <1>2, <1>t, <2>1, SameRead DEF Idle, Returned, NoOp
  <2>3. PICK s \in Variable, f \in Variable :
          s = op.source /\ \A r, c \in Variable : c # s =>
            Now(r, c) = IF c = f THEN Plus(W[r][c], W[r][s]) ELSE W[r][c]
    <3>1. PICK s \in Variable : s = op.source
      BY Typing DEF LinkedInv
    <3> QED BY <1>2, <3>1 DEF Erasing
  <2>4. \A r \in Variable : Cell("tableau", r, s) = 0
    <3>1. InColumn("tableau", s) = {}
      <4>1. Chain(byColumn, InColumn("tableau", s), NULL)
        BY <1>4, <1>t, <2>3 DEF LinkedInv, ScanInv
      <4>2. NULL \notin InColumn("tableau", s)
        BY Typing DEF LinkedInv, InColumn
      <4> QED BY <4>1, <4>2 DEF Chain
    <3> QED BY <3>1, RowWhole DEF RowLeft
  <2>5. PICK M \in Cells : M = Seen("tableau")'
                           /\ \A r, c \in Variable : M[r][c] = Cell("tableau", r, c)'
    BY <1>1, <2>2, SeenCellsNext
  <2>6. MatrixSeen = W /\ MatrixSeen' = M
    BY <1>2, <2>5 DEF MatrixSeen, Seen
  <2>7. SavedSeen' = SavedSeen
    BY <1>1, <1>2, <1>t, <2>2, SavedKept DEF SameCells
  <2>8. \A r, c \in Variable : M[r][c] = IF c = s THEN 0
                                         ELSE IF c = f THEN Plus(W[r][c], W[r][s]) ELSE W[r][c]
    BY <1>1, <2>2, <2>3, <2>4, <2>5 DEF SameCells, Now
  <2>9. CASE f = s
    <3>1. \A r, c \in Variable : M[r][c] = IF c = s THEN 0 ELSE W[r][c]
      BY <2>8, <2>9
    <3>2. Abstract!ClearColumn(s)
      BY <2>6, <2>7, <3>1, AsClearColumn
    <3> QED BY <3>2 DEF SeenStep, Abstract!Next, Abstract!Variable, Variable
  <2>10. CASE f # s
    <3>1. Abstract!MergeColumns(s, f)
      BY <2>6, <2>7, <2>8, <2>10, AsMerge
    <3> QED BY <3>1 DEF SeenStep, Abstract!Next, Abstract!Variable, Variable
  <2> QED BY <2>9, <2>10
<1> QED BY <1>3, <1>4

\* A turn of addColumn, which hands over to eraseColumn.
LEMMA AddColumnSeen ==
  ASSUME AddColumnStep, UNCHANGED <<pivoting, client>>
  PROVE  SeenStep
<1>1. op.kind = "addColumn" /\ before' = before
  BY DEF AddColumnStep, client
<1>2. op'.kind # "none"
  <2>1. CASE cursor = NULL
    BY <2>1 DEF AddColumnStep, EraseColumn, NoOp
  <2>2. CASE cursor # NULL
    BY <1>1, <2>2 DEF AddColumnStep
  <2> QED BY <2>1, <2>2
<1> QED BY <1>1, <1>2, UnseenWithin DEF Idle, Returned, SeenStep

\* The last turn of the copy: the two matrices are the same.
LEMMA CopySeen ==
  ASSUME LinkedInv, LinkedInv', MatrixInv, MatrixInv', CopyStep, UNCHANGED <<pivoting, client>>
  PROVE  SeenStep
<1>t. op.kind = "copy" /\ UNCHANGED <<pivoting, before>> /\ ~Idle
  BY DEF CopyStep, client, Idle, Returned
<1>1. Copied
  BY <1>t DEF MatrixInv, Idle, Returned, Pivoting, Moving, Leaving, Clearing, Merging, Erasing
<1>2. PICK Q \in Left(byRow, InRow(op.matrix, op.source), cursor) :
        \A n \in Matrix, r, c \in Variable :
         Cell(n, r, c) =
           IF n # op.matrix /\ (r > op.source \/ (r = op.source /\ ColumnLeft(Q, c)))
           THEN 0 ELSE before[op.matrix][r][c]
  BY <1>1 DEF Copied
<1>3. PICK m \in Matrix, s \in Variable : m = op.matrix /\ s = op.source
  BY Typing DEF LinkedInv
<1>4. CASE op'.kind = "copy"
  BY <1>4, <1>t, UnseenWithin DEF Idle, Returned, SeenStep
<1>5. CASE op'.kind # "copy"
  <2>1. cursor = NULL /\ s + 1 \notin Variable /\ op' = NoOp /\ UNCHANGED <<live, cell>>
    <3>1. op' = op => op'.kind = "copy"
      BY <1>t
    <3>2. op' = [op EXCEPT !.source = op.source + 1] => op'.kind = "copy"
      BY <1>t, Typing DEF LinkedInv, OpOK
    <3> QED BY <1>3, <1>5, <3>1, <3>2 DEF CopyStep, Return, heap
  <2>2. Q = {}
    <3>1. NULL \notin InRow(op.matrix, op.source)
      BY Typing DEF LinkedInv, InRow
    <3> QED BY <1>2, <2>1, <3>1, NothingLeft
  <2>3. \A r \in Variable : ~(r > s)
    BY <2>1, Constants DEF Variable
  <2>4. \A n \in Matrix, r, c \in Variable : Cell(n, r, c)' = before[m][r][c]
    <3>1. SameCells
      BY <2>1, SameRead
    <3> QED BY <1>2, <1>3, <2>2, <2>3, <3>1 DEF SameCells, ColumnLeft
  <2>5. Idle'
    BY <1>1, <1>t, <2>1 DEF Copied, Idle, Returned, NoOp
  <2>6. ASSUME NEW n \in Matrix
        PROVE  Seen(n)' = Seen(m)
    <3>1. PICK B \in Cells : B = Seen(n)' /\ \A r, c \in Variable : B[r][c] = Cell(n, r, c)'
      BY <2>5, SeenCellsNext
    <3>2. PICK A \in Cells : A = Seen(m) /\ A = before[m]
      BY <1>t, SeenCells
    <3>3. B = A
      BY <2>4, <3>1, <3>2, SameMatrix
    <3> QED BY <3>1, <3>2, <3>3
  <2>7. MatrixSeen' = Seen(m) /\ SavedSeen' = Seen(m)
    BY <2>6 DEF MatrixSeen, SavedSeen, Matrix
  <2>8. CASE m = "tableau"
    BY <2>7, <2>8 DEF MatrixSeen, SeenStep, Abstract!Next, Abstract!Save
  <2>9. CASE m = "preprocessed"
    BY <2>7, <2>9 DEF SavedSeen, SeenStep, Abstract!Next, Abstract!Restore
  <2> QED BY <2>8, <2>9 DEF Matrix
<1> QED BY <1>4, <1>5

\* A cell is written.
LEMMA FillSeen ==
  ASSUME LinkedInv, LinkedInv', MatrixInv, MatrixInv', FillCell
  PROVE  SeenStep
<1>1. "tableau" \in Matrix /\ "preprocessed" \in Matrix /\ "tableau" # "preprocessed"
  BY DEF Matrix
<1>2. Idle /\ Idle'
  BY FillTurn
<1>3. PICK i \in Variable, j \in Variable, v \in Value :
        Cell("tableau", i, j) = 0 /\ Sets("tableau", i, j, v)
  BY FillTurn
<1>4. PICK W \in Cells : W = Seen("tableau")
                         /\ \A r, c \in Variable : W[r][c] = Cell("tableau", r, c)
  BY <1>1, <1>2, SeenCells
<1>5. PICK M \in Cells : M = Seen("tableau")'
                         /\ \A r, c \in Variable : M[r][c] = Cell("tableau", r, c)'
  BY <1>1, <1>2, SeenCellsNext
<1>6. \A r, c \in Variable : M[r][c] = IF r = i /\ c = j THEN v ELSE W[r][c]
  BY <1>1, <1>3, <1>4, <1>5 DEF Sets
<1>7. SavedSeen' = SavedSeen
  <2>1. PICK A \in Cells : /\ A = Seen("preprocessed")
                           /\ \A r, c \in Variable : A[r][c] = Cell("preprocessed", r, c)
    BY <1>1, <1>2, SeenCells
  <2>2. PICK B \in Cells : /\ B = Seen("preprocessed")'
                           /\ \A r, c \in Variable : B[r][c] = Cell("preprocessed", r, c)'
    BY <1>1, <1>2, SeenCellsNext
  <2>3. B = A
    BY <1>1, <1>3, <2>1, <2>2, SameMatrix DEF Sets
  <2> QED BY <2>1, <2>2, <2>3 DEF SavedSeen
<1>8. Abstract!SetCell(i, j, v)
  BY <1>3, <1>4, <1>5, <1>6, <1>7, AsSetCell DEF MatrixSeen
<1> QED BY <1>8 DEF SeenStep, Abstract!Next, Abstract!Variable, Abstract!Value, Variable, Value

\* The rows are thrown away.
LEMMA ExtractSeen ==
  ASSUME LinkedInv, LinkedInv', MatrixInv, MatrixInv', ExtractTableau
  PROVE  SeenStep
<1>1. "tableau" \in Matrix /\ "preprocessed" \in Matrix
  BY DEF Matrix
<1>2. /\ Idle /\ Idle'
      /\ \A r, c \in Variable :
              /\ Cell("tableau", r, c)' = 0
              /\ Cell("preprocessed", r, c)' = Cell("preprocessed", r, c)
  BY ExtractTurn
<1>3. PICK M \in Cells : M = Seen("tableau")'
                         /\ \A r, c \in Variable : M[r][c] = Cell("tableau", r, c)'
  BY <1>1, <1>2, SeenCellsNext
<1>4. M = Abstract!ZeroMatrix
  BY <1>2, <1>3, AsZero
<1>5. SavedSeen' = SavedSeen
  <2>1. PICK A \in Cells : /\ A = Seen("preprocessed")
                           /\ \A r, c \in Variable : A[r][c] = Cell("preprocessed", r, c)
    BY <1>1, <1>2, SeenCells
  <2>2. PICK B \in Cells : /\ B = Seen("preprocessed")'
                           /\ \A r, c \in Variable : B[r][c] = Cell("preprocessed", r, c)'
    BY <1>1, <1>2, SeenCellsNext
  <2>3. B = A
    BY <1>2, <2>1, <2>2, SameMatrix
  <2> QED BY <2>1, <2>2, <2>3 DEF SavedSeen
<1> QED BY <1>3, <1>4, <1>5 DEF MatrixSeen, SeenStep, Abstract!Next, Abstract!Clear

\* One step per operation.
LEMMA StepSeen ==
  ASSUME LinkedInv, LinkedInv', MatrixInv, MatrixInv', [Next]_vars
  PROVE  SeenStep
<1>1. CASE Loop
  <2>1. UNCHANGED <<pivoting, client>>
    BY <1>1 DEF Loop
  <2>2. CASE EraseRowStep \/ AddScaledRowStep
    BY <1>1, <2>2, WithinPivotSeen DEF EraseRowStep, AddScaledRowStep, SeenStep
  <2>3. CASE EraseColumnStep
    BY <2>1, <2>3, EraseColumnSeen
  <2>4. CASE AddColumnStep
    BY <2>1, <2>4, AddColumnSeen
  <2>5. CASE CopyStep
    BY <2>1, <2>5, CopySeen
  <2> QED BY <1>1, <2>2, <2>3, <2>4, <2>5 DEF Loop
<1>2. CASE PivotEraseRow
  <2>1. pivoting'.stage = "erased" /\ before' = before /\ ~Idle
    BY <1>2, Typing DEF LinkedInv, PivotEraseRow, PivotOK, client, Idle
  <2> QED BY <2>1, UnseenWithin DEF Idle, SeenStep
<1>3. CASE PivotReadColumn
  <2>1. pivoting'.stage = "column" /\ before' = before /\ ~Idle
    BY <1>3, Typing DEF LinkedInv, PivotReadColumn, PivotOK, client, Idle
  <2> QED BY <2>1, UnseenWithin DEF Idle, SeenStep
<1>4. CASE PivotClearCell
  BY <1>4, PivotSeen
<1>5. CASE FillCell
  BY <1>5, FillSeen
<1>6. CASE ExtractTableau
  BY <1>6, ExtractSeen
<1>7. ASSUME NEW nb \in Variable, NEW b \in Variable, NEW k \in Value \ {0}, Pivot(nb, b, k)
      PROVE  SeenStep
  <2>1. Idle /\ before' = [m \in Matrix |-> MatrixOf(m)] /\ pivoting'.stage = "moved"
    BY <1>7 DEF Pivot, Call, Calls, NoPivot
  <2> QED BY <2>1, UnseenBegin DEF Idle, SeenStep
<1>8. ASSUME NEW pair \in Pairs, UnifyReluPair(pair[1], pair[2])
      PROVE  SeenStep
  <2>1. Idle /\ before' = [m \in Matrix |-> MatrixOf(m)] /\ UNCHANGED <<live, cell>>
    BY <1>8 DEF UnifyReluPair, Call, Calls, AddColumnEraseSource, heap
  <2> QED BY <2>1, UnseenBegin DEF SeenStep
<1>9. ASSUME NEW aux \in Variable, Eliminate(aux)
      PROVE  SeenStep
  <2>1. Idle /\ before' = [m \in Matrix |-> MatrixOf(m)] /\ UNCHANGED <<live, cell>>
    BY <1>9 DEF Eliminate, Call, Calls, EraseColumn, heap
  <2> QED BY <2>1, UnseenBegin DEF SeenStep
<1>10. CASE StorePreprocessedMatrix \/ RestoreTableauFromBackup
  <2>1. Idle /\ before' = [m \in Matrix |-> MatrixOf(m)] /\ op'.kind = "copy"
    BY <1>10 DEF StorePreprocessedMatrix, RestoreTableauFromBackup, BackupIntoMatrix, NoOp,
                 Call, Calls
  <2> QED BY <2>1, UnseenBegin DEF Idle, Returned, SeenStep
<1>11. CASE UNCHANGED vars
  <2>1. UNCHANGED <<live, cell, op, pivoting, before>>
    BY <1>11 DEF vars, heap, locals, client
  <2>2. \A m, r, c : Cell(m, r, c)' = Cell(m, r, c)
    BY <2>1 DEF Cell, InRow, RowList
  <2>3. \A m : MatrixOf(m)' = MatrixOf(m)
    BY <2>2 DEF MatrixOf
  <2>4. NothingSeen
    BY <2>1, <2>3 DEF NothingSeen, MatrixSeen, SavedSeen, Seen, Idle, Returned
  <2> QED BY <2>4 DEF SeenStep
<1> QED BY <1>1, <1>2, <1>3, <1>4, <1>5, <1>6, <1>7, <1>8, <1>9, <1>10, <1>11
        DEF Next, Step, Client

\* At first there are no entries, so all cells are zero.
LEMMA InitSeen ==
  ASSUME LinkedInv, MatrixInv, Init
  PROVE  Abstract!Init
<1>1. live = {} /\ Idle
  BY DEF Init, NoOp, NoPivot, Idle, Returned
<1>2. \A m \in Matrix, r, c \in Variable : Cell(m, r, c) = 0
  BY <1>1 DEF Cell, InRow
<1>3. ASSUME NEW m \in Matrix
      PROVE  Seen(m) = Abstract!ZeroMatrix
  <2>1. PICK M \in Cells : M = Seen(m) /\ \A r, c \in Variable : M[r][c] = Cell(m, r, c)
    BY <1>1, SeenCells
  <2>2. M = Abstract!ZeroMatrix
    BY <1>2, <2>1, AsZero
  <2> QED BY <2>1, <2>2
<1> QED BY <1>3 DEF MatrixSeen, SavedSeen, Abstract!Init, Matrix

(***************************************************************************)
(* The lists implement the matrix: whatever the order of the entries of a  *)
(* list, and whichever address a new one gets, the operations of Tableau.h *)
(* and the pivot built from them change the cells as SparseMatrix says.    *)
(***************************************************************************)
THEOREM ListsImplementMatrix == Spec => ImplementsMatrix
<1>1. Init => Abstract!Init
  BY LinkedInit, MatrixInit, InitSeen
<1>2. /\ LinkedInv /\ MatrixInv /\ (LinkedInv /\ MatrixInv)' /\ [Next]_vars
      => [Abstract!Next]_<<MatrixSeen, SavedSeen>>
  BY StepSeen DEF SeenStep, NothingSeen
<1> QED BY <1>1, <1>2, MatrixInvariant, PTL DEF Spec, ImplementsMatrix, Abstract!Spec
=============================================================================
