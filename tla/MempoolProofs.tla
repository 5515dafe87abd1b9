--------------------------- MODULE MempoolProofs ---------------------------
(***************************************************************************)
(* Proofs about Mempool and the weighted tree it draws evictions from, for *)
(* every set of transactions, every weights and every limits.              *)
(*                                                                         *)
(* First the tree: a position knows the weight below it (TreeOK), add and  *)
(* remove keep it so, and the walk of findByEvictionWeight cuts the total  *)
(* weight into one piece per transaction (DrawsOf).  Then the pool: its    *)
(* structures agree (PoolOK) after every removal and acceptance, and what  *)
(* is removed takes its descendants along (Shrunk).  Then what             *)
(* DisconnectTip and ConnectTip make of a pool that fits the chain (Fit).  *)
(* MempoolInv puts these together; there is one lemma per action.          *)
(***************************************************************************)
EXTENDS Mempool, TreeTheorems, SequenceTheorems

-----------------------------------------------------------------------------
(* The shape of the array: index i is a child of HeapParent[i]. *)

HeapParent == [i \in Nat \ {0} |-> (i - 1) \div 2]

LEMMA HeapParentFacts ==
    /\ \A i \in Nat \ {0} : /\ HeapParent[i] \in Nat
                            /\ HeapParent[i] = (i - 1) \div 2
                            /\ HeapParent[i] < i
                            /\ i = 2 * HeapParent[i] + 1 \/ i = 2 * HeapParent[i] + 2
    /\ \A u \in Nat : /\ 2 * u + 1 \in Nat \ {0}
                      /\ 2 * u + 2 \in Nat \ {0}
                      /\ HeapParent[2 * u + 1] = u
                      /\ HeapParent[2 * u + 2] = u
    BY DEF HeapParent

\* What holds of 0, and of an index when it holds of its parent, holds of all.
LEMMA HeapInduction ==
    ASSUME NEW S \in SUBSET Nat, 0 \in S,
           \A b \in Nat \ {0} : HeapParent[b] \in S => b \in S
    PROVE  S = Nat
<1> SUFFICES ASSUME Nat \ S # {}
             PROVE  FALSE
    OBVIOUS
<1>1. PICK n \in Nat \ S : \A m \in Nat \ S : n <= m
    BY LeastNat
<1>2. n \in Nat \ {0} /\ HeapParent[n] \in Nat /\ HeapParent[n] < n
    BY <1>1, HeapParentFacts
<1>3. HeapParent[n] \in S
    BY <1>1, <1>2
<1> QED
    BY <1>1, <1>2, <1>3

LEMMA HeapIsTree == IsTree(Nat, 0, HeapParent)
<1>1. HeapParent \in [Nat \ {0} -> Nat]
    BY HeapParentFacts DEF HeapParent
<1> QED
    BY <1>1, HeapInduction DEF IsTree

\* The first n indices are a tree, too.
LEMMA HeapPartIsTree ==
    ASSUME NEW n \in Nat
    PROVE  IsTree(0..n, 0, [i \in (0..n) \ {0} |-> HeapParent[i]])
<1> DEFINE P == [i \in (0..n) \ {0} |-> HeapParent[i]]
<1>1. \A i \in (0..n) \ {0} : P[i] = HeapParent[i] /\ P[i] \in 0..n /\ P[i] < i
    BY HeapParentFacts
<1>2. P \in [(0..n) \ {0} -> 0..n]
    BY <1>1
<1> HIDE DEF P
<1>3. ASSUME NEW S \in SUBSET (0..n), 0 \in S,
             \A b \in (0..n) \ {0} : P[b] \in S => b \in S
      PROVE  S = 0..n
  <2> SUFFICES ASSUME (0..n) \ S # {}
               PROVE  FALSE
    OBVIOUS
  <2>1. PICK m \in (0..n) \ S : \A k \in (0..n) \ S : m <= k
    <3>1. (0..n) \ S \in SUBSET Nat
        OBVIOUS
    <3> QED
        BY <3>1, LeastNat
  <2>2. m \in (0..n) \ {0} /\ P[m] \in 0..n /\ P[m] < m
    BY <2>1, <1>3, <1>1
  <2> QED
    BY <1>3, <2>1, <2>2
<1>4. IsTree(0..n, 0, P)
    BY <1>2, <1>3 DEF IsTree
<1> QED
    BY <1>4 DEF P

\* i and all indices above it.
Up == CHOOSE f : IsPath(Nat, 0, HeapParent, f)

LEMMA UpFacts ==
    /\ Up[0] = {0}
    /\ \A i \in Nat \ {0} : Up[i] = {i} \cup Up[HeapParent[i]]
    /\ \A i \in Nat : i \in Up[i] /\ 0 \in Up[i] /\ Up[i] \subseteq 0..i
    /\ \A i \in Nat : \A c \in Up[i] : Up[c] \subseteq Up[i]
<1>1. IsPath(Nat, 0, HeapParent, Up)
    BY HeapIsTree, PathExists DEF Up
<1>2. /\ Up[0] = {0}
      /\ \A i \in Nat \ {0} : Up[i] = {i} \cup Up[HeapParent[i]]
      /\ \A i \in Nat : i \in Up[i]
    BY <1>1, HeapIsTree, PathEquation
<1>3. \A i \in Nat : /\ Up[i] \subseteq Nat
                     /\ 0 \in Up[i]
                     /\ \A c \in Up[i] : Up[c] \subseteq Up[i]
    BY <1>1, HeapIsTree, PathFacts
<1> DEFINE S == {i \in Nat : Up[i] \subseteq 0..i}
<1>4. 0 \in S
    BY <1>2
<1>5. ASSUME NEW i \in Nat \ {0}, HeapParent[i] \in S
      PROVE  i \in S
  <2>1. HeapParent[i] < i /\ HeapParent[i] \in Nat /\ Up[HeapParent[i]] \subseteq 0..HeapParent[i]
    BY <1>5, HeapParentFacts
  <2>2. Up[i] = {i} \cup Up[HeapParent[i]]
    BY <1>2
  <2> HIDE DEF S
  <2>3. Up[i] \subseteq 0..i
    BY <2>1, <2>2
  <2> QED
    BY <2>3 DEF S
<1>6. S = Nat
  <2>1. S \in SUBSET Nat
    OBVIOUS
  <2> HIDE DEF S
  <2> QED
    BY <2>1, <1>4, <1>5, HeapInduction
<1> QED
    BY <1>2, <1>3, <1>6

\* What is above i and not i has exactly one child that is i or above it;
\* other indices have none.
LEMMA UpChildren ==
    ASSUME NEW i \in Nat, NEW c \in Nat
    PROVE  /\ c \in Up[i] /\ c # i => (2 * c + 1 \in Up[i]) # (2 * c + 2 \in Up[i])
           /\ ~ (c \in Up[i] /\ c # i) => 2 * c + 1 \notin Up[i] /\ 2 * c + 2 \notin Up[i]
<1> DEFINE One(j) == \A d \in Up[j] : d # j => (2 * d + 1 \in Up[j]) # (2 * d + 2 \in Up[j])
           S == {j \in Nat : One(j)}
<1>1. 0 \in S
    BY UpFacts
<1>2. ASSUME NEW j \in Nat \ {0}, HeapParent[j] \in S
      PROVE  j \in S
  <2> SUFFICES ASSUME NEW d \in Up[j], d # j
               PROVE  (2 * d + 1 \in Up[j]) # (2 * d + 2 \in Up[j])
    OBVIOUS
  <2> DEFINE u == HeapParent[j]
  <2>1. /\ u \in Nat
        /\ u < j
        /\ j = 2 * u + 1 \/ j = 2 * u + 2
        /\ Up[j] = {j} \cup Up[u]
        /\ Up[u] \subseteq 0..u
        /\ d \in Up[u]
        /\ d \in Nat
    <3>1. u \in Nat /\ u < j /\ (j = 2 * u + 1 \/ j = 2 * u + 2)
        BY HeapParentFacts
    <3>2. Up[j] = {j} \cup Up[u]
        BY UpFacts
    <3> HIDE DEF u
    <3>3. Up[u] \subseteq 0..u
        BY <3>1, UpFacts
    <3>4. d \in Up[u]
        BY <3>2
    <3> QED
        BY <3>1, <3>2, <3>3, <3>4
  <2>2. One(u)
    BY <1>2
  <2> HIDE DEF u
  <2>3. CASE d = u
    <3>1. 2 * u + 1 \notin Up[u] /\ 2 * u + 2 \notin Up[u]
        BY <2>1
    <3> QED
        BY <2>1, <2>3, <3>1
  <2>4. CASE d # u
    <3>1. 2 * d + 1 # j /\ 2 * d + 2 # j
        BY <2>1, <2>4
    <3> QED
        BY <2>1, <2>2, <2>4, <3>1
  <2> QED
    BY <2>3, <2>4
<1>3. S = Nat
  <2>1. S \in SUBSET Nat
    OBVIOUS
  <2> HIDE DEF S
  <2> QED
    BY <2>1, <1>1, <1>2, HeapInduction
<1>4. c \in Up[i] /\ c # i => (2 * c + 1 \in Up[i]) # (2 * c + 2 \in Up[i])
    BY <1>3
<1>5. ASSUME NEW d \in {2 * c + 1, 2 * c + 2}, d \in Up[i]
      PROVE  c \in Up[i] /\ c # i
  <2>1. d \in Nat \ {0} /\ HeapParent[d] = c /\ c < d
    BY HeapParentFacts
  <2>2. Up[d] \subseteq Up[i] /\ Up[d] = {d} \cup Up[c] /\ c \in Up[c] /\ Up[i] \subseteq 0..i
    BY <2>1, <1>5, UpFacts
  <2> QED
    BY <2>1, <2>2, <1>5
<1> QED
    BY <1>4, <1>5

LEMMA UpChild ==
    ASSUME NEW i \in Nat, NEW c \in Nat, c \in Up[i], c # i
    PROVE  2 * c + 1 \in Up[i] \/ 2 * c + 2 \in Up[i]
<1>1. (2 * c + 1 \in Up[i]) # (2 * c + 2 \in Up[i])
    BY UpChildren
<1> QED
    BY <1>1

\* The recursion of Ancestors computes what is strictly above an index.
LEMMA AncestorsAreUp ==
    ASSUME NEW i \in Nat
    PROVE  Ancestors(i) = Up[i] \ {i}
<1> DEFINE B == 0..i
           P == [k \in B \ {0} |-> HeapParent[k]]
           X == SUBSET Nat
           F == [k \in B \ {0} |-> [x \in X |-> {(k - 1) \div 2} \cup x]]
           Eq(f) == f = [k \in 0..i |-> IF k = 0 THEN {}
                                        ELSE {(k - 1) \div 2} \cup f[(k - 1) \div 2]]
           up == CHOOSE f : Eq(f)
<1>1. \A k \in B \ {0} : P[k] = (k - 1) \div 2 /\ P[k] \in B /\ P[k] \in Nat /\ P[k] < k
    BY HeapParentFacts
<1>2. \E f : Eq(f)
  <2>1. F \in [B \ {0} -> [X -> X]]
    BY <1>1
  <2>2. PICK f : IsTreeFold(B, 0, P, X, {}, F, f)
    <3>1. {} \in X /\ IsTree(B, 0, P)
        BY HeapPartIsTree
    <3> HIDE DEF B, P, X, F
    <3> QED
        BY <2>1, <3>1, TreeFoldExists
  <2>3. /\ f \in [B -> X]
        /\ f[0] = {}
        /\ \A k \in B \ {0} : f[k] = F[k][f[P[k]]]
    BY <2>2 DEF IsTreeFold
  <2>4. ASSUME NEW k \in B \ {0}
        PROVE  f[k] = {(k - 1) \div 2} \cup f[(k - 1) \div 2]
    <3>1. f[P[k]] \in X /\ P[k] = (k - 1) \div 2
        BY <1>1, <2>3
    <3>2. F[k][f[P[k]]] = {(k - 1) \div 2} \cup f[P[k]]
        BY <3>1
    <3> QED
        BY <3>1, <3>2, <2>3
  <2>5. Eq(f)
    BY <2>3, <2>4
  <2> HIDE DEF Eq
  <2> QED
    BY <2>5
<1>3. Eq(up)
  <2> HIDE DEF Eq
  <2> QED
    BY <1>2
<1>4. Ancestors(i) = up[i]
    BY DEF Ancestors
<1> HIDE DEF up
<1>5. up[0] = {} /\ \A k \in B \ {0} : up[k] = {P[k]} \cup up[P[k]]
  <2> HIDE DEF P
  <2> DEFINE v(k) == IF k = 0 THEN {} ELSE {(k - 1) \div 2} \cup up[(k - 1) \div 2]
  <2>1. \A k \in 0..i : up[k] = v(k)
    <3>1. up = [k \in 0..i |-> v(k)]
        BY <1>3
    <3> HIDE DEF v
    <3> QED
        BY <3>1
  <2>2. up[0] = {}
    <3>1. 0 \in 0..i /\ v(0) = {}
        OBVIOUS
    <3> QED
        BY ONLY <3>1, <2>1
  <2>3. ASSUME NEW k \in B \ {0}
        PROVE  up[k] = {P[k]} \cup up[P[k]]
    <3>1. up[k] = {(k - 1) \div 2} \cup up[(k - 1) \div 2]
        BY <2>1
    <3> QED
        BY <3>1, <1>1
  <2> QED
    BY <2>2, <2>3
<1> DEFINE S == {k \in B : up[k] = Up[k] \ {k}}
<1>6. 0 \in S
    BY <1>5, UpFacts
<1>7. ASSUME NEW k \in B \ {0}, P[k] \in S
      PROVE  k \in S
  <2>1. /\ Up[k] = {k} \cup Up[P[k]]
        /\ P[k] \in Up[P[k]]
        /\ k \notin Up[P[k]]
    <3>1. k \in Nat \ {0} /\ P[k] = HeapParent[k]
        OBVIOUS
    <3>2. P[k] \in Nat /\ P[k] < k
        BY <1>1
    <3> HIDE DEF P
    <3>3. Up[P[k]] \subseteq 0..P[k] /\ P[k] \in Up[P[k]]
        BY <3>2, UpFacts
    <3>4. Up[k] = {k} \cup Up[P[k]]
        BY <3>1, UpFacts
    <3> QED
        BY <3>1, <3>2, <3>3, <3>4
  <2> HIDE DEF P
  <2> QED
    BY <2>1, <1>5, <1>7
<1>8. S = B
  <2>1. S \in SUBSET B /\ IsTree(B, 0, P)
    BY HeapPartIsTree
  <2> HIDE DEF S, B, P
  <2> QED
    BY <2>1, <1>6, <1>7, TreeInduction
<1> QED
    BY <1>4, <1>8

-----------------------------------------------------------------------------
(* The weights *)

\* w[c] is the weight of c and of all that is below it.
IsWeighing(own, w) ==
    /\ own \in [Nat -> Int]
    /\ w \in [Nat -> Int]
    /\ \A c \in Nat : w[c] = own[c] + w[2 * c + 1] + w[2 * c + 2]

\* A weight that changes by d changes, by d, what it and those above it weigh.
Bump(i, d, w) == [c \in Nat |-> IF c \in Up[i] THEN w[c] + d ELSE w[c]]
BumpOwn(i, d, own) == [c \in Nat |-> IF c = i THEN own[c] + d ELSE own[c]]

LEMMA BumpWeighs ==
    ASSUME NEW own, NEW w, IsWeighing(own, w), NEW i \in Nat, NEW d \in Int
    PROVE  IsWeighing(BumpOwn(i, d, own), Bump(i, d, w))
<1> DEFINE o2 == BumpOwn(i, d, own)
           w2 == Bump(i, d, w)
<1>1. /\ own \in [Nat -> Int]
      /\ w \in [Nat -> Int]
      /\ \A c \in Nat : w[c] = own[c] + w[2 * c + 1] + w[2 * c + 2]
    BY DEF IsWeighing
<1>2. /\ o2 \in [Nat -> Int]
      /\ w2 \in [Nat -> Int]
      /\ \A c \in Nat : o2[c] = IF c = i THEN own[c] + d ELSE own[c]
      /\ \A c \in Nat : w2[c] = IF c \in Up[i] THEN w[c] + d ELSE w[c]
    BY <1>1 DEF BumpOwn, Bump
<1> HIDE DEF o2, w2
<1>3. ASSUME NEW c \in Nat
      PROVE  w2[c] = o2[c] + w2[2 * c + 1] + w2[2 * c + 2]
  <2> DEFINE l == 2 * c + 1
             r == 2 * c + 2
  <2>1. /\ l \in Nat /\ r \in Nat
        /\ w[c] = own[c] + w[l] + w[r]
        /\ w[c] \in Int /\ w[l] \in Int /\ w[r] \in Int /\ own[c] \in Int
    BY <1>1
  <2>2. /\ w2[c] = IF c \in Up[i] THEN w[c] + d ELSE w[c]
        /\ w2[l] = IF l \in Up[i] THEN w[l] + d ELSE w[l]
        /\ w2[r] = IF r \in Up[i] THEN w[r] + d ELSE w[r]
        /\ o2[c] = IF c = i THEN own[c] + d ELSE own[c]
    BY <2>1, <1>2
  <2>3. /\ c \in Up[i] /\ c # i => (l \in Up[i]) # (r \in Up[i])
        /\ ~ (c \in Up[i] /\ c # i) => l \notin Up[i] /\ r \notin Up[i]
        /\ c = i => c \in Up[i]
    BY UpChildren, UpFacts
  <2> HIDE DEF l, r
  <2>4. w2[c] = o2[c] + w2[l] + w2[r]
    <3>1. CASE c = i
        BY <3>1, <2>1, <2>2, <2>3
    <3>2. CASE c # i /\ c \notin Up[i]
        BY <3>2, <2>1, <2>2, <2>3
    <3>3. CASE c # i /\ c \in Up[i] /\ l \in Up[i]
      <4>1. r \notin Up[i]
        BY <3>3, <2>3
      <4> QED
        BY <4>1, <3>3, <2>1, <2>2
    <3>4. CASE c # i /\ c \in Up[i] /\ l \notin Up[i]
      <4>1. r \in Up[i]
        BY <3>4, <2>3
      <4> QED
        BY <4>1, <3>4, <2>1, <2>2
    <3> QED
        BY <3>1, <3>2, <3>3, <3>4
  <2> QED
    BY <2>4 DEF l, r
<1>4. IsWeighing(o2, w2)
    BY <1>2, <1>3 DEF IsWeighing
<1> QED
    BY <1>4 DEF o2, w2

Own(tr) == [c \in Nat |-> IF c < Len(tr.ids) THEN Weight[tr.ids[c + 1]] ELSE 0]
Below(tr) == [c \in Nat |-> getWeightAt(tr, c)]

\* The tree lists transactions once each and knows the weight below each.
TreeShape(tr) ==
    /\ tr.ids \in Seq(Tx)
    /\ tr.child \in Seq(Int)
    /\ Len(tr.child) = Len(tr.ids)
    /\ IsInjective(tr.ids)

TreeOK(tr) == TreeShape(tr) /\ IsWeighing(Own(tr), Below(tr))

LEMMA WeightFacts == \A t \in Tx : Weight[t] \in Nat /\ Weight[t] > 0 /\ Weight[t] \in Int
    BY WeightAssumption

LEMMA TreeShapeFacts ==
    ASSUME NEW tr, TreeShape(tr)
    PROVE  /\ Len(tr.ids) \in Nat
           /\ DOMAIN tr.ids = 1..Len(tr.ids)
           /\ DOMAIN tr.child = 1..Len(tr.ids)
           /\ \A k \in 1..Len(tr.ids) : tr.ids[k] \in Tx /\ tr.child[k] \in Int
           /\ \A c \in Nat : Own(tr)[c] = IF c < Len(tr.ids) THEN Weight[tr.ids[c + 1]] ELSE 0
           /\ \A c \in Nat : Below(tr)[c] = IF c < Len(tr.ids)
                                            THEN Weight[tr.ids[c + 1]] + tr.child[c + 1] ELSE 0
           /\ \A c \in Nat : Own(tr)[c] \in Nat /\ Below(tr)[c] \in Int
           /\ Own(tr) \in [Nat -> Int] /\ Below(tr) \in [Nat -> Int]
<1>1. /\ Len(tr.ids) \in Nat
      /\ DOMAIN tr.ids = 1..Len(tr.ids)
      /\ DOMAIN tr.child = 1..Len(tr.ids)
      /\ \A k \in 1..Len(tr.ids) : tr.ids[k] \in Tx /\ tr.child[k] \in Int
    BY LenProperties, ElementOfSeq DEF TreeShape
<1>2. /\ \A c \in Nat : Own(tr)[c] = IF c < Len(tr.ids) THEN Weight[tr.ids[c + 1]] ELSE 0
      /\ \A c \in Nat : Below(tr)[c] = IF c < Len(tr.ids)
                                       THEN Weight[tr.ids[c + 1]] + tr.child[c + 1] ELSE 0
    BY DEF Own, Below, getWeightAt
<1>3. ASSUME NEW c \in Nat
      PROVE  Own(tr)[c] \in Nat /\ Below(tr)[c] \in Int
  <2>1. CASE c < Len(tr.ids)
    <3>1. c + 1 \in 1..Len(tr.ids)
        BY <1>1, <2>1
    <3>2. Weight[tr.ids[c + 1]] \in Nat /\ tr.child[c + 1] \in Int
        BY <3>1, <1>1, WeightFacts
    <3>3. Own(tr)[c] = Weight[tr.ids[c + 1]]
        BY <2>1, <1>2, Zenon
    <3>4. Below(tr)[c] = Weight[tr.ids[c + 1]] + tr.child[c + 1]
        BY <2>1, <1>2, Zenon
    <3>5. Below(tr)[c] \in Int
        BY <3>2, <3>4
    <3> QED
        BY <3>2, <3>3, <3>5
  <2>2. CASE ~ (c < Len(tr.ids))
    BY <2>2, <1>2
  <2> QED
    BY <2>1, <2>2
<1>4. Own(tr) \in [Nat -> Int] /\ Below(tr) \in [Nat -> Int]
  <2>1. Own(tr) = [c \in Nat |-> Own(tr)[c]] /\ Below(tr) = [c \in Nat |-> Below(tr)[c]]
    BY DEF Own, Below
  <2> QED
    BY <2>1, <1>3
<1> QED
    BY <1>1, <1>2, <1>3, <1>4

LEMMA BackPropagate ==
    ASSUME NEW child \in Seq(Int), NEW from \in Nat, NEW d \in Int
    PROVE  LET more == backPropagate(child, from, d)
           IN  /\ more \in Seq(Int)
               /\ Len(more) = Len(child)
               /\ \A k \in 1..Len(child) :
                     more[k] = IF k - 1 \in Up[from] /\ k - 1 # from THEN child[k] + d ELSE child[k]
<1> DEFINE more == backPropagate(child, from, d)
           v(k) == IF k - 1 \in Ancestors(from) THEN child[k] + d ELSE child[k]
<1>1. Len(child) \in Nat /\ DOMAIN child = 1..Len(child) /\ \A k \in 1..Len(child) : child[k] \in Int
    BY LenProperties, ElementOfSeq
<1>2. \A k \in 1..Len(child) : v(k) \in Int
    BY <1>1
<1>3. more = [k \in 1..Len(child) |-> v(k)]
    BY <1>1 DEF backPropagate
<1>4. \A k \in 1..Len(child) : v(k) = IF k - 1 \in Up[from] /\ k - 1 # from THEN child[k] + d ELSE child[k]
    BY AncestorsAreUp
<1> HIDE DEF v
<1>5. more \in Seq(Int) /\ Len(more) = Len(child)
    BY <1>1, <1>2, <1>3
<1>6. \A k \in 1..Len(child) : more[k] = v(k)
    BY <1>3
<1> HIDE DEF more
<1>7. \A k \in 1..Len(child) : more[k] = IF k - 1 \in Up[from] /\ k - 1 # from THEN child[k] + d ELSE child[k]
    BY <1>4, <1>6
<1> QED
    BY <1>5, <1>7 DEF more

\* A new transaction at the end of the array.
LEMMA AddToTree ==
    ASSUME NEW tr, TreeOK(tr), NEW t \in Tx, t \notin ToSet(tr.ids)
    PROVE  TreeOK(add(tr, t)) /\ ToSet(add(tr, t).ids) = ToSet(tr.ids) \cup {t}
<1> DEFINE n == Len(tr.ids)
           ids2 == Append(tr.ids, t)
           c1 == Append(tr.child, 0)
           c2 == backPropagate(c1, n, Weight[t])
           tr2 == [ids |-> ids2, child |-> c2]
<1>1. TreeShape(tr) /\ IsWeighing(Own(tr), Below(tr))
    BY DEF TreeOK
<1>2. /\ n \in Nat
      /\ DOMAIN tr.ids = 1..n
      /\ \A k \in 1..n : tr.ids[k] \in Tx /\ tr.child[k] \in Int
      /\ \A c \in Nat : Own(tr)[c] = IF c < n THEN Weight[tr.ids[c + 1]] ELSE 0
      /\ \A c \in Nat : Below(tr)[c] = IF c < n THEN Weight[tr.ids[c + 1]] + tr.child[c + 1] ELSE 0
    BY <1>1, TreeShapeFacts
<1>3. /\ tr.ids \in Seq(Tx) /\ tr.child \in Seq(Int) /\ Len(tr.child) = n
      /\ IsInjective(tr.ids)
    BY <1>1 DEF TreeShape
<1>4. \A k \in 1..n : tr.ids[k] # t
    BY <1>2 DEF ToSet
<1>5. add(tr, t) = tr2
    BY <1>2, <1>4 DEF add, InTree
<1>6. ids2 \in Seq(Tx) /\ Len(ids2) = n + 1 /\ \A k \in 1..(n + 1) : ids2[k] = IF k = n + 1 THEN t ELSE tr.ids[k]
    BY <1>2, <1>3
<1>7. c1 \in Seq(Int) /\ Len(c1) = n + 1 /\ \A k \in 1..(n + 1) : c1[k] = IF k = n + 1 THEN 0 ELSE tr.child[k]
    BY <1>2, <1>3
<1>8. Weight[t] \in Int
    BY WeightFacts
<1>9. /\ c2 \in Seq(Int)
      /\ Len(c2) = n + 1
      /\ \A k \in 1..(n + 1) : c2[k] = IF k - 1 \in Up[n] /\ k - 1 # n THEN c1[k] + Weight[t] ELSE c1[k]
  <2> HIDE DEF c1
  <2>1. /\ c2 \in Seq(Int)
        /\ Len(c2) = Len(c1)
        /\ \A k \in 1..Len(c1) : c2[k] = IF k - 1 \in Up[n] /\ k - 1 # n THEN c1[k] + Weight[t] ELSE c1[k]
    <3>1. c1 \in Seq(Int) /\ n \in Nat /\ Weight[t] \in Int
        BY <1>2, <1>7, <1>8
    <3> HIDE DEF n
    <3> QED
        BY ONLY <3>1, BackPropagate
  <2>2. Len(c1) = n + 1
    BY <1>7
  <2> HIDE DEF n, c2
  <2> QED
    BY ONLY <2>1, <2>2
<1>10. tr2.ids = ids2 /\ tr2.child = c2
    OBVIOUS
<1> HIDE DEF ids2, c1, c2, tr2
<1>11. DOMAIN ids2 = 1..(n + 1)
    BY <1>2, <1>6
<1>12. ToSet(ids2) = ToSet(tr.ids) \cup {t}
  <2>1. \A k \in 1..n : k \in 1..(n + 1) /\ ids2[k] = tr.ids[k]
    BY <1>2, <1>6
  <2>2. n + 1 \in 1..(n + 1) /\ ids2[n + 1] = t
    BY <1>2, <1>6
  <2>3. \A k \in 1..(n + 1) : k = n + 1 \/ k \in 1..n
    BY <1>2
  <2> HIDE DEF n
  <2> QED
    BY <1>2, <1>11, <2>1, <2>2, <2>3 DEF ToSet
<1>13. IsInjective(ids2)
  <2> SUFFICES ASSUME NEW a \in 1..(n + 1), NEW b \in 1..(n + 1), ids2[a] = ids2[b]
               PROVE  a = b
    BY <1>11 DEF IsInjective
  <2>1. CASE a \in 1..n /\ b \in 1..n
    <3>1. ids2[a] = tr.ids[a] /\ ids2[b] = tr.ids[b]
        BY <2>1, <1>2, <1>6
    <3> HIDE DEF n
    <3> QED
        BY <3>1, <2>1, <1>2, <1>3 DEF IsInjective
  <2>2. CASE a = n + 1 \/ b = n + 1
    BY <2>2, <1>2, <1>4, <1>6
  <2> QED
    BY <2>1, <2>2, <1>2
<1>14. TreeShape(tr2)
    BY <1>6, <1>9, <1>10, <1>13 DEF TreeShape
<1>15. /\ \A c \in Nat : Own(tr2)[c] = IF c < n + 1 THEN Weight[ids2[c + 1]] ELSE 0
       /\ \A c \in Nat : Below(tr2)[c] = IF c < n + 1 THEN Weight[ids2[c + 1]] + c2[c + 1] ELSE 0
  <2>1. /\ \A c \in Nat : Own(tr2)[c] = IF c < Len(tr2.ids) THEN Weight[tr2.ids[c + 1]] ELSE 0
        /\ \A c \in Nat : Below(tr2)[c] = IF c < Len(tr2.ids)
                                          THEN Weight[tr2.ids[c + 1]] + tr2.child[c + 1] ELSE 0
    BY <1>14, TreeShapeFacts
  <2> HIDE DEF n
  <2> QED
    BY ONLY <2>1, <1>6, <1>10
<1>16. Own(tr2) = BumpOwn(n, Weight[t], Own(tr))
  <2>1. ASSUME NEW c \in Nat
        PROVE  Own(tr2)[c] = IF c = n THEN Own(tr)[c] + Weight[t] ELSE Own(tr)[c]
    <3>1. CASE c < n
      <4>1. c + 1 \in 1..(n + 1) /\ c + 1 # n + 1
        BY <3>1, <1>2
      <4> QED
        BY <4>1, <3>1, <1>2, <1>6, <1>15
    <3>2. CASE c = n
      <4>1. n + 1 \in 1..(n + 1)
        BY <1>2
      <4> QED
        BY <4>1, <3>2, <1>2, <1>6, <1>8, <1>15
    <3>3. CASE c > n
        BY <3>3, <1>2, <1>15
    <3> QED
        BY <3>1, <3>2, <3>3, <1>2
  <2> QED
    BY <2>1 DEF Own, BumpOwn
<1>17. Below(tr2) = Bump(n, Weight[t], Below(tr))
  <2>0. n \in Up[n] /\ Up[n] \subseteq 0..n
    BY <1>2, UpFacts
  <2>1. ASSUME NEW c \in Nat
        PROVE  Below(tr2)[c] = IF c \in Up[n] THEN Below(tr)[c] + Weight[t] ELSE Below(tr)[c]
    <3>1. CASE c < n
      <4>1. c + 1 \in 1..(n + 1) /\ c + 1 # n + 1 /\ c + 1 - 1 = c /\ c + 1 \in 1..n /\ c # n
        BY <3>1, <1>2
      <4>2. Below(tr2)[c] = Weight[ids2[c + 1]] + c2[c + 1]
        BY <3>1, <1>2, <1>15
      <4>3. ids2[c + 1] = tr.ids[c + 1] /\ c1[c + 1] = tr.child[c + 1]
        BY <4>1, <1>6, <1>7
      <4>4. c2[c + 1] = IF c \in Up[n] THEN tr.child[c + 1] + Weight[t] ELSE tr.child[c + 1]
        <5>1. c2[c + 1] = IF c + 1 - 1 \in Up[n] /\ c + 1 - 1 # n THEN c1[c + 1] + Weight[t] ELSE c1[c + 1]
          <6> HIDE DEF n
          <6> QED
            BY ONLY <4>1, <1>9
        <5> HIDE DEF n
        <5> QED
            BY ONLY <5>1, <4>1, <4>3
      <4>5. Below(tr)[c] = Weight[tr.ids[c + 1]] + tr.child[c + 1]
        BY <3>1, <1>2
      <4>6. Weight[tr.ids[c + 1]] \in Int /\ tr.child[c + 1] \in Int
        BY <4>1, <1>2, WeightFacts
      <4>7. CASE c \in Up[n]
        <5>1. c2[c + 1] = tr.child[c + 1] + Weight[t]
            BY <4>7, <4>4
        <5> QED
            BY ONLY <5>1, <4>2, <4>3, <4>5, <4>6, <4>7, <1>8
      <4>8. CASE c \notin Up[n]
        BY <4>8, <4>2, <4>3, <4>4, <4>5
      <4> QED
        BY <4>7, <4>8
    <3>2. CASE c = n
      <4>1. n + 1 \in 1..(n + 1) /\ n + 1 - 1 = n
        BY <1>2
      <4>2. c2[n + 1] = 0 /\ ids2[n + 1] = t
        BY <4>1, <1>6, <1>7, <1>9
      <4>3. Below(tr2)[n] = Weight[t] + c2[n + 1] /\ Below(tr)[n] = 0
        BY <4>2, <1>2, <1>15
      <4> QED
        BY <4>2, <4>3, <3>2, <2>0, <1>8
    <3>3. CASE c > n
      <4>1. c \notin Up[n]
        BY <3>3, <2>0, <1>2
      <4> QED
        BY <3>3, <4>1, <1>2, <1>15
    <3> QED
        BY <3>1, <3>2, <3>3, <1>2
  <2> QED
    BY <2>1 DEF Below, Bump
<1>18. IsWeighing(Own(tr2), Below(tr2))
  <2> HIDE DEF n
  <2> QED
    BY <1>1, <1>2, <1>8, <1>16, <1>17, BumpWeighs
<1> QED
    BY <1>5, <1>10, <1>12, <1>14, <1>18 DEF TreeOK

\* The last transaction takes the place of one that goes.
LEMMA RemoveFromTree ==
    ASSUME NEW tr, TreeOK(tr), NEW t \in ToSet(tr.ids)
    PROVE  TreeOK(remove(tr, t)) /\ ToSet(remove(tr, t).ids) = ToSet(tr.ids) \ {t}
<1> DEFINE n == Len(tr.ids) - 1
           at == CHOOSE k \in DOMAIN tr.ids : tr.ids[k] = t
           last == tr.ids[n + 1]
           wl == Weight[last]
           wt == Weight[t]
           less == backPropagate(tr.child, n, -wl)
           more == backPropagate(less, at - 1, wl - wt)
           moved == IF at <= n THEN more ELSE less
           ids1 == [tr.ids EXCEPT ![at] = last]
           ids2 == SubSeq(ids1, 1, n)
           c2 == SubSeq(moved, 1, n)
           tr2 == [ids |-> ids2, child |-> c2]
<1>1. TreeShape(tr) /\ IsWeighing(Own(tr), Below(tr))
    BY DEF TreeOK
<1>2. /\ tr.ids \in Seq(Tx) /\ tr.child \in Seq(Int) /\ Len(tr.child) = Len(tr.ids)
      /\ \A a, b \in DOMAIN tr.ids : tr.ids[a] = tr.ids[b] => a = b
    BY <1>1 DEF TreeShape, IsInjective
<1>3. PICK j \in DOMAIN tr.ids : tr.ids[j] = t
    BY DEF ToSet
<1>4. remove(tr, t) = tr2
    BY <1>3 DEF remove, InTree
<1>5. /\ Len(tr.ids) \in Nat
      /\ DOMAIN tr.ids = 1..Len(tr.ids)
      /\ \A k \in 1..Len(tr.ids) : tr.ids[k] \in Tx /\ tr.child[k] \in Int
      /\ \A c \in Nat : Own(tr)[c] = IF c < Len(tr.ids) THEN Weight[tr.ids[c + 1]] ELSE 0
      /\ \A c \in Nat : Below(tr)[c] = IF c < Len(tr.ids)
                                       THEN Weight[tr.ids[c + 1]] + tr.child[c + 1] ELSE 0
    BY <1>1, TreeShapeFacts
<1>6. at \in DOMAIN tr.ids /\ tr.ids[at] = t
    BY <1>3
<1>7. n \in Nat /\ Len(tr.ids) = n + 1 /\ n + 1 \in 1..(n + 1)
    BY <1>3, <1>5
<1>8. tr2.ids = ids2 /\ tr2.child = c2
    OBVIOUS
<1> HIDE DEF at, n
<1>9. at \in 1..(n + 1) /\ DOMAIN tr.ids = 1..(n + 1) /\ at - 1 \in Nat /\ (at <= n \/ at = n + 1)
    BY <1>5, <1>6, <1>7
<1>10. last \in Tx /\ t \in Tx
    BY <1>5, <1>6, <1>7, <1>9
<1>11. wl \in Int /\ wt \in Int /\ -wl \in Int /\ wl - wt \in Int
    BY <1>10, WeightFacts
<1> HIDE DEF wl, wt
<1>12. /\ less \in Seq(Int)
       /\ Len(less) = n + 1
       /\ \A k \in 1..(n + 1) : less[k] = IF k - 1 \in Up[n] /\ k - 1 # n THEN tr.child[k] + (-wl) ELSE tr.child[k]
  <2>1. /\ less \in Seq(Int)
        /\ Len(less) = Len(tr.child)
        /\ \A k \in 1..Len(tr.child) :
              less[k] = IF k - 1 \in Up[n] /\ k - 1 # n THEN tr.child[k] + (-wl) ELSE tr.child[k]
    BY ONLY <1>2, <1>7, <1>11, BackPropagate
  <2>2. Len(tr.child) = n + 1
    BY <1>2, <1>7
  <2> HIDE DEF less
  <2> QED
    BY ONLY <2>1, <2>2
<1> HIDE DEF less
<1>13. /\ more \in Seq(Int)
       /\ Len(more) = n + 1
       /\ \A k \in 1..(n + 1) : more[k] = IF k - 1 \in Up[at - 1] /\ k - 1 # at - 1 THEN less[k] + (wl - wt) ELSE less[k]
  <2>1. /\ more \in Seq(Int)
        /\ Len(more) = Len(less)
        /\ \A k \in 1..Len(less) :
              more[k] = IF k - 1 \in Up[at - 1] /\ k - 1 # at - 1 THEN less[k] + (wl - wt) ELSE less[k]
    BY ONLY <1>12, <1>9, <1>11, BackPropagate
  <2> HIDE DEF more
  <2> QED
    BY ONLY <2>1, <1>12
<1> HIDE DEF more
<1>14. moved \in Seq(Int) /\ Len(moved) = n + 1
    BY <1>12, <1>13
<1>15. \A k \in 1..(n + 1) : ids1[k] = IF k = at THEN last ELSE tr.ids[k]
    BY <1>9
<1>16. \A k \in 1..(n + 1) : ids1[k] \in Tx /\ moved[k] \in Int
  <2> HIDE DEF ids1, moved, last
  <2> QED
    BY <1>5, <1>7, <1>10, <1>14, <1>15, ElementOfSeq
<1> HIDE DEF ids1, moved
<1>17. /\ ids2 \in Seq(Tx) /\ Len(ids2) = n
       /\ \A k \in 1..n : ids2[k] = IF k = at THEN last ELSE tr.ids[k]
  <2>1. \A k \in 1..n : ids1[k] \in Tx
    BY <1>7, <1>16
  <2>2. /\ ids2 \in Seq(Tx)
        /\ Len(ids2) = IF 1 <= n THEN n - 1 + 1 ELSE 0
        /\ \A k \in 1..(n - 1 + 1) : ids2[k] = ids1[1 + k - 1]
    BY <1>7, <2>1, SubSeqProperties
  <2> HIDE DEF ids2, last
  <2> QED
    BY <2>2, <1>7, <1>15
<1>18. /\ c2 \in Seq(Int) /\ Len(c2) = n
       /\ \A k \in 1..n : c2[k] = moved[k]
  <2>1. \A k \in 1..n : moved[k] \in Int
    BY <1>7, <1>16
  <2>2. /\ c2 \in Seq(Int)
        /\ Len(c2) = IF 1 <= n THEN n - 1 + 1 ELSE 0
        /\ \A k \in 1..(n - 1 + 1) : c2[k] = moved[1 + k - 1]
    BY <1>7, <2>1, SubSeqProperties
  <2> HIDE DEF c2
  <2> QED
    BY <2>2, <1>7
<1> HIDE DEF ids2, c2, tr2
<1>19. DOMAIN ids2 = 1..n
    BY <1>17, LenProperties
<1>20. IsInjective(ids2)
  <2> SUFFICES ASSUME NEW a \in 1..n, NEW b \in 1..n, ids2[a] = ids2[b]
               PROVE  a = b
    BY <1>19 DEF IsInjective
  <2>1. a \in 1..(n + 1) /\ b \in 1..(n + 1) /\ a # n + 1 /\ b # n + 1
    BY <1>7
  <2>2. /\ ids2[a] = IF a = at THEN tr.ids[n + 1] ELSE tr.ids[a]
        /\ ids2[b] = IF b = at THEN tr.ids[n + 1] ELSE tr.ids[b]
    BY <1>17
  <2> QED
    BY <2>1, <2>2, <1>2, <1>7, <1>9
<1>21. ToSet(ids2) = ToSet(tr.ids) \ {t}
  <2>1. ASSUME NEW k \in 1..n
        PROVE  ids2[k] \in ToSet(tr.ids) \ {t}
    <3>1. k \in 1..(n + 1) /\ k # n + 1
        BY <1>7
    <3>2. CASE k = at
      <4>1. ids2[k] = tr.ids[n + 1] /\ tr.ids[n + 1] # t
        BY <3>1, <3>2, <1>2, <1>6, <1>7, <1>9, <1>17
      <4> QED
        BY <4>1, <1>7, <1>9 DEF ToSet
    <3>3. CASE k # at
      <4>1. ids2[k] = tr.ids[k] /\ tr.ids[k] # t
        BY <3>1, <3>3, <1>2, <1>6, <1>9, <1>17
      <4> QED
        BY <4>1, <3>1, <1>9 DEF ToSet
    <3> QED
        BY <3>2, <3>3
  <2>2. ASSUME NEW k \in 1..(n + 1), tr.ids[k] # t
        PROVE  \E m \in 1..n : ids2[m] = tr.ids[k]
    <3>1. k # at
        BY <2>2, <1>6
    <3>2. CASE k = n + 1
      <4>1. at \in 1..n /\ ids2[at] = tr.ids[n + 1]
        BY <3>1, <3>2, <1>7, <1>9, <1>17
      <4> QED
        BY <4>1, <3>2
    <3>3. CASE k # n + 1
      <4>1. k \in 1..n /\ ids2[k] = tr.ids[k]
        BY <3>1, <3>3, <1>7, <1>17
      <4> QED
        BY <4>1
    <3> QED
        BY <3>2, <3>3
  <2>3. ToSet(ids2) = {ids2[k] : k \in 1..n}
    BY <1>19 DEF ToSet
  <2>4. ToSet(tr.ids) = {tr.ids[k] : k \in 1..(n + 1)}
    BY <1>9 DEF ToSet
  <2>5. \A x \in ToSet(ids2) : x \in ToSet(tr.ids) \ {t}
    BY ONLY <2>1, <2>3
  <2>6. \A x \in ToSet(tr.ids) \ {t} : x \in ToSet(ids2)
    BY ONLY <2>2, <2>3, <2>4
  <2> QED
    BY <2>5, <2>6
<1>22. TreeShape(tr2)
    BY <1>8, <1>17, <1>18, <1>20 DEF TreeShape
<1>23. /\ \A c \in Nat : Own(tr2)[c] = IF c < n THEN Weight[ids2[c + 1]] ELSE 0
       /\ \A c \in Nat : Below(tr2)[c] = IF c < n THEN Weight[ids2[c + 1]] + c2[c + 1] ELSE 0
       /\ Own(tr2) \in [Nat -> Int] /\ Below(tr2) \in [Nat -> Int]
  <2>1. /\ \A c \in Nat : Own(tr2)[c] = IF c < Len(tr2.ids) THEN Weight[tr2.ids[c + 1]] ELSE 0
        /\ \A c \in Nat : Below(tr2)[c] = IF c < Len(tr2.ids)
                                          THEN Weight[tr2.ids[c + 1]] + tr2.child[c + 1] ELSE 0
        /\ Own(tr2) \in [Nat -> Int] /\ Below(tr2) \in [Nat -> Int]
    BY <1>22, TreeShapeFacts
  <2> QED
    BY ONLY <2>1, <1>17, <1>8
<1> DEFINE w1 == Bump(n, -wl, Below(tr))
           o1 == BumpOwn(n, -wl, Own(tr))
<1>24. IsWeighing(o1, w1)
    BY <1>1, <1>7, <1>11, BumpWeighs
<1>25. n \in Up[n] /\ Up[n] \subseteq 0..n
    BY <1>7, UpFacts
<1>26. tr.child[n + 1] = 0
  <2>1. Below(tr)[n] = Own(tr)[n] + Below(tr)[2 * n + 1] + Below(tr)[2 * n + 2]
    BY <1>1, <1>7 DEF IsWeighing
  <2>2. Below(tr)[2 * n + 1] = 0 /\ Below(tr)[2 * n + 2] = 0
    BY <1>5, <1>7
  <2>3. Below(tr)[n] = Weight[tr.ids[n + 1]] + tr.child[n + 1] /\ Own(tr)[n] = Weight[tr.ids[n + 1]]
    BY <1>5, <1>7
  <2>4. Weight[tr.ids[n + 1]] \in Int /\ tr.child[n + 1] \in Int
    BY <1>5, <1>7, WeightFacts
  <2> QED
    BY <2>1, <2>2, <2>3, <2>4
\* What is left when the last place is given up.
<1>27. ASSUME NEW c \in Nat
       PROVE  /\ o1[c] = IF c < n THEN Weight[tr.ids[c + 1]] ELSE 0
              /\ w1[c] = IF c < n THEN Weight[tr.ids[c + 1]] + less[c + 1] ELSE 0
  <2>1. /\ o1[c] = IF c = n THEN Own(tr)[c] + (-wl) ELSE Own(tr)[c]
        /\ w1[c] = IF c \in Up[n] THEN Below(tr)[c] + (-wl) ELSE Below(tr)[c]
    BY DEF Bump, BumpOwn
  <2> HIDE DEF o1, w1
  <2>2. CASE c < n
    <3>1. c + 1 \in 1..(n + 1) /\ c + 1 - 1 = c /\ c # n /\ c < n + 1
        BY <2>2, <1>7
    <3>2. Own(tr)[c] = Weight[tr.ids[c + 1]] /\ Below(tr)[c] = Weight[tr.ids[c + 1]] + tr.child[c + 1]
        BY <3>1, <1>5, <1>7
    <3>3. less[c + 1] = IF c \in Up[n] THEN tr.child[c + 1] + (-wl) ELSE tr.child[c + 1]
      <4>1. less[c + 1] = IF c + 1 - 1 \in Up[n] /\ c + 1 - 1 # n THEN tr.child[c + 1] + (-wl) ELSE tr.child[c + 1]
        BY ONLY <3>1, <1>12
      <4> QED
        BY ONLY <4>1, <3>1
    <3>4. Weight[tr.ids[c + 1]] \in Int /\ tr.child[c + 1] \in Int
        BY <3>1, <1>5, <1>7, WeightFacts
    <3>5. w1[c] = Weight[tr.ids[c + 1]] + less[c + 1]
      <4>1. CASE c \in Up[n]
        BY ONLY <4>1, <3>2, <3>3, <3>4, <2>1, <1>11
      <4>2. CASE c \notin Up[n]
        BY ONLY <4>2, <3>2, <3>3, <3>4, <2>1, <1>11
      <4> QED
        BY <4>1, <4>2
    <3> QED
        BY <3>1, <3>2, <3>5, <2>1, <2>2
  <2>3. CASE c = n
    <3>1. Own(tr)[n] = wl /\ Below(tr)[n] = wl + tr.child[n + 1]
        BY <1>5, <1>7 DEF wl
    <3> QED
        BY <3>1, <2>1, <2>3, <1>7, <1>11, <1>25, <1>26
  <2>4. CASE c > n
    <3>1. c # n /\ c \notin Up[n] /\ ~ (c < n + 1) /\ ~ (c < n)
        BY <2>4, <1>7, <1>25
    <3>2. Own(tr)[c] = 0 /\ Below(tr)[c] = 0
        BY <3>1, <1>5, <1>7
    <3> QED
        BY ONLY <3>1, <3>2, <2>1
  <2> QED
    BY <2>2, <2>3, <2>4, <1>7
<1>28. o1 \in [Nat -> Int] /\ w1 \in [Nat -> Int]
    BY <1>24 DEF IsWeighing
<1>29. IsWeighing(Own(tr2), Below(tr2))
  <2>1. CASE at = n + 1
    <3>1. ASSUME NEW c \in Nat
          PROVE  Own(tr2)[c] = o1[c] /\ Below(tr2)[c] = w1[c]
      <4> HIDE DEF o1, w1
      <4>1. CASE c < n
        <5>1. c + 1 \in 1..n /\ c + 1 # at /\ ~ (at <= n)
            BY <4>1, <2>1, <1>7
        <5>2. ids2[c + 1] = tr.ids[c + 1] /\ c2[c + 1] = less[c + 1]
            BY <5>1, <1>17, <1>18 DEF moved
        <5> QED
            BY <5>2, <4>1, <1>23, <1>27
      <4>2. CASE ~ (c < n)
        BY <4>2, <1>23, <1>27
      <4> QED
        BY <4>1, <4>2
    <3>2. Own(tr2) = o1 /\ Below(tr2) = w1
      <4> HIDE DEF o1, w1
      <4> QED
        BY <3>1, <1>23, <1>28
    <3> QED
        BY <3>2, <1>24
  <2>2. CASE at <= n
    <3> DEFINE a == at - 1
               d == wl - wt
               w2 == Bump(a, d, w1)
               o2 == BumpOwn(a, d, o1)
    <3>1. a \in Nat /\ a < n /\ a + 1 = at /\ d \in Int /\ d + wt = wl
        BY <2>2, <1>7, <1>9, <1>11
    <3>2. IsWeighing(o2, w2)
      <4> HIDE DEF o1, w1, a, d
      <4> QED
        BY <3>1, <1>24, BumpWeighs
    <3>3. o2 \in [Nat -> Int] /\ w2 \in [Nat -> Int]
        BY <3>2 DEF IsWeighing
    <3>4. a \in Up[a] /\ Up[a] \subseteq 0..a
      <4> HIDE DEF a
      <4> QED
        BY <3>1, UpFacts
    <3>5. ASSUME NEW c \in Nat
          PROVE  Own(tr2)[c] = o2[c] /\ Below(tr2)[c] = w2[c]
      <4>1. /\ o2[c] = IF c = a THEN o1[c] + d ELSE o1[c]
            /\ w2[c] = IF c \in Up[a] THEN w1[c] + d ELSE w1[c]
        BY DEF Bump, BumpOwn
      <4> HIDE DEF o1, w1, o2, w2
      <4>2. CASE c < n
        <5>1. c + 1 \in 1..n /\ c + 1 \in 1..(n + 1) /\ c + 1 - 1 = c /\ (c + 1 = at <=> c = a)
            BY <4>2, <3>1, <1>7, <1>9
        <5>2. c2[c + 1] = IF c \in Up[a] /\ c # a THEN less[c + 1] + d ELSE less[c + 1]
          <6>1. c2[c + 1] = more[c + 1]
            BY <5>1, <2>2, <1>18 DEF moved
          <6>2. more[c + 1] = IF c + 1 - 1 \in Up[at - 1] /\ c + 1 - 1 # at - 1 THEN less[c + 1] + (wl - wt) ELSE less[c + 1]
            BY ONLY <5>1, <1>13
          <6> QED
            BY ONLY <6>1, <6>2, <5>1
        <5>3. ids2[c + 1] = IF c = a THEN last ELSE tr.ids[c + 1]
            BY <5>1, <1>17
        <5>4. o1[c] = Weight[tr.ids[c + 1]] /\ w1[c] = Weight[tr.ids[c + 1]] + less[c + 1]
            BY <4>2, <1>27
        <5>5. Own(tr2)[c] = Weight[ids2[c + 1]] /\ Below(tr2)[c] = Weight[ids2[c + 1]] + c2[c + 1]
            BY <4>2, <1>23
        <5>6. Weight[tr.ids[c + 1]] \in Int /\ less[c + 1] \in Int
            BY <5>1, <1>5, <1>7, <1>12, WeightFacts, ElementOfSeq
        <5>7. CASE c = a
          <6>1. Weight[ids2[c + 1]] = wl /\ Weight[tr.ids[c + 1]] = wt /\ c \in Up[a]
            BY <5>1, <5>3, <5>7, <3>4, <1>6 DEF wl, wt
          <6>2. c2[c + 1] = less[c + 1]
            BY <5>2, <5>7
          <6> QED
            BY ONLY <6>1, <6>2, <5>4, <5>5, <5>6, <5>7, <4>1, <1>11
        <5>8. CASE c # a /\ c \in Up[a]
          <6>1. c2[c + 1] = less[c + 1] + d /\ ids2[c + 1] = tr.ids[c + 1]
            BY <5>2, <5>3, <5>8
          <6>2. o2[c] = o1[c] /\ w2[c] = w1[c] + d /\ d \in Int
            BY <5>8, <4>1, <3>1
          <6> HIDE DEF d
          <6> QED
            BY ONLY <6>1, <6>2, <5>4, <5>5, <5>6
        <5>9. CASE c \notin Up[a]
          <6>1. c # a
            BY <5>9, <3>4
          <6>2. c2[c + 1] = less[c + 1] /\ ids2[c + 1] = tr.ids[c + 1]
            BY <6>1, <5>2, <5>3, <5>9
          <6>3. o2[c] = o1[c] /\ w2[c] = w1[c]
            BY <6>1, <5>9, <4>1
          <6> QED
            BY ONLY <6>2, <6>3, <5>4, <5>5
        <5> QED
            BY <5>7, <5>8, <5>9
      <4>3. CASE ~ (c < n)
        <5>1. c # a /\ c \notin Up[a]
            BY <4>3, <3>1, <3>4, <1>7
        <5>2. o1[c] = 0 /\ w1[c] = 0 /\ Own(tr2)[c] = 0 /\ Below(tr2)[c] = 0
            BY <4>3, <1>23, <1>27
        <5> QED
            BY ONLY <5>1, <5>2, <4>1
      <4> QED
        BY <4>2, <4>3
    <3>6. Own(tr2) = o2 /\ Below(tr2) = w2
      <4> HIDE DEF o2, w2
      <4> QED
        BY <3>3, <3>5, <1>23
    <3> QED
        BY <3>2, <3>6
  <2> QED
    BY <2>1, <2>2, <1>9
<1> QED
    BY <1>4, <1>8, <1>21, <1>22, <1>29 DEF TreeOK

-----------------------------------------------------------------------------
(* The draw *)

LEMMA Weighs ==
    ASSUME NEW tr, TreeOK(tr)
    PROVE  /\ Len(tr.ids) \in Nat
           /\ \A c \in Nat : /\ Own(tr)[c] \in Nat
                             /\ Below(tr)[c] \in Nat
                             /\ getWeightAt(tr, c) = Below(tr)[c]
                             /\ Below(tr)[c] = Own(tr)[c] + Below(tr)[2 * c + 1] + Below(tr)[2 * c + 2]
                             /\ c < Len(tr.ids) => Own(tr)[c] > 0 /\ Own(tr)[c] = Weight[tr.ids[c + 1]]
                             /\ c >= Len(tr.ids) => Below(tr)[c] = 0
<1> DEFINE n == Len(tr.ids)
           O == Own(tr)
           W == Below(tr)
<1>1. TreeShape(tr) /\ IsWeighing(O, W)
    BY DEF TreeOK
<1>2. n \in Nat /\ \A c \in Nat : O[c] \in Nat /\ W[c] \in Int
    BY <1>1, TreeShapeFacts
<1>3. \A c \in Nat : W[c] = O[c] + W[2 * c + 1] + W[2 * c + 2]
    BY <1>1 DEF IsWeighing
<1>4. \A c \in Nat : getWeightAt(tr, c) = W[c]
    BY DEF Below
<1>5. \A c \in Nat : c >= n => W[c] = 0
  <2>1. \A c \in Nat : W[c] = IF c < n THEN Weight[tr.ids[c + 1]] + tr.child[c + 1] ELSE 0
    BY <1>1, TreeShapeFacts
  <2> HIDE DEF n, W
  <2> QED
    BY <2>1, <1>2
<1>6. ASSUME NEW c \in Nat, c < n
      PROVE  O[c] > 0 /\ O[c] = Weight[tr.ids[c + 1]]
  <2>1. O[c] = Weight[tr.ids[c + 1]] /\ tr.ids[c + 1] \in Tx
    BY <1>1, <1>6, <1>2, TreeShapeFacts
  <2> QED
    BY <2>1, WeightFacts
<1> HIDE DEF n, O, W
<1> DEFINE T == {n - c : c \in {x \in 0..(n - 1) : W[x] < 0}}
<1>7. T = {}
  <2> SUFFICES ASSUME T # {}
               PROVE  FALSE
    OBVIOUS
  <2>1. T \in SUBSET Nat
    BY <1>2
  <2>2. PICK m \in T : \A k \in T : m <= k
    <3> HIDE DEF T
    <3> QED
        BY <2>1, LeastNat
  <2>3. PICK c \in 0..(n - 1) : W[c] < 0 /\ m = n - c
    BY <2>2
  <2>4. ASSUME NEW d \in Nat, d > c
        PROVE  W[d] \in Nat
    <3>1. CASE d >= n
        BY <3>1, <1>5
    <3>2. CASE d < n /\ W[d] < 0
      <4>1. n - d \in T
        BY <3>2, <1>2
      <4>2. m <= n - d
        BY <4>1, <2>2
      <4> HIDE DEF T
      <4> QED
        BY <4>2, <2>3, <2>4, <1>2
    <3> QED
        BY <3>1, <3>2, <1>2
  <2>5. W[2 * c + 1] \in Nat /\ W[2 * c + 2] \in Nat
    BY <2>4
  <2>6. W[c] = O[c] + W[2 * c + 1] + W[2 * c + 2] /\ O[c] \in Nat
    BY <1>2, <1>3
  <2> QED
    BY <2>3, <2>5, <2>6
<1>8. ASSUME NEW c \in Nat
      PROVE  W[c] \in Nat
  <2>1. CASE c >= n
    BY <2>1, <1>5
  <2>2. CASE c < n
    <3>1. c \in 0..(n - 1)
        BY <2>2, <1>2
    <3>2. W[c] >= 0
        BY <3>1, <1>2, <1>7
    <3> QED
        BY <3>2, <1>2
  <2> QED
    BY <2>1, <2>2, <1>2
<1> QED
    BY <1>2, <1>3, <1>4, <1>5, <1>6, <1>8 DEF n, O, W

\* What is left to find at i, or -1 off the walk, when the search for what
\* starts at the root.  O and W are the weights of and below the nodes.
IsWalk(n, O, W, what, r) ==
    /\ r \in [0..(n - 1) -> Int]
    /\ r[0] = what
    /\ \A u \in 0..(n - 1) :
          /\ 2 * u + 1 < n =>
                r[2 * u + 1] = IF 0 <= r[u] /\ r[u] < W[2 * u + 1] THEN r[u] ELSE -1
          /\ 2 * u + 2 < n =>
                r[2 * u + 2] = IF r[u] >= O[u] + W[2 * u + 1] THEN r[u] - (O[u] + W[2 * u + 1]) ELSE -1

FoundAt(O, W, r, i) == W[2 * i + 1] <= r[i] /\ r[i] < O[i] + W[2 * i + 1]

\* findByEvictionWeight follows such a walk.
LEMMA FindWalks ==
    ASSUME NEW tr, TreeOK(tr), tr.ids # <<>>, NEW what \in Int
    PROVE  \E r : /\ IsWalk(Len(tr.ids), Own(tr), Below(tr), what, r)
                  /\ findByEvictionWeight(tr, what) =
                        tr.ids[1 + CHOOSE i \in 0..(Len(tr.ids) - 1) :
                                       FoundAt(Own(tr), Below(tr), r, i)]
<1> DEFINE size == Len(tr.ids)
           O == Own(tr)
           W == Below(tr)
           left(i) == getWeightAt(tr, 2 * i + 1)
           right(i) == getWeightAt(tr, i) - getWeightAt(tr, 2 * i + 2)
           step(i, x) == CASE i = 2 * ((i - 1) \div 2) + 1 /\ x \in 0..(left((i - 1) \div 2) - 1) -> x
                           [] i = 2 * ((i - 1) \div 2) + 2 /\ x >= right((i - 1) \div 2) -> x - right((i - 1) \div 2)
                           [] OTHER -> -1
           Eq(f) == f = [i \in 0..(size - 1) |-> IF i = 0 THEN what ELSE step(i, f[(i - 1) \div 2])]
           rest == CHOOSE f : Eq(f)
           Found(i) == rest[i] >= left(i) /\ rest[i] >= 0 /\ rest[i] < right(i)
<1>1. size \in Nat \ {0}
    BY EmptySeq DEF TreeOK, TreeShape
<1>2. findByEvictionWeight(tr, what) = tr.ids[1 + CHOOSE i \in 0..(size - 1) : Found(i)]
    BY DEF findByEvictionWeight
<1>3. \A c \in Nat : /\ O[c] \in Nat
                     /\ W[c] \in Nat
                     /\ getWeightAt(tr, c) = W[c]
                     /\ W[c] = O[c] + W[2 * c + 1] + W[2 * c + 2]
    BY Weighs
<1>4. \A u \in Nat : /\ left(u) = W[2 * u + 1]
                     /\ right(u) = O[u] + W[2 * u + 1]
                     /\ left(u) \in Nat /\ right(u) \in Nat
  <2> SUFFICES ASSUME NEW u \in Nat
               PROVE  /\ left(u) = W[2 * u + 1]
                      /\ right(u) = O[u] + W[2 * u + 1]
                      /\ left(u) \in Nat /\ right(u) \in Nat
    OBVIOUS
  <2>1. 2 * u + 1 \in Nat /\ 2 * u + 2 \in Nat
    OBVIOUS
  <2>2. /\ getWeightAt(tr, u) = W[u]
        /\ getWeightAt(tr, 2 * u + 1) = W[2 * u + 1]
        /\ getWeightAt(tr, 2 * u + 2) = W[2 * u + 2]
    BY <2>1, <1>3
  <2>3. /\ O[u] \in Nat /\ W[u] \in Nat /\ W[2 * u + 1] \in Nat /\ W[2 * u + 2] \in Nat
        /\ W[u] = O[u] + W[2 * u + 1] + W[2 * u + 2]
    BY <2>1, <1>3
  <2> HIDE DEF O, W
  <2> QED
    BY <2>2, <2>3
<1> HIDE DEF left, right, O, W, size
<1>5. ASSUME NEW i \in Nat \ {0}, NEW x \in Int
      PROVE  step(i, x) \in Int
  <2>1. (i - 1) \div 2 \in Nat
    BY HeapParentFacts
  <2> QED
    BY <2>1, <1>4
<1> HIDE DEF step
<1> DEFINE B == 0..(size - 1)
           P == [i \in B \ {0} |-> HeapParent[i]]
           F == [i \in B \ {0} |-> [x \in Int |-> step(i, x)]]
<1>6. \A i \in B \ {0} : P[i] = (i - 1) \div 2 /\ P[i] \in B
  <2> SUFFICES ASSUME NEW i \in B \ {0}
               PROVE  P[i] = (i - 1) \div 2 /\ P[i] \in B
    OBVIOUS
  <2>1. i \in Nat \ {0} /\ P[i] = HeapParent[i]
    OBVIOUS
  <2>2. P[i] \in Nat /\ P[i] = (i - 1) \div 2 /\ P[i] < i
    BY <2>1, HeapParentFacts
  <2> QED
    BY <2>2, <1>1
<1>7. IsTree(B, 0, P)
  <2>1. size - 1 \in Nat
    BY <1>1
  <2> QED
    BY <2>1, HeapPartIsTree
<1>8. \E f : Eq(f)
  <2>1. F \in [B \ {0} -> [Int -> Int]]
    <3> SUFFICES ASSUME NEW i \in B \ {0}
                 PROVE  [x \in Int |-> step(i, x)] \in [Int -> Int]
        OBVIOUS
    <3>1. i \in Nat \ {0}
        BY <1>1
    <3> QED
        BY <3>1, <1>5
  <2>2. PICK f : IsTreeFold(B, 0, P, Int, what, F, f)
    <3> HIDE DEF B, P, F
    <3> QED
        BY <2>1, <1>7, TreeFoldExists
  <2>3. /\ f \in [B -> Int]
        /\ f[0] = what
        /\ \A i \in B \ {0} : f[i] = F[i][f[P[i]]]
    BY <2>2 DEF IsTreeFold
  <2>4. ASSUME NEW i \in B \ {0}
        PROVE  f[i] = step(i, f[(i - 1) \div 2])
    <3>1. f[P[i]] \in Int /\ P[i] = (i - 1) \div 2
        BY <1>6, <2>3
    <3>2. F[i][f[P[i]]] = step(i, f[P[i]])
        BY <3>1
    <3> QED
        BY <3>1, <3>2, <2>3
  <2>5. Eq(f)
    BY <2>3, <2>4
  <2> HIDE DEF Eq
  <2> QED
    BY <2>5
<1>9. Eq(rest)
  <2> HIDE DEF Eq
  <2> QED
    BY <1>8
<1> HIDE DEF rest
<1>10. /\ DOMAIN rest = B
       /\ rest[0] = what
       /\ \A i \in B \ {0} : rest[i] = step(i, rest[P[i]])
  <2> DEFINE v(i) == IF i = 0 THEN what ELSE step(i, rest[(i - 1) \div 2])
  <2>1. rest = [i \in B |-> v(i)]
    BY <1>9
  <2>2. v(0) = what /\ 0 \in B
    BY <1>1
  <2>3. ASSUME NEW i \in B \ {0}
        PROVE  v(i) = step(i, rest[P[i]])
    <3>1. v(i) = step(i, rest[(i - 1) \div 2])
        OBVIOUS
    <3> HIDE DEF P, v
    <3> QED
        BY <3>1, <1>6
  <2> HIDE DEF v, P, B
  <2> QED
    BY <2>1, <2>2, <2>3
<1> DEFINE S == {i \in B : rest[i] \in Int}
<1>11. S = B
  <2>1. S \in SUBSET B /\ 0 \in S
    BY <1>1, <1>10
  <2>2. ASSUME NEW i \in B \ {0}, P[i] \in S
        PROVE  i \in S
    <3>1. rest[P[i]] \in Int /\ rest[i] = step(i, rest[P[i]]) /\ i \in Nat \ {0}
        BY <2>2, <1>10
    <3>2. rest[i] \in Int
        BY <3>1, <1>5
    <3> QED
        BY <3>2
  <2> HIDE DEF S, B, P
  <2> QED
    BY <2>1, <2>2, <1>7, TreeInduction
<1>12. rest \in [B -> Int]
  <2>1. \A i \in B : rest[i] \in Int
    BY <1>11
  <2>2. rest = [i \in B |-> rest[i]]
    BY <1>9
  <2> QED
    BY <2>1, <2>2
<1>13. ASSUME NEW u \in B, 2 * u + 1 < size
       PROVE  rest[2 * u + 1] = IF 0 <= rest[u] /\ rest[u] < W[2 * u + 1] THEN rest[u] ELSE -1
  <2> DEFINE i == 2 * u + 1
             x == rest[u]
  <2>1. i \in B \ {0} /\ (i - 1) \div 2 = u /\ i = 2 * u + 1 /\ i # 2 * u + 2 /\ u \in Nat
    BY <1>1, <1>13
  <2>2. rest[i] = step(i, x)
    BY <2>1, <1>6, <1>10
  <2>3. x \in Int /\ left(u) = W[2 * u + 1] /\ left(u) \in Nat
    BY <2>1, <1>4, <1>12
  <2> HIDE DEF i, x
  <2>4. step(i, x) = IF x \in 0..(left(u) - 1) THEN x ELSE -1
    BY <2>1 DEF step
  <2>5. x \in 0..(left(u) - 1) <=> 0 <= x /\ x < W[2 * u + 1]
    BY <2>3
  <2> QED
    BY <2>2, <2>4, <2>5 DEF i, x
<1>14. ASSUME NEW u \in B, 2 * u + 2 < size
       PROVE  rest[2 * u + 2] = IF rest[u] >= O[u] + W[2 * u + 1] THEN rest[u] - (O[u] + W[2 * u + 1]) ELSE -1
  <2> DEFINE i == 2 * u + 2
             x == rest[u]
  <2>1. i \in B \ {0} /\ (i - 1) \div 2 = u /\ i # 2 * u + 1 /\ i = 2 * u + 2 /\ u \in Nat
    BY <1>1, <1>14
  <2>2. rest[i] = step(i, x)
    BY <2>1, <1>6, <1>10
  <2>3. x \in Int /\ right(u) = O[u] + W[2 * u + 1] /\ right(u) \in Nat
    BY <2>1, <1>4, <1>12
  <2> HIDE DEF i, x
  <2>4. step(i, x) = IF x >= right(u) THEN x - right(u) ELSE -1
    BY <2>1 DEF step
  <2> QED
    BY <2>2, <2>3, <2>4 DEF i, x
<1>15. IsWalk(size, O, W, what, rest)
    BY <1>10, <1>12, <1>13, <1>14 DEF IsWalk
<1>16. \A i \in B : Found(i) <=> FoundAt(O, W, rest, i)
  <2> SUFFICES ASSUME NEW i \in B
               PROVE  Found(i) <=> FoundAt(O, W, rest, i)
    OBVIOUS
  <2>1. /\ i \in Nat /\ rest[i] \in Int
        /\ left(i) = W[2 * i + 1] /\ left(i) \in Nat
        /\ right(i) = O[i] + W[2 * i + 1]
    <3>1. i \in Nat
        BY <1>1
    <3>2. rest[i] \in Int
        BY <1>12
    <3> QED
        BY <3>1, <3>2, <1>4
  <2> QED
    BY <2>1 DEF FoundAt
<1>17. (CHOOSE i \in B : Found(i)) = CHOOSE i \in B : FoundAt(O, W, rest, i)
  <2> HIDE DEF Found
  <2> QED
    BY <1>16
<1> HIDE DEF Found
<1> QED
    BY <1>2, <1>15, <1>17 DEF O, W, size

\* The weights of n nodes, positive, and of what is below them.
HeapWeights(n, O, W) ==
    /\ n \in Nat \ {0}
    /\ \A c \in Nat : /\ O[c] \in Nat
                      /\ W[c] \in Nat
                      /\ W[c] = O[c] + W[2 * c + 1] + W[2 * c + 2]
                      /\ c < n => O[c] > 0
                      /\ c >= n => W[c] = 0

\* off[i] is what the nodes to the left of those below i weigh.
IsOffset(O, W, off) ==
    /\ off \in [Nat -> Nat]
    /\ off[0] = 0
    /\ \A u \in Nat : off[2 * u + 1] = off[u] /\ off[2 * u + 2] = off[u] + O[u] + W[2 * u + 1]

LEMMA OffsetExists ==
    ASSUME NEW n, NEW O, NEW W, HeapWeights(n, O, W)
    PROVE  \E off : IsOffset(O, W, off)
<1> DEFINE add1(i) == IF i = 2 * HeapParent[i] + 1 THEN 0
                      ELSE O[HeapParent[i]] + W[2 * HeapParent[i] + 1]
           F == [i \in Nat \ {0} |-> [x \in Nat |-> x + add1(i)]]
<1>1. \A c \in Nat : O[c] \in Nat /\ W[c] \in Nat
    BY DEF HeapWeights
<1>2. ASSUME NEW i \in Nat \ {0}
      PROVE  add1(i) \in Nat
  <2>1. HeapParent[i] \in Nat /\ 2 * HeapParent[i] + 1 \in Nat
    BY HeapParentFacts
  <2>2. O[HeapParent[i]] \in Nat /\ W[2 * HeapParent[i] + 1] \in Nat
    BY <2>1, <1>1
  <2> QED
    BY <2>2
<1>3. ASSUME NEW u \in Nat
      PROVE  add1(2 * u + 1) = 0 /\ add1(2 * u + 2) = O[u] + W[2 * u + 1]
  <2>1. HeapParent[2 * u + 1] = u /\ HeapParent[2 * u + 2] = u /\ 2 * u + 2 # 2 * u + 1
    BY HeapParentFacts
  <2> QED
    BY <2>1
<1> HIDE DEF add1
<1>4. F \in [Nat \ {0} -> [Nat -> Nat]]
    BY <1>2
<1>5. PICK off : IsTreeFold(Nat, 0, HeapParent, Nat, 0, F, off)
  <2> HIDE DEF F
  <2> QED
    BY <1>4, HeapIsTree, TreeFoldExists
<1>6. /\ off \in [Nat -> Nat]
      /\ off[0] = 0
      /\ \A i \in Nat \ {0} : off[i] = F[i][off[HeapParent[i]]]
    BY <1>5 DEF IsTreeFold
<1>7. \A i \in Nat \ {0} : off[i] = off[HeapParent[i]] + add1(i)
  <2> SUFFICES ASSUME NEW i \in Nat \ {0}
               PROVE  off[i] = off[HeapParent[i]] + add1(i)
    OBVIOUS
  <2>1. off[HeapParent[i]] \in Nat
    BY <1>6, HeapParentFacts
  <2> QED
    BY <2>1, <1>6
<1>8. ASSUME NEW u \in Nat
      PROVE  off[2 * u + 1] = off[u] /\ off[2 * u + 2] = off[u] + O[u] + W[2 * u + 1]
  <2>1. /\ 2 * u + 1 \in Nat \ {0} /\ 2 * u + 2 \in Nat \ {0} /\ 2 * u + 1 \in Nat
        /\ HeapParent[2 * u + 1] = u /\ HeapParent[2 * u + 2] = u
    BY HeapParentFacts
  <2>2. off[2 * u + 1] = off[u] + add1(2 * u + 1) /\ off[2 * u + 2] = off[u] + add1(2 * u + 2)
    BY <2>1, <1>7
  <2>3. off[u] \in Nat /\ O[u] \in Nat /\ W[2 * u + 1] \in Nat
    BY <2>1, <1>1, <1>6
  <2> QED
    BY <2>2, <2>3, <1>3
<1> QED
    BY <1>6, <1>8 DEF IsOffset

\* The values of w whose walk comes to i are W[i] in a row.
LEMMA WalkRange ==
    ASSUME NEW n, NEW O, NEW W, HeapWeights(n, O, W), NEW off, IsOffset(O, W, off)
    PROVE  \A i \in 0..(n - 1) :
              /\ off[i] + W[i] <= W[0]
              /\ \A what \in 0..(W[0] - 1) : \A r : IsWalk(n, O, W, what, r) =>
                    /\ r[i] >= 0 <=> off[i] <= what /\ what < off[i] + W[i]
                    /\ r[i] >= 0 => r[i] = what - off[i]
<1> DEFINE Reaches(i, what, r) == /\ r[i] >= 0 <=> off[i] <= what /\ what < off[i] + W[i]
                                  /\ r[i] >= 0 => r[i] = what - off[i]
           Ok(i) == /\ off[i] + W[i] <= W[0]
                    /\ \A what \in 0..(W[0] - 1) : \A r : IsWalk(n, O, W, what, r) => Reaches(i, what, r)
           S == {i \in Nat : i < n => Ok(i)}
<1>1. /\ n \in Nat \ {0}
      /\ \A c \in Nat : /\ O[c] \in Nat
                        /\ W[c] \in Nat
                        /\ W[c] = O[c] + W[2 * c + 1] + W[2 * c + 2]
    BY DEF HeapWeights
<1>2. /\ \A c \in Nat : off[c] \in Nat
      /\ off[0] = 0
      /\ \A u \in Nat : off[2 * u + 1] = off[u] /\ off[2 * u + 2] = off[u] + O[u] + W[2 * u + 1]
    BY DEF IsOffset
<1>3. 0 \in S
  <2>1. off[0] + W[0] <= W[0]
    BY <1>1, <1>2
  <2>2. ASSUME NEW what \in 0..(W[0] - 1), NEW r, IsWalk(n, O, W, what, r)
        PROVE  Reaches(0, what, r)
    <3>1. r[0] = what /\ W[0] \in Nat
        BY <2>2, <1>1 DEF IsWalk
    <3> QED
        BY <3>1, <1>2
  <2> HIDE DEF Reaches
  <2> QED
    BY <2>1, <2>2
<1>4. ASSUME NEW i \in Nat \ {0}, HeapParent[i] \in S
      PROVE  i \in S
  <2> SUFFICES ASSUME i < n
               PROVE  Ok(i)
    OBVIOUS
  <2> DEFINE u == HeapParent[i]
             l == 2 * u + 1
             q == 2 * u + 2
  <2>1. u \in Nat /\ u < i /\ (i = l \/ i = q)
    BY HeapParentFacts
  <2>2. Ok(u) /\ u \in 0..(n - 1)
    <3>1. u < n /\ u \in 0..(n - 1)
        BY <2>1, <1>1
    <3> HIDE DEF Ok
    <3> QED
        BY <3>1, <1>4
  <2>3. /\ O[u] \in Nat /\ W[u] \in Nat /\ W[l] \in Nat /\ W[q] \in Nat /\ W[0] \in Nat
        /\ W[u] = O[u] + W[l] + W[q]
        /\ off[u] \in Nat
        /\ off[l] = off[u] /\ off[q] = off[u] + O[u] + W[l]
    <3>1. l \in Nat /\ q \in Nat
        BY <2>1
    <3> QED
        BY <3>1, <2>1, <1>1, <1>2
  <2>4. off[i] + W[i] <= W[0]
    BY <2>1, <2>2, <2>3
  <2>5. ASSUME NEW what \in 0..(W[0] - 1), NEW r, IsWalk(n, O, W, what, r)
        PROVE  Reaches(i, what, r)
    <3>1. Reaches(u, what, r)
        BY <2>2, <2>5
    <3>2. /\ r[u] \in Int
          /\ l < n => r[l] = IF 0 <= r[u] /\ r[u] < W[l] THEN r[u] ELSE -1
          /\ q < n => r[q] = IF r[u] >= O[u] + W[l] THEN r[u] - (O[u] + W[l]) ELSE -1
        BY <2>2, <2>5 DEF IsWalk
    <3>3. what \in Int
        OBVIOUS
    <3> HIDE DEF u, l, q
    <3>4. CASE i = l
        BY ONLY <3>4, <3>1, <3>2, <3>3, <2>3, i < n DEF Reaches
    <3>5. CASE i = q
        BY ONLY <3>5, <3>1, <3>2, <3>3, <2>3, i < n DEF Reaches
    <3> QED
        BY <3>4, <3>5, <2>1
  <2> HIDE DEF Reaches
  <2> QED
    BY <2>4, <2>5
<1>5. S = Nat
  <2>1. S \in SUBSET Nat
    OBVIOUS
  <2> HIDE DEF S
  <2> QED
    BY <2>1, <1>3, <1>4, HeapInduction
<1>6. \A i \in 0..(n - 1) : Ok(i)
  <2> SUFFICES ASSUME NEW i \in 0..(n - 1)
               PROVE  Ok(i)
    OBVIOUS
  <2>1. i \in Nat /\ i < n
    BY <1>1
  <2> HIDE DEF Ok
  <2> QED
    BY <2>1, <1>5
<1> QED
    BY <1>6

\* The walk ends at one node.
LEMMA WalkFinds ==
    ASSUME NEW n, NEW O, NEW W, HeapWeights(n, O, W),
           NEW what \in 0..(W[0] - 1), NEW r, IsWalk(n, O, W, what, r)
    PROVE  \E i \in 0..(n - 1) : /\ FoundAt(O, W, r, i)
                                 /\ \A j \in 0..(n - 1) : FoundAt(O, W, r, j) => j = i
<1> DEFINE On(i) == i < n /\ r[i] >= 0
<1>1. /\ n \in Nat \ {0}
      /\ \A c \in Nat : /\ O[c] \in Nat
                        /\ W[c] \in Nat
                        /\ W[c] = O[c] + W[2 * c + 1] + W[2 * c + 2]
                        /\ c >= n => W[c] = 0
    BY DEF HeapWeights
<1>2. /\ \A i \in Nat : i < n => r[i] \in Int
      /\ r[0] = what
    BY <1>1 DEF IsWalk
<1>3. ASSUME NEW u \in Nat, u < n
      PROVE  /\ 2 * u + 1 \in Nat /\ 2 * u + 2 \in Nat
             /\ 2 * u + 1 < n => r[2 * u + 1] = IF 0 <= r[u] /\ r[u] < W[2 * u + 1] THEN r[u] ELSE -1
             /\ 2 * u + 2 < n => r[2 * u + 2] = IF r[u] >= O[u] + W[2 * u + 1]
                                                THEN r[u] - (O[u] + W[2 * u + 1]) ELSE -1
             /\ O[u] \in Nat /\ W[u] \in Nat /\ W[2 * u + 1] \in Nat /\ W[2 * u + 2] \in Nat
             /\ W[u] = O[u] + W[2 * u + 1] + W[2 * u + 2]
             /\ r[u] \in Int
  <2>1. u \in 0..(n - 1) /\ 2 * u + 1 \in Nat /\ 2 * u + 2 \in Nat
    BY <1>3, <1>1
  <2> QED
    BY <2>1, <1>1, <1>2, <1>3 DEF IsWalk
<1>4. ASSUME NEW i \in Nat, On(i)
      PROVE  r[i] < W[i]
  <2>1. PICK off : IsOffset(O, W, off)
    BY OffsetExists
  <2>2. i \in 0..(n - 1)
    BY <1>4, <1>1
  <2>3. what < off[i] + W[i] /\ r[i] = what - off[i]
    BY <2>1, <2>2, <1>4, WalkRange
  <2>4. off[i] \in Nat /\ W[i] \in Nat
    BY <2>1, <1>1 DEF IsOffset
  <2> QED
    BY <2>3, <2>4
<1>5. ASSUME NEW i \in Nat \ {0}, On(i)
      PROVE  On(HeapParent[i])
  <2> DEFINE u == HeapParent[i]
  <2>1. u \in Nat /\ u < n /\ (i = 2 * u + 1 \/ i = 2 * u + 2)
    BY <1>5, <1>1, HeapParentFacts
  <2> HIDE DEF u
  <2>2. r[u] >= 0
    BY <2>1, <1>3, <1>5
  <2> QED
    BY <2>1, <2>2 DEF u
<1> DEFINE S == {i \in Nat : On(i) => \A c \in Up[i] : On(c)}
<1>6. S = Nat
  <2>1. S \in SUBSET Nat /\ 0 \in S
    BY UpFacts
  <2>2. ASSUME NEW i \in Nat \ {0}, HeapParent[i] \in S
        PROVE  i \in S
    <3>1. Up[i] = {i} \cup Up[HeapParent[i]]
        BY UpFacts
    <3> HIDE DEF On
    <3> QED
        BY <3>1, <2>2, <1>5
  <2> HIDE DEF S
  <2> QED
    BY <2>1, <2>2, HeapInduction
<1>7. ASSUME NEW u \in Nat, On(u), On(2 * u + 1), On(2 * u + 2)
      PROVE  FALSE
    BY <1>3, <1>7
\* Of two nodes on the walk one is above the other.
<1> DEFINE Chain(i, j) == On(i) /\ On(j) => i \in Up[j] \/ j \in Up[i]
           T == {m \in Nat : \A i, j \in 0..m : Chain(i, j)}
<1>8. ASSUME NEW m \in Nat, m \in T
      PROVE  m + 1 \in T
  <2>1. ASSUME NEW i \in 0..m, On(i), On(m + 1)
        PROVE  i \in Up[m + 1] \/ m + 1 \in Up[i]
    <3> DEFINE j == m + 1
               u == HeapParent[j]
    <3>1. /\ j \in Nat \ {0} /\ u \in Nat /\ u \in 0..m /\ (j = 2 * u + 1 \/ j = 2 * u + 2)
          /\ Up[j] = {j} \cup Up[u]
          /\ 2 * u + 1 \in Nat /\ 2 * u + 2 \in Nat
      <4>1. j \in Nat \ {0}
        OBVIOUS
      <4>2. u \in Nat /\ u < j /\ (j = 2 * u + 1 \/ j = 2 * u + 2)
        BY <4>1, HeapParentFacts
      <4>3. Up[j] = {j} \cup Up[u]
        BY <4>1, UpFacts
      <4> QED
        BY <4>1, <4>2, <4>3
    <3>2. On(u)
        BY <3>1, <2>1, <1>5
    <3>3. i \in Up[u] \/ u \in Up[i]
      <4> HIDE DEF On, u
      <4> QED
        BY <3>1, <3>2, <2>1, <1>8
    <3>4. CASE i \in Up[u]
        BY <3>1, <3>4
    <3>5. CASE u \in Up[i] /\ u # i
      <4>1. 2 * u + 1 \in Up[i] \/ 2 * u + 2 \in Up[i]
        <5> HIDE DEF u
        <5> QED
            BY <3>1, <3>5, UpChild
      <4>2. \A c \in Up[i] : On(c)
        <5>1. i \in S
            BY <1>6
        <5> QED
            BY <5>1, <2>1
      <4>3. On(j)
        BY <2>1
      <4> HIDE DEF On, u, j
      <4>4. j \in Up[i]
        <5>1. CASE 2 * u + 1 \in Up[i]
          <6>1. On(2 * u + 1)
            BY <5>1, <4>2
          <6>2. j # 2 * u + 2
            BY <6>1, <4>3, <3>1, <3>2, <1>7
          <6> QED
            BY <6>2, <5>1, <3>1
        <5>2. CASE 2 * u + 2 \in Up[i]
          <6>1. On(2 * u + 2)
            BY <5>2, <4>2
          <6>2. j # 2 * u + 1
            BY <6>1, <4>3, <3>1, <3>2, <1>7
          <6> QED
            BY <6>2, <5>2, <3>1
        <5> QED
            BY <5>1, <5>2, <4>1
      <4> QED
        BY <4>4 DEF j
    <3>6. CASE u = i
      <4>1. u \in Up[u]
        BY <3>1, UpFacts
      <4> QED
        BY <4>1, <3>1, <3>6
    <3> QED
        BY <3>3, <3>4, <3>5, <3>6
  <2>2. m + 1 \in Up[m + 1]
    BY UpFacts
  <2> SUFFICES ASSUME NEW i \in 0..(m + 1), NEW j \in 0..(m + 1)
               PROVE  Chain(i, j)
    OBVIOUS
  <2>3. (i \in 0..m \/ i = m + 1) /\ (j \in 0..m \/ j = m + 1)
    OBVIOUS
  <2> HIDE DEF On
  <2> QED
    BY <2>1, <2>2, <2>3, <1>8
<1>9. Nat \subseteq T
  <2>1. 0 \in T
    BY UpFacts
  <2> HIDE DEF T
  <2> QED
    BY <2>1, <1>8, NatSetInduction
<1>10. ASSUME NEW i \in Nat, NEW j \in Nat, On(i), On(j)
       PROVE  i \in Up[j] \/ j \in Up[i]
  <2> HIDE DEF On
  <2>1. i \in 0..(i + j) /\ j \in 0..(i + j) /\ i + j \in Nat
    OBVIOUS
  <2>2. i + j \in T
    BY <2>1, <1>9
  <2> QED
    BY <2>1, <2>2, <1>10
\* Below the node that is found the walk does not go on.
<1>11. ASSUME NEW i \in Nat, i < n, FoundAt(O, W, r, i)
       PROVE  On(i) /\ ~ On(2 * i + 1) /\ ~ On(2 * i + 2)
    BY <1>3, <1>11 DEF FoundAt
<1>12. ASSUME NEW i \in Nat, NEW j \in Nat, i < n, j < n, FoundAt(O, W, r, i), FoundAt(O, W, r, j),
              i \in Up[j]
       PROVE  i = j
  <2> SUFFICES ASSUME i # j
               PROVE  FALSE
    OBVIOUS
  <2>1. 2 * i + 1 \in Up[j] \/ 2 * i + 2 \in Up[j]
    BY <1>12, UpChild
  <2>2. On(j) /\ j \in S
    BY <1>6, <1>11, <1>12
  <2>3. \A c \in Up[j] : On(c)
    BY <2>2
  <2>4. ~ On(2 * i + 1) /\ ~ On(2 * i + 2)
    BY <1>11, <1>12
  <2> HIDE DEF On
  <2> QED
    BY <2>1, <2>3, <2>4
\* The last node on the walk is the one that is found.
<1> DEFINE V == {n - i : i \in {x \in 0..(n - 1) : On(x)}}
<1>13. V \in SUBSET Nat /\ V # {}
  <2>1. n - 0 \in V
    <3>1. 0 \in 0..(n - 1) /\ On(0)
        BY <1>1, <1>2
    <3> HIDE DEF On
    <3> QED
        BY <3>1
  <2> QED
    BY <2>1, <1>1
<1>14. PICK v \in V : \A x \in V : v <= x
  <2> HIDE DEF V
  <2> QED
    BY <1>13, LeastNat
<1>15. PICK i \in 0..(n - 1) : On(i) /\ v = n - i
    BY <1>14
<1>16. ASSUME NEW c \in Nat, On(c)
       PROVE  c <= i
  <2>1. n - c \in V
    BY <1>16, <1>1
  <2>2. v <= n - c
    BY <2>1, <1>14
  <2> QED
    BY <2>2, <1>15, <1>1
<1>17. FoundAt(O, W, r, i)
  <2>1. i \in Nat /\ i < n
    BY <1>1, <1>15
  <2>2. r[i] < W[i] /\ r[i] >= 0
    BY <2>1, <1>4, <1>15
  <2> DEFINE l == 2 * i + 1
             q == 2 * i + 2
  <2>3. l \in Nat /\ q \in Nat /\ l > i /\ q > i
    BY <2>1
  <2>4. ~ On(l) /\ ~ On(q)
    BY <2>1, <2>3, <1>16
  <2>5. /\ l < n => r[l] = IF 0 <= r[i] /\ r[i] < W[l] THEN r[i] ELSE -1
        /\ q < n => r[q] = IF r[i] >= O[i] + W[l] THEN r[i] - (O[i] + W[l]) ELSE -1
        /\ O[i] \in Nat /\ W[i] \in Nat /\ W[l] \in Nat /\ W[q] \in Nat
        /\ W[i] = O[i] + W[l] + W[q]
        /\ r[i] \in Int
    BY <2>1, <1>3
  <2>6. l >= n => W[l] = 0
    BY <2>3, <1>1
  <2>7. q >= n => W[q] = 0
    BY <2>3, <1>1
  <2> HIDE DEF l, q
  <2>8. W[l] <= r[i]
    BY <2>2, <2>3, <2>4, <2>5, <2>6, <1>1
  <2>9. r[i] < O[i] + W[l]
    <3> SUFFICES ASSUME r[i] >= O[i] + W[l]
                 PROVE  FALSE
        BY <2>5
    <3>1. W[q] # 0
        BY <2>2, <2>5
    <3>2. q < n
        BY <3>1, <2>3, <2>7, <1>1
    <3>3. r[q] >= 0
        BY <3>2, <2>5
    <3> QED
        BY <3>2, <3>3, <2>4
  <2> QED
    BY <2>8, <2>9 DEF FoundAt, l
<1>18. ASSUME NEW j \in 0..(n - 1), FoundAt(O, W, r, j)
       PROVE  j = i
  <2>1. i \in Nat /\ i < n /\ j \in Nat /\ j < n
    BY <1>1
  <2>2. On(i) /\ On(j)
    BY <2>1, <1>11, <1>17, <1>18
  <2>3. i \in Up[j] \/ j \in Up[i]
    BY <2>1, <2>2, <1>10
  <2> QED
    BY <2>1, <2>3, <1>12, <1>17, <1>18
<1> QED
    BY <1>17, <1>18

LEMMA TreeWeights ==
    ASSUME NEW tr, TreeOK(tr), tr.ids # <<>>
    PROVE  /\ HeapWeights(Len(tr.ids), Own(tr), Below(tr))
           /\ getTotalWeight(tr) = Below(tr)[0]
           /\ \A i \in 0..(Len(tr.ids) - 1) : Own(tr)[i] = Weight[tr.ids[i + 1]]
<1>1. Len(tr.ids) \in Nat \ {0}
    BY EmptySeq DEF TreeOK, TreeShape
<1>2. HeapWeights(Len(tr.ids), Own(tr), Below(tr))
    BY <1>1, Weighs DEF HeapWeights
<1>3. getTotalWeight(tr) = Below(tr)[0]
    BY Weighs DEF getTotalWeight
<1>4. \A i \in 0..(Len(tr.ids) - 1) : Own(tr)[i] = Weight[tr.ids[i + 1]]
  <2> SUFFICES ASSUME NEW i \in 0..(Len(tr.ids) - 1)
               PROVE  Own(tr)[i] = Weight[tr.ids[i + 1]]
    OBVIOUS
  <2>1. i \in Nat /\ i < Len(tr.ids)
    BY <1>1
  <2> QED
    BY <2>1, Weighs
<1> QED
    BY <1>2, <1>3, <1>4

\* The node that a value below the total weight selects is the one whose
\* range it falls into.
LEMMA FindSelects ==
    ASSUME NEW tr, TreeOK(tr), NEW what \in 0..(getTotalWeight(tr) - 1)
    PROVE  /\ tr.ids # <<>>
           /\ \E r : /\ IsWalk(Len(tr.ids), Own(tr), Below(tr), what, r)
                     /\ \E i \in 0..(Len(tr.ids) - 1) :
                           /\ FoundAt(Own(tr), Below(tr), r, i)
                           /\ \A j \in 0..(Len(tr.ids) - 1) :
                                 FoundAt(Own(tr), Below(tr), r, j) => j = i
                           /\ findByEvictionWeight(tr, what) = tr.ids[i + 1]
<1>1. tr.ids # <<>>
  <2> SUFFICES ASSUME tr.ids = <<>>
               PROVE  FALSE
    OBVIOUS
  <2>1. Len(tr.ids) = 0
    OBVIOUS
  <2>2. getTotalWeight(tr) = 0
    BY <2>1 DEF getTotalWeight, getWeightAt
  <2> QED
    BY <2>2
<1> DEFINE n == Len(tr.ids)
           O == Own(tr)
           W == Below(tr)
<1>2. HeapWeights(n, O, W) /\ getTotalWeight(tr) = W[0]
    BY <1>1, TreeWeights
<1>3. PICK r : /\ IsWalk(n, O, W, what, r)
               /\ findByEvictionWeight(tr, what) = tr.ids[1 + CHOOSE i \in 0..(n - 1) : FoundAt(O, W, r, i)]
  <2>1. what \in Int
    BY <1>2 DEF HeapWeights
  <2> QED
    BY <2>1, <1>1, FindWalks
<1> HIDE DEF n, O, W
<1>4. PICK i \in 0..(n - 1) : /\ FoundAt(O, W, r, i)
                              /\ \A j \in 0..(n - 1) : FoundAt(O, W, r, j) => j = i
  <2>1. what \in 0..(W[0] - 1)
    BY <1>2
  <2> QED
    BY <2>1, <1>2, <1>3, WalkFinds
<1>5. (CHOOSE j \in 0..(n - 1) : FoundAt(O, W, r, j)) = i
    BY <1>4
<1>6. 1 + i = i + 1
    BY <1>2 DEF HeapWeights
<1>7. findByEvictionWeight(tr, what) = tr.ids[i + 1]
    BY <1>3, <1>5, <1>6
<1> QED
    BY <1>1, <1>3, <1>4, <1>7 DEF n, O, W

\* What is drawn is in the tree.
LEMMA FindInTree ==
    ASSUME NEW tr, TreeOK(tr), NEW what \in 0..(getTotalWeight(tr) - 1)
    PROVE  findByEvictionWeight(tr, what) \in ToSet(tr.ids)
<1>1. PICK i \in 0..(Len(tr.ids) - 1) : findByEvictionWeight(tr, what) = tr.ids[i + 1]
    BY FindSelects
<1>2. Len(tr.ids) \in Nat /\ DOMAIN tr.ids = 1..Len(tr.ids)
    BY TreeShapeFacts DEF TreeOK
<1>3. i + 1 \in DOMAIN tr.ids
    BY <1>2
<1> QED
    BY <1>1, <1>3 DEF ToSet

\* As many values select t as t weighs.
LEMMA DrawsOf ==
    ASSUME NEW tr, TreeOK(tr), NEW t \in ToSet(tr.ids)
    PROVE  Cardinality({w \in 0..(getTotalWeight(tr) - 1) : findByEvictionWeight(tr, w) = t})
              = Weight[t]
<1> DEFINE n == Len(tr.ids)
           O == Own(tr)
           W == Below(tr)
           total == getTotalWeight(tr)
<1>1. /\ n \in Nat /\ DOMAIN tr.ids = 1..n
      /\ \A a, b \in 1..n : tr.ids[a] = tr.ids[b] => a = b
    BY TreeShapeFacts DEF TreeOK, TreeShape, IsInjective
<1>2. PICK k \in 1..n : tr.ids[k] = t
    BY <1>1 DEF ToSet
<1>3. tr.ids # <<>>
    BY <1>2
<1>4. HeapWeights(n, O, W) /\ total = W[0] /\ \A i \in 0..(n - 1) : O[i] = Weight[tr.ids[i + 1]]
    BY <1>3, TreeWeights
<1>5. \A w \in 0..(total - 1) :
          \E r : /\ IsWalk(n, O, W, w, r)
                 /\ \E i \in 0..(n - 1) : /\ FoundAt(O, W, r, i)
                                          /\ \A j \in 0..(n - 1) : FoundAt(O, W, r, j) => j = i
                                          /\ findByEvictionWeight(tr, w) = tr.ids[i + 1]
    BY FindSelects
<1>6. PICK off : IsOffset(O, W, off)
    BY <1>4, OffsetExists
<1> HIDE DEF n, O, W, total
<1> DEFINE i == k - 1
           from == off[i] + W[2 * i + 1]
<1>7. i \in 0..(n - 1) /\ i \in Nat /\ i + 1 = k
    BY <1>1
<1> HIDE DEF i
<1>8. /\ off[i] \in Nat /\ O[i] \in Nat /\ W[i] \in Nat /\ W[2 * i + 1] \in Nat /\ W[0] \in Nat
      /\ W[2 * i + 2] \in Nat
      /\ W[i] = O[i] + W[2 * i + 1] + W[2 * i + 2]
      /\ O[i] > 0 /\ O[i] = Weight[t]
      /\ off[i] + W[i] <= W[0]
  <2>1. 2 * i + 1 \in Nat /\ 2 * i + 2 \in Nat /\ i < n
    BY <1>7, <1>1
  <2>2. O[i] = Weight[t]
    BY <1>2, <1>4, <1>7
  <2>3. off[i] \in Nat
    BY <1>6, <1>7 DEF IsOffset
  <2>4. off[i] + W[i] <= W[0]
    BY <1>4, <1>6, <1>7, WalkRange
  <2> QED
    BY <2>1, <2>2, <2>3, <2>4, <1>4, <1>7 DEF HeapWeights
<1>9. ASSUME NEW w \in 0..(total - 1)
      PROVE  findByEvictionWeight(tr, w) = t <=> w \in from..(from + O[i] - 1)
  <2>1. PICK r : /\ IsWalk(n, O, W, w, r)
                 /\ \E j \in 0..(n - 1) : /\ FoundAt(O, W, r, j)
                                          /\ \A m \in 0..(n - 1) : FoundAt(O, W, r, m) => m = j
                                          /\ findByEvictionWeight(tr, w) = tr.ids[j + 1]
    BY <1>5
  <2>2. PICK j \in 0..(n - 1) : /\ FoundAt(O, W, r, j)
                                /\ \A m \in 0..(n - 1) : FoundAt(O, W, r, m) => m = j
                                /\ findByEvictionWeight(tr, w) = tr.ids[j + 1]
    BY <2>1
  <2>3. findByEvictionWeight(tr, w) = t <=> j = i
    <3>1. j + 1 \in 1..n /\ (j + 1 = k <=> j = i)
        BY <1>1, <1>7
    <3> QED
        BY <3>1, <2>2, <1>1, <1>2, <1>7
  <2>4. j = i <=> FoundAt(O, W, r, i)
    BY <2>2, <1>7
  <2>5. /\ r[i] >= 0 <=> off[i] <= w /\ w < off[i] + W[i]
        /\ r[i] >= 0 => r[i] = w - off[i]
        /\ r[i] \in Int /\ w \in Int
    <3>1. w \in 0..(W[0] - 1) /\ w \in Int
        BY <1>4
    <3>2. r[i] \in Int
        BY <2>1, <1>7 DEF IsWalk
    <3> QED
        BY <3>1, <3>2, <2>1, <1>4, <1>6, <1>7, WalkRange
  <2>6. FoundAt(O, W, r, i) <=> from <= w /\ w < from + O[i]
    BY <2>5, <1>8 DEF FoundAt
  <2>7. w \in from..(from + O[i] - 1) <=> from <= w /\ w < from + O[i]
    BY <2>5, <1>8
  <2> QED
    BY <2>3, <2>4, <2>6, <2>7
<1>10. from..(from + O[i] - 1) \subseteq 0..(total - 1)
    BY <1>4, <1>8
<1>11. {w \in 0..(total - 1) : findByEvictionWeight(tr, w) = t} = from..(from + O[i] - 1)
  <2> HIDE DEF from
  <2> QED
    BY <1>9, <1>10
<1>12. Cardinality(from..(from + O[i] - 1)) = O[i]
  <2>1. from \in Int /\ from + O[i] - 1 \in Int /\ ~ (from > from + O[i] - 1)
        /\ from + O[i] - 1 - from + 1 = O[i]
    BY <1>8
  <2> DEFINE to == from + O[i] - 1
  <2> HIDE DEF from
  <2>2. from \in Int /\ to \in Int /\ ~ (from > to) /\ to - from + 1 = O[i]
    BY <2>1, <1>8
  <2> HIDE DEF to
  <2>3. Cardinality(from..to) = IF from > to THEN 0 ELSE to - from + 1
    BY <2>2, FS_Interval
  <2>4. Cardinality(from..to) = O[i]
    BY <2>2, <2>3
  <2> QED
    BY <2>4 DEF to
<1> HIDE DEF from
<1> QED
    BY <1>8, <1>11, <1>12 DEF total

-----------------------------------------------------------------------------
(* Taking transactions out *)

TreeSet == [ids : Seq(Tx), child : Seq(Int)]
GoodTrees == {tr \in TreeSet : TreeOK(tr)}

LEMMA EmptyTreeGood == EmptyTree \in GoodTrees /\ ToSet(EmptyTree.ids) = {}
<1>1. EmptyTree \in TreeSet /\ EmptyTree.ids = <<>> /\ EmptyTree.child = <<>>
    BY DEF EmptyTree, TreeSet
<1>2. ToSet(EmptyTree.ids) = {}
    BY <1>1 DEF ToSet
<1>3. TreeShape(EmptyTree)
    BY <1>1 DEF TreeShape, IsInjective
<1>4. /\ Len(EmptyTree.ids) = 0
      /\ Own(EmptyTree) \in [Nat -> Int] /\ Below(EmptyTree) \in [Nat -> Int]
      /\ \A c \in Nat : Own(EmptyTree)[c] = 0 /\ Below(EmptyTree)[c] = 0
    BY <1>1, <1>3, TreeShapeFacts
<1>5. IsWeighing(Own(EmptyTree), Below(EmptyTree))
    BY <1>4 DEF IsWeighing
<1> QED
    BY <1>1, <1>2, <1>3, <1>5 DEF GoodTrees, TreeOK

LEMMA RemoveGood ==
    ASSUME NEW tr \in GoodTrees, NEW t
    PROVE  remove(tr, t) \in GoodTrees /\ ToSet(remove(tr, t).ids) = ToSet(tr.ids) \ {t}
<1>1. TreeOK(tr) /\ tr \in TreeSet
    BY DEF GoodTrees
<1>2. CASE t \notin ToSet(tr.ids)
  <2>1. ~ InTree(tr, t)
    BY <1>2 DEF InTree, ToSet
  <2>2. remove(tr, t) = tr
    BY <2>1 DEF remove
  <2> QED
    BY <2>2, <1>2
<1>3. CASE t \in ToSet(tr.ids)
  <2>1. TreeOK(remove(tr, t)) /\ ToSet(remove(tr, t).ids) = ToSet(tr.ids) \ {t}
    BY <1>1, <1>3, RemoveFromTree
  <2>2. InTree(tr, t)
    BY <1>3 DEF InTree, ToSet
  <2>3. \E x, y : remove(tr, t) = [ids |-> x, child |-> y]
    BY <2>2 DEF remove
  <2>4. remove(tr, t).ids \in Seq(Tx) /\ remove(tr, t).child \in Seq(Int)
    BY <2>1 DEF TreeOK, TreeShape
  <2>5. remove(tr, t) \in TreeSet
    BY <2>3, <2>4 DEF TreeSet
  <2> QED
    BY <2>1, <2>5 DEF GoodTrees
<1> QED
    BY <1>2, <1>3

LEMMA AddGood ==
    ASSUME NEW tr \in GoodTrees, NEW t \in Tx, t \notin ToSet(tr.ids)
    PROVE  add(tr, t) \in GoodTrees /\ ToSet(add(tr, t).ids) = ToSet(tr.ids) \cup {t}
<1>1. TreeOK(tr) /\ tr \in TreeSet
    BY DEF GoodTrees
<1>2. TreeOK(add(tr, t)) /\ ToSet(add(tr, t).ids) = ToSet(tr.ids) \cup {t}
    BY <1>1, AddToTree
<1>3. ~ InTree(tr, t)
    BY DEF InTree, ToSet
<1>4. \E x, y : add(tr, t) = [ids |-> x, child |-> y]
    BY <1>3 DEF add
<1>5. add(tr, t).ids \in Seq(Tx) /\ add(tr, t).child \in Seq(Int)
    BY <1>2 DEF TreeOK, TreeShape
<1>6. add(tr, t) \in TreeSet
    BY <1>4, <1>5 DEF TreeSet
<1> QED
    BY <1>2, <1>6 DEF GoodTrees

\* The subsets of a finite set are a tree: each grows by one from another.
LEMMA SubsetsAreTree ==
    ASSUME NEW D, IsFiniteSet(D)
    PROVE  IsTree(SUBSET D, {}, [s \in (SUBSET D) \ {{}} |-> s \ {CHOOSE x \in s : TRUE}])
<1> DEFINE B == SUBSET D
           P == [s \in B \ {{}} |-> s \ {CHOOSE x \in s : TRUE}]
<1>1. {} \in B /\ P \in [B \ {{}} -> B]
    OBVIOUS
<1>2. ASSUME NEW S \in SUBSET B, {} \in S, \A b \in B \ {{}} : P[b] \in S => b \in S
      PROVE  S = B
  <2> DEFINE A == {n \in Nat : \A s \in B : Cardinality(s) = n => s \in S}
  <2>1. \A s \in B : IsFiniteSet(s) /\ Cardinality(s) \in Nat
    BY FS_Subset, FS_CardinalityType
  <2>2. 0 \in A
    <3>1. \A s \in B : Cardinality(s) = 0 => s = {}
        BY <2>1, FS_EmptySet
    <3> QED
        BY <3>1, <1>2
  <2>3. ASSUME NEW n \in Nat, n \in A
        PROVE  n + 1 \in A
    <3> SUFFICES ASSUME NEW s \in B, Cardinality(s) = n + 1
                 PROVE  s \in S
        OBVIOUS
    <3> DEFINE x == CHOOSE x \in s : TRUE
    <3>1. s # {}
        BY FS_EmptySet
    <3>2. x \in s
        BY <3>1
    <3>3. P[s] = s \ {x} /\ P[s] \in B
        BY <3>1
    <3> HIDE DEF x, P
    <3>4. Cardinality(s \ {x}) = n
      <4>1. Cardinality(s \ {x}) = Cardinality(s) - 1
        BY <3>2, <2>1, FS_RemoveElement
      <4> QED
        BY <4>1
    <3>5. P[s] \in S
        BY <3>3, <3>4, <2>3
    <3> QED
        BY <3>1, <3>5, <1>2
  <2>4. Nat \subseteq A
    <3> HIDE DEF A
    <3> QED
        BY <2>2, <2>3, NatSetInduction
  <2> QED
    BY <2>1, <2>4
<1> HIDE DEF P, B
<1>3. IsTree(B, {}, P)
    BY <1>1, <1>2 DEF IsTree
<1> QED
    BY <1>3 DEF P, B

\* The tree without the transactions of D, taken out one by one.
RemoveAll(tr, D) == FoldSet(LAMBDA t, x : remove(x, t), tr, D)

LEMMA RemoveAllGood ==
    ASSUME NEW tr \in GoodTrees, NEW D, IsFiniteSet(D)
    PROVE  RemoveAll(tr, D) \in GoodTrees /\ ToSet(RemoveAll(tr, D).ids) = ToSet(tr.ids) \ D
<1> DEFINE B == SUBSET D
           one(s) == CHOOSE x \in s : TRUE
           P == [s \in B \ {{}} |-> s \ {one(s)}]
           F == [s \in B \ {{}} |-> [x \in GoodTrees |-> remove(x, one(s))]]
           Eq(f) == f = [s \in SUBSET D |-> IF s = {} THEN tr ELSE remove(f[s \ {one(s)}], one(s))]
           iter == CHOOSE f : Eq(f)
<1>1. RemoveAll(tr, D) = iter[D]
    BY DEF RemoveAll, FoldSet, MapThenFoldSet
<1>2. IsTree(B, {}, P)
    BY SubsetsAreTree
<1>3. \A s \in B \ {{}} : one(s) \in s /\ P[s] = s \ {one(s)} /\ P[s] \in B
    OBVIOUS
<1> HIDE DEF one
<1>4. F \in [B \ {{}} -> [GoodTrees -> GoodTrees]]
    BY RemoveGood
<1>5. \E f : Eq(f)
  <2>1. PICK f : IsTreeFold(B, {}, P, GoodTrees, tr, F, f)
    <3> HIDE DEF B, P, F
    <3> QED
        BY <1>2, <1>4, TreeFoldExists
  <2>2. /\ f \in [B -> GoodTrees]
        /\ f[{}] = tr
        /\ \A s \in B \ {{}} : f[s] = F[s][f[P[s]]]
    BY <2>1 DEF IsTreeFold
  <2>3. ASSUME NEW s \in B \ {{}}
        PROVE  f[s] = remove(f[s \ {one(s)}], one(s))
    <3>1. f[P[s]] \in GoodTrees /\ P[s] = s \ {one(s)}
        BY <1>3, <2>2
    <3>2. F[s][f[P[s]]] = remove(f[P[s]], one(s))
        BY <3>1
    <3> QED
        BY <3>1, <3>2, <2>2
  <2>4. Eq(f)
    BY <2>2, <2>3
  <2> HIDE DEF Eq
  <2> QED
    BY <2>4
<1>6. Eq(iter)
  <2> HIDE DEF Eq
  <2> QED
    BY <1>5
<1> HIDE DEF iter
<1>7. iter[{}] = tr /\ \A s \in B \ {{}} : iter[s] = remove(iter[P[s]], one(s))
  <2> DEFINE v(s) == IF s = {} THEN tr ELSE remove(iter[s \ {one(s)}], one(s))
  <2>1. iter = [s \in B |-> v(s)]
    BY <1>6
  <2>2. v({}) = tr /\ \A s \in B \ {{}} : v(s) = remove(iter[P[s]], one(s))
    BY <1>3
  <2> HIDE DEF v, P
  <2> QED
    BY <2>1, <2>2
<1> DEFINE S == {s \in B : iter[s] \in GoodTrees /\ ToSet(iter[s].ids) = ToSet(tr.ids) \ s}
<1>8. S = B
  <2>1. S \in SUBSET B /\ {} \in S
    BY <1>7
  <2>2. ASSUME NEW s \in B \ {{}}, P[s] \in S
        PROVE  s \in S
    <3>1. iter[P[s]] \in GoodTrees /\ ToSet(iter[P[s]].ids) = ToSet(tr.ids) \ P[s]
        BY <2>2
    <3>2. /\ iter[s] \in GoodTrees
          /\ ToSet(iter[s].ids) = ToSet(iter[P[s]].ids) \ {one(s)}
      <4>1. iter[s] = remove(iter[P[s]], one(s))
        BY <1>7
      <4> DEFINE x == iter[P[s]]
                 t == one(s)
      <4>2. x \in GoodTrees
        BY <3>1
      <4>3. iter[s] = remove(x, t)
        BY <4>1
      <4> HIDE DEF P, x, t
      <4>4. remove(x, t) \in GoodTrees /\ ToSet(remove(x, t).ids) = ToSet(x.ids) \ {t}
        BY <4>2, RemoveGood
      <4>5. iter[s] \in GoodTrees /\ ToSet(iter[s].ids) = ToSet(x.ids) \ {t}
        BY ONLY <4>3, <4>4
      <4> QED
        BY ONLY <4>5 DEF x, t
    <3>3. (ToSet(tr.ids) \ P[s]) \ {one(s)} = ToSet(tr.ids) \ s
        BY <1>3
    <3> QED
        BY <3>1, <3>2, <3>3
  <2> HIDE DEF S, B, P
  <2> QED
    BY ONLY <2>1, <2>2, <1>2 DEF IsTree
<1> QED
    BY <1>1, <1>8

\* The array has as many places as there are transactions in it.
LEMMA TreeLength ==
    ASSUME NEW tr, TreeOK(tr)
    PROVE  IsFiniteSet(ToSet(tr.ids)) /\ Len(tr.ids) = Cardinality(ToSet(tr.ids))
<1> DEFINE n == Len(tr.ids)
           R == ToSet(tr.ids)
<1>1. tr.ids \in Seq(Tx) /\ IsInjective(tr.ids)
    BY DEF TreeOK, TreeShape
<1>2. n \in Nat /\ DOMAIN tr.ids = 1..n /\ tr.ids \in [1..n -> Tx]
    BY <1>1, LenProperties
<1>3. R = {tr.ids[k] : k \in 1..n}
    BY <1>2 DEF ToSet
<1>4. tr.ids \in [1..n -> R]
    BY <1>2, <1>3
<1>5. tr.ids \in Bijection(1..n, R)
    BY <1>1, <1>3, <1>4 DEF Bijection, Injection, Surjection, IsInjective
<1>6. IsFiniteSet(1..n) /\ Cardinality(1..n) = n
    BY <1>2, FS_Interval
<1>7. ExistsBijection(1..n, R)
    BY <1>5 DEF ExistsBijection
<1> QED
    BY <1>6, <1>7, FS_Bijection

-----------------------------------------------------------------------------
(* The pool *)

PartialFunctions(D, R) == UNION {[S -> R] : S \in SUBSET D}

PoolSet == [mapTx : PartialFunctions(Tx, {0, 1}),
            next : PartialFunctions(Tx \cup Coinbases, Tx),
            nf : PartialFunctions(UNION {Nullifiers[t] : t \in Tx}, Tx),
            tree : GoodTrees]

\* The pool's structures agree.
Agree(p) ==
    /\ DOMAIN p.next = UNION {Prevouts[t] : t \in In(p)}
    /\ DOMAIN p.nf = UNION {Nullifiers[t] : t \in In(p)}
    /\ \A t \in In(p) : /\ \A o \in Prevouts[t] : p.next[o] = t
                        /\ \A n \in Nullifiers[t] : p.nf[n] = t
    /\ ToSet(p.tree.ids) = In(p)

PoolOK(p) == p \in PoolSet /\ Agree(p)

LEMMA ConstantFacts ==
    /\ IsFiniteSet(Tx)
    /\ \A t \in Tx : Prevouts[t] \in SUBSET (Tx \cup Coinbases)
    /\ \A t \in Tx : Branch[t] \in {0, 1}
    /\ \A t \in Tx : Expiry[t] \in Nat
    /\ Capacity \in Nat
    /\ EvictionMemory \in Nat /\ EvictionMemory >= 1
    /\ Maturity \in Nat /\ ExpiringSoon \in Nat /\ MaxOrphans \in Nat
    /\ MaxHeight \in Nat /\ MaxSteps \in Nat
    /\ Tx \cap Coinbases = {}
    /\ NoTx \notin Tx /\ NoTx \notin Coinbases
    BY WeightAssumption, MempoolAssumption DEF Coinbases

LEMMA PoolFacts ==
    ASSUME NEW p, PoolOK(p)
    PROVE  /\ In(p) \subseteq Tx
           /\ IsFiniteSet(In(p)) /\ Cardinality(In(p)) \in Nat
           /\ p.mapTx \in [In(p) -> {0, 1}]
           /\ p.tree \in GoodTrees /\ TreeOK(p.tree)
           /\ Len(p.tree.ids) = Cardinality(In(p))
           /\ p.next \in [DOMAIN p.next -> Tx]
           /\ p.nf \in [DOMAIN p.nf -> Tx]
           /\ \A o \in DOMAIN p.next : p.next[o] \in In(p) /\ o \in Prevouts[p.next[o]]
           /\ \A n \in DOMAIN p.nf : p.nf[n] \in In(p) /\ n \in Nullifiers[p.nf[n]]
<1>1. /\ p.mapTx \in PartialFunctions(Tx, {0, 1})
      /\ p.next \in PartialFunctions(Tx \cup Coinbases, Tx)
      /\ p.nf \in PartialFunctions(UNION {Nullifiers[t] : t \in Tx}, Tx)
      /\ p.tree \in GoodTrees
    BY DEF PoolOK, PoolSet
<1>2. In(p) \subseteq Tx /\ p.mapTx \in [In(p) -> {0, 1}]
    BY <1>1 DEF PartialFunctions, In
<1>3. p.next \in [DOMAIN p.next -> Tx] /\ p.nf \in [DOMAIN p.nf -> Tx]
    BY <1>1 DEF PartialFunctions
<1>4. IsFiniteSet(In(p)) /\ Cardinality(In(p)) \in Nat
    BY <1>2, ConstantFacts, FS_Subset, FS_CardinalityType
<1>5. TreeOK(p.tree)
    BY <1>1 DEF GoodTrees
<1>6. Agree(p)
    BY DEF PoolOK
<1>7. Len(p.tree.ids) = Cardinality(In(p))
    BY <1>5, <1>6, TreeLength DEF Agree
<1>8. \A o \in DOMAIN p.next : p.next[o] \in In(p) /\ o \in Prevouts[p.next[o]]
  <2> SUFFICES ASSUME NEW o \in DOMAIN p.next
               PROVE  p.next[o] \in In(p) /\ o \in Prevouts[p.next[o]]
    OBVIOUS
  <2>1. PICK t \in In(p) : o \in Prevouts[t]
    BY <1>6 DEF Agree
  <2>2. p.next[o] = t
    BY <2>1, <1>6 DEF Agree
  <2> QED
    BY <2>1, <2>2
<1>9. \A n \in DOMAIN p.nf : p.nf[n] \in In(p) /\ n \in Nullifiers[p.nf[n]]
  <2> SUFFICES ASSUME NEW n \in DOMAIN p.nf
               PROVE  p.nf[n] \in In(p) /\ n \in Nullifiers[p.nf[n]]
    OBVIOUS
  <2>1. PICK t \in In(p) : n \in Nullifiers[t]
    BY <1>6 DEF Agree
  <2>2. p.nf[n] = t
    BY <2>1, <1>6 DEF Agree
  <2> QED
    BY <2>1, <2>2
<1> QED
    BY <1>1, <1>2, <1>3, <1>4, <1>5, <1>7, <1>8, <1>9

\* A pool that agrees is one of PoolSet when its parts have their types.
LEMMA PoolIntro ==
    ASSUME NEW a, NEW b, NEW c, NEW d,
           LET p == [mapTx |-> a, next |-> b, nf |-> c, tree |-> d]
           IN  /\ a = [t \in DOMAIN a |-> a[t]] /\ DOMAIN a \subseteq Tx
               /\ \A t \in DOMAIN a : a[t] \in {0, 1}
               /\ b = [o \in DOMAIN b |-> b[o]]
               /\ c = [n \in DOMAIN c |-> c[n]]
               /\ d \in GoodTrees
               /\ Agree(p)
    PROVE  PoolOK([mapTx |-> a, next |-> b, nf |-> c, tree |-> d])
<1> DEFINE p == [mapTx |-> a, next |-> b, nf |-> c, tree |-> d]
<1>1. Agree(p) /\ In(p) = DOMAIN a
    BY DEF In
<1>2. a \in PartialFunctions(Tx, {0, 1})
  <2>1. a \in [DOMAIN a -> {0, 1}]
    OBVIOUS
  <2> QED
    BY <2>1 DEF PartialFunctions
<1>3. \A o \in DOMAIN b : b[o] \in Tx /\ o \in Tx \cup Coinbases
  <2> SUFFICES ASSUME NEW o \in DOMAIN b
               PROVE  b[o] \in Tx /\ o \in Tx \cup Coinbases
    OBVIOUS
  <2>1. PICK t \in DOMAIN a : o \in Prevouts[t]
    BY <1>1 DEF Agree
  <2>2. b[o] = t /\ t \in Tx
    BY <2>1, <1>1 DEF Agree
  <2> QED
    BY <2>1, <2>2, ConstantFacts
<1>4. b \in PartialFunctions(Tx \cup Coinbases, Tx)
  <2>1. b \in [DOMAIN b -> Tx] /\ DOMAIN b \in SUBSET (Tx \cup Coinbases)
    BY <1>3
  <2> QED
    BY <2>1 DEF PartialFunctions
<1>5. \A n \in DOMAIN c : c[n] \in Tx /\ n \in UNION {Nullifiers[t] : t \in Tx}
  <2> SUFFICES ASSUME NEW n \in DOMAIN c
               PROVE  c[n] \in Tx /\ n \in UNION {Nullifiers[t] : t \in Tx}
    OBVIOUS
  <2>1. PICK t \in DOMAIN a : n \in Nullifiers[t]
    BY <1>1 DEF Agree
  <2>2. c[n] = t /\ t \in Tx
    BY <2>1, <1>1 DEF Agree
  <2> QED
    BY <2>1, <2>2
<1>6. c \in PartialFunctions(UNION {Nullifiers[t] : t \in Tx}, Tx)
  <2>1. c \in [DOMAIN c -> Tx] /\ DOMAIN c \in SUBSET UNION {Nullifiers[t] : t \in Tx}
    BY <1>5
  <2> QED
    BY <2>1 DEF PartialFunctions
<1> QED
    BY <1>1, <1>2, <1>4, <1>6 DEF PoolOK, PoolSet

\* Without takes out D and nothing else, and the structures still agree.
LEMMA WithoutKeeps ==
    ASSUME NEW p, PoolOK(p), NEW D
    PROVE  /\ PoolOK(Without(p, D))
           /\ In(Without(p, D)) = In(p) \ D
           /\ \A u \in In(p) \ D : Without(p, D).mapTx[u] = p.mapTx[u]
<1> DEFINE gone == D \cap In(p)
           outs == UNION {Prevouts[t] : t \in gone}
           nfs == UNION {Nullifiers[t] : t \in gone}
           a == [u \in In(p) \ gone |-> p.mapTx[u]]
           b == [o \in DOMAIN p.next \ outs |-> p.next[o]]
           c == [n \in DOMAIN p.nf \ nfs |-> p.nf[n]]
           d == RemoveAll(p.tree, gone)
           q == [mapTx |-> a, next |-> b, nf |-> c, tree |-> d]
<1>1. Without(p, D) = q
    BY DEF Without, RemoveAll
<1>2. Agree(p)
    BY DEF PoolOK
<1>3. /\ In(p) \subseteq Tx
      /\ p.mapTx \in [In(p) -> {0, 1}]
      /\ p.tree \in GoodTrees
      /\ \A o \in DOMAIN p.next : p.next[o] \in In(p) /\ o \in Prevouts[p.next[o]]
      /\ \A n \in DOMAIN p.nf : p.nf[n] \in In(p) /\ n \in Nullifiers[p.nf[n]]
    BY PoolFacts
<1>4. d \in GoodTrees /\ ToSet(d.ids) = In(p) \ gone
  <2>1. IsFiniteSet(gone)
    BY PoolFacts, FS_Subset
  <2>2. ToSet(p.tree.ids) = In(p)
    BY <1>2 DEF Agree
  <2> HIDE DEF gone
  <2> QED
    BY <2>1, <2>2, <1>3, RemoveAllGood
<1> HIDE DEF d
<1>5. In(q) = In(p) \ gone /\ In(p) \ gone = In(p) \ D
    BY DEF In
<1>6. Agree(q)
  <2>1. DOMAIN b = UNION {Prevouts[t] : t \in In(p) \ gone}
    <3>1. ASSUME NEW o \in DOMAIN p.next \ outs
          PROVE  o \in UNION {Prevouts[t] : t \in In(p) \ gone}
      <4>1. p.next[o] \in In(p) /\ o \in Prevouts[p.next[o]]
        BY <1>3
      <4>2. p.next[o] \notin gone
        BY <4>1
      <4> QED
        BY <4>1, <4>2
    <3>2. ASSUME NEW t \in In(p) \ gone, NEW o \in Prevouts[t]
          PROVE  o \in DOMAIN p.next \ outs
      <4>1. o \in DOMAIN p.next /\ p.next[o] = t
        BY <1>2 DEF Agree
      <4>2. \A u \in gone : o \in Prevouts[u] => p.next[o] = u
        BY <1>2 DEF Agree
      <4> QED
        BY <4>1, <4>2
    <3> QED
        BY <3>1, <3>2
  <2>2. DOMAIN c = UNION {Nullifiers[t] : t \in In(p) \ gone}
    <3>1. ASSUME NEW n \in DOMAIN p.nf \ nfs
          PROVE  n \in UNION {Nullifiers[t] : t \in In(p) \ gone}
      <4>1. p.nf[n] \in In(p) /\ n \in Nullifiers[p.nf[n]]
        BY <1>3
      <4>2. p.nf[n] \notin gone
        BY <4>1
      <4> QED
        BY <4>1, <4>2
    <3>2. ASSUME NEW t \in In(p) \ gone, NEW n \in Nullifiers[t]
          PROVE  n \in DOMAIN p.nf \ nfs
      <4>1. n \in DOMAIN p.nf /\ p.nf[n] = t
        BY <1>2 DEF Agree
      <4>2. \A u \in gone : n \in Nullifiers[u] => p.nf[n] = u
        BY <1>2 DEF Agree
      <4> QED
        BY <4>1, <4>2
    <3> QED
        BY <3>1, <3>2
  <2>3. ASSUME NEW t \in In(p) \ gone
        PROVE  /\ \A o \in Prevouts[t] : b[o] = t
               /\ \A n \in Nullifiers[t] : c[n] = t
    <3>1. \A o \in Prevouts[t] : o \in DOMAIN b /\ p.next[o] = t
        BY <2>1, <1>2 DEF Agree
    <3>2. \A n \in Nullifiers[t] : n \in DOMAIN c /\ p.nf[n] = t
        BY <2>2, <1>2 DEF Agree
    <3> QED
        BY <3>1, <3>2
  <2>4. q.next = b /\ q.nf = c /\ q.tree = d
    OBVIOUS
  <2> HIDE DEF a, b, c, q, gone
  <2> QED
    BY <2>1, <2>2, <2>3, <2>4, <1>4, <1>5 DEF Agree
<1>7. PoolOK(q)
  <2>1. /\ a = [t \in DOMAIN a |-> a[t]] /\ DOMAIN a \subseteq Tx
        /\ \A t \in DOMAIN a : a[t] \in {0, 1}
        /\ b = [o \in DOMAIN b |-> b[o]]
        /\ c = [n \in DOMAIN c |-> c[n]]
    BY <1>3
  <2> HIDE DEF a, b, c
  <2> QED
    BY <2>1, <1>4, <1>6, PoolIntro
<1>8. \A u \in In(p) \ D : q.mapTx[u] = p.mapTx[u]
    BY DEF In
<1> HIDE DEF q, gone
<1> QED
    BY <1>1, <1>5, <1>7, <1>8

\* With its members the set has the pool transactions that spend their outputs.
ClosedIn(p, D) == \A o \in D \cap DOMAIN p.next : p.next[o] \in D

LEMMA DescendantsClosed ==
    ASSUME NEW p, PoolOK(p), NEW S
    PROVE  S \subseteq Descendants(p, S) /\ ClosedIn(p, Descendants(p, S))
<1> DEFINE N == Cardinality(In(p))
           more(D) == D \cup {p.next[o] : o \in D \cap DOMAIN p.next}
           X == SUBSET (S \cup In(p))
           F == [k \in 1..N |-> [D \in X |-> more(D)]]
           Eq(f) == f = [k \in 0..N |-> IF k = 0 THEN S ELSE more(f[k - 1])]
           gen == CHOOSE f : Eq(f)
<1>1. Descendants(p, S) = gen[N]
    BY DEF Descendants
<1>2. /\ N \in Nat
      /\ IsFiniteSet(In(p))
      /\ \A o \in DOMAIN p.next : p.next[o] \in In(p)
    BY PoolFacts
<1>3. \A D \in X : more(D) \in X /\ D \subseteq more(D)
    BY <1>2
<1>4. \A D : more(D) = D <=> ClosedIn(p, D)
    BY DEF ClosedIn
<1>5. \A D : \A o \in D \cap DOMAIN p.next : p.next[o] \in more(D)
    OBVIOUS
<1> HIDE DEF more, N
<1>6. \E f : Eq(f)
  <2>1. F \in [1..N -> [X -> X]] /\ S \in X
    BY <1>3
  <2>2. PICK f : IsFold(N, X, S, F, f)
    <3> HIDE DEF X, F
    <3> QED
        BY <2>1, <1>2, FoldExists
  <2>3. /\ f \in [0..N -> X]
        /\ f[0] = S
        /\ \A k \in 1..N : f[k] = F[k][f[k - 1]]
    BY <2>2 DEF IsFold
  <2>4. ASSUME NEW k \in 1..N
        PROVE  f[k] = more(f[k - 1])
    <3>1. k - 1 \in 0..N
        BY <1>2
    <3>2. f[k - 1] \in X
        BY <3>1, <2>3
    <3> HIDE DEF X
    <3> QED
        BY <3>2, <2>3
  <2>5. Eq(f)
    <3> HIDE DEF X
    <3>1. \A k \in 0..N : f[k] = IF k = 0 THEN S ELSE more(f[k - 1])
        BY <2>3, <2>4, <1>2
    <3>2. f = [k \in 0..N |-> f[k]]
        BY <2>3
    <3> QED
        BY <3>1, <3>2
  <2> HIDE DEF Eq
  <2> QED
    BY <2>5
<1>7. Eq(gen)
  <2> HIDE DEF Eq
  <2> QED
    BY <1>6
<1> HIDE DEF gen
<1>8. gen[0] = S /\ \A k \in 0..N : k + 1 <= N => gen[k + 1] = more(gen[k])
  <2> DEFINE v(k) == IF k = 0 THEN S ELSE more(gen[k - 1])
  <2>1. gen = [k \in 0..N |-> v(k)]
    BY <1>7
  <2>2. v(0) = S /\ 0 \in 0..N
    BY <1>2
  <2>3. ASSUME NEW k \in 0..N, k + 1 <= N
        PROVE  k + 1 \in 0..N /\ v(k + 1) = more(gen[k])
    <3>1. k + 1 \in 0..N /\ k + 1 # 0 /\ k + 1 - 1 = k
        BY <1>2, <2>3
    <3> QED
        BY <3>1
  <2> HIDE DEF v
  <2> QED
    BY <2>1, <2>2, <2>3
\* As long as it is not closed the set gains a pool transaction in each round.
<1> DEFINE G(k) == /\ gen[k] \in X
                   /\ S \subseteq gen[k]
                   /\ ClosedIn(p, gen[k]) \/ Cardinality(gen[k] \cap In(p)) >= k
           A == {k \in Nat : k <= N => G(k)}
<1>9. 0 \in A
  <2>1. IsFiniteSet(S \cap In(p)) /\ Cardinality(S \cap In(p)) \in Nat
    BY <1>2, FS_Subset, FS_CardinalityType
  <2> QED
    BY <2>1, <1>8
<1>10. ASSUME NEW k \in Nat, k \in A
       PROVE  k + 1 \in A
  <2> SUFFICES ASSUME k + 1 <= N
               PROVE  G(k + 1)
    OBVIOUS
  <2>1. G(k) /\ k \in 0..N /\ gen[k + 1] = more(gen[k])
    BY <1>2, <1>8, <1>10
  <2> DEFINE D == gen[k]
             E == gen[k + 1]
  <2>2. E \in X /\ D \subseteq E /\ S \subseteq E
    BY <2>1, <1>3
  <2>3. CASE ClosedIn(p, D)
    <3>1. E = D
        BY <2>1, <2>3, <1>4
    <3> QED
        BY <3>1, <2>2, <2>3
  <2>4. CASE ~ ClosedIn(p, D)
    <3>1. PICK o \in D \cap DOMAIN p.next : p.next[o] \notin D
        BY <2>4 DEF ClosedIn
    <3> DEFINE x == p.next[o]
    <3>2. x \in E /\ x \in In(p) /\ x \notin D
        BY <3>1, <2>1, <1>2, <1>5
    <3> HIDE DEF x
    <3>3. /\ IsFiniteSet(D \cap In(p)) /\ Cardinality(D \cap In(p)) \in Nat
          /\ IsFiniteSet(E \cap In(p)) /\ Cardinality(E \cap In(p)) \in Nat
        BY <1>2, FS_Subset, FS_CardinalityType
    <3>4. Cardinality((D \cap In(p)) \cup {x}) = Cardinality(D \cap In(p)) + 1
        BY <3>2, <3>3, FS_AddElement
    <3>5. (D \cap In(p)) \cup {x} \in SUBSET (E \cap In(p))
        BY <3>2, <2>2
    <3>6. Cardinality((D \cap In(p)) \cup {x}) <= Cardinality(E \cap In(p))
        BY <3>3, <3>5, FS_Subset
    <3>7. Cardinality(D \cap In(p)) >= k
        BY <2>1, <2>4
    <3>8. Cardinality(E \cap In(p)) >= k + 1
      <4> DEFINE cD == Cardinality(D \cap In(p))
                 cE == Cardinality(E \cap In(p))
                 cX == Cardinality((D \cap In(p)) \cup {x})
      <4>1. cD \in Nat /\ cE \in Nat /\ cX = cD + 1 /\ cX <= cE /\ cD >= k
        BY <3>3, <3>4, <3>6, <3>7
      <4> HIDE DEF cD, cE, cX, D, E
      <4>2. cE >= k + 1
        BY ONLY <4>1, k \in Nat
      <4> QED
        BY <4>2 DEF cE
    <3> QED
        BY <3>8, <2>2
  <2> QED
    BY <2>3, <2>4
<1>11. G(N)
  <2>1. Nat \subseteq A
    <3> HIDE DEF A
    <3> QED
        BY <1>9, <1>10, NatSetInduction
  <2> QED
    BY <2>1, <1>2
<1>12. ClosedIn(p, gen[N])
  <2>1. CASE Cardinality(gen[N] \cap In(p)) >= N
    <3> DEFINE I == gen[N] \cap In(p)
    <3>1. I \in SUBSET In(p)
        OBVIOUS
    <3>2. IsFiniteSet(I) /\ Cardinality(I) \in Nat /\ Cardinality(I) <= N /\ (N = Cardinality(I) => In(p) = I)
      <4> HIDE DEF I
      <4> QED
        BY <3>1, <1>2, FS_Subset, FS_CardinalityType DEF N
    <3>3. Cardinality(I) = N
        BY <3>2, <2>1, <1>2
    <3>4. In(p) = I
        BY <3>2, <3>3
    <3> QED
        BY <3>4, <1>2 DEF ClosedIn
  <2> QED
    BY <2>1, <1>11
<1> QED
    BY <1>1, <1>11, <1>12

\* q is p without some transactions and all that depend on them.
Shrunk(q, p) ==
    /\ In(q) \subseteq In(p)
    /\ \A u \in In(q) : /\ q.mapTx[u] = p.mapTx[u]
                        /\ Prevouts[u] \cap In(p) \subseteq In(q)

LEMMA ShrunkTrans ==
    ASSUME NEW p, NEW q, NEW r, Shrunk(q, p), Shrunk(r, q)
    PROVE  Shrunk(r, p)
    BY DEF Shrunk

LEMMA RemoveRecursive ==
    ASSUME NEW p, PoolOK(p), NEW S
    PROVE  LET q == removeRecursive(p, S)
           IN  /\ PoolOK(q)
               /\ Shrunk(q, p)
               /\ In(q) \cap S = {}
               /\ \A u \in In(q) : Prevouts[u] \cap S = {}
<1> DEFINE D == Descendants(p, S)
           q == Without(p, D)
<1>1. S \subseteq D /\ ClosedIn(p, D)
    BY DescendantsClosed
<1> HIDE DEF D
<1>2. PoolOK(q) /\ In(q) = In(p) \ D /\ \A u \in In(p) \ D : q.mapTx[u] = p.mapTx[u]
    BY WithoutKeeps
<1> HIDE DEF q
<1>3. ASSUME NEW u \in In(q), NEW o \in Prevouts[u]
      PROVE  o \notin D
  <2>1. u \in In(p) /\ u \notin D
    BY <1>2, <1>3
  <2>2. o \in DOMAIN p.next /\ p.next[o] = u
    BY <2>1 DEF PoolOK, Agree
  <2> QED
    BY <2>1, <2>2, <1>1 DEF ClosedIn
<1>4. Shrunk(q, p)
    BY <1>2, <1>3 DEF Shrunk
<1>5. In(q) \cap S = {} /\ \A u \in In(q) : Prevouts[u] \cap S = {}
    BY <1>1, <1>2, <1>3
<1> QED
    BY <1>2, <1>4, <1>5 DEF q, D, removeRecursive

\* A transaction that conflicts with none of the pool.
LEMMA AddUnchecked ==
    ASSUME NEW p, PoolOK(p), NEW t \in Tx, t \notin In(p), ~ ConflictsWithPool(p, t),
           NEW branch \in {0, 1}
    PROVE  LET q == addUnchecked(p, t, branch)
           IN  /\ PoolOK(q)
               /\ In(q) = In(p) \cup {t}
               /\ q.mapTx[t] = branch
               /\ \A u \in In(p) : q.mapTx[u] = p.mapTx[u]
<1> DEFINE a == [u \in In(p) \cup {t} |-> IF u = t THEN branch ELSE p.mapTx[u]]
           b == [o \in DOMAIN p.next \cup Prevouts[t] |-> IF o \in Prevouts[t] THEN t ELSE p.next[o]]
           c == [n \in DOMAIN p.nf \cup Nullifiers[t] |-> IF n \in Nullifiers[t] THEN t ELSE p.nf[n]]
           d == add(p.tree, t)
           q == [mapTx |-> a, next |-> b, nf |-> c, tree |-> d]
<1>1. addUnchecked(p, t, branch) = q
    BY DEF addUnchecked
<1>2. Agree(p)
    BY DEF PoolOK
<1>3. /\ In(p) \subseteq Tx
      /\ p.mapTx \in [In(p) -> {0, 1}]
      /\ p.tree \in GoodTrees
    BY PoolFacts
<1>4. d \in GoodTrees /\ ToSet(d.ids) = In(p) \cup {t}
  <2>1. ToSet(p.tree.ids) = In(p)
    BY <1>2 DEF Agree
  <2> QED
    BY <2>1, <1>3, AddGood
<1> HIDE DEF d
<1>5. In(q) = In(p) \cup {t}
    BY DEF In
<1>6. Prevouts[t] \cap DOMAIN p.next = {} /\ Nullifiers[t] \cap DOMAIN p.nf = {}
    BY DEF ConflictsWithPool
<1>7. Agree(q)
  <2>1. DOMAIN b = UNION {Prevouts[u] : u \in In(p) \cup {t}}
    BY <1>2 DEF Agree
  <2>2. DOMAIN c = UNION {Nullifiers[u] : u \in In(p) \cup {t}}
    BY <1>2 DEF Agree
  <2>3. ASSUME NEW u \in In(p) \cup {t}
        PROVE  /\ \A o \in Prevouts[u] : b[o] = u
               /\ \A n \in Nullifiers[u] : c[n] = u
    <3>1. CASE u = t
        BY <3>1
    <3>2. CASE u # t
      <4>1. \A o \in Prevouts[u] : o \in DOMAIN p.next /\ p.next[o] = u
        BY <3>2, <1>2 DEF Agree
      <4>2. \A n \in Nullifiers[u] : n \in DOMAIN p.nf /\ p.nf[n] = u
        BY <3>2, <1>2 DEF Agree
      <4>3. \A o \in Prevouts[u] : b[o] = p.next[o]
        BY <4>1, <1>6
      <4>4. \A n \in Nullifiers[u] : c[n] = p.nf[n]
        BY <4>2, <1>6
      <4> QED
        BY <4>1, <4>2, <4>3, <4>4
    <3> QED
        BY <3>1, <3>2
  <2>4. q.next = b /\ q.nf = c /\ q.tree = d
    OBVIOUS
  <2> HIDE DEF a, b, c, q
  <2> QED
    BY <2>1, <2>2, <2>3, <2>4, <1>4, <1>5 DEF Agree
<1>8. PoolOK(q)
  <2>1. /\ a = [u \in DOMAIN a |-> a[u]] /\ DOMAIN a \subseteq Tx
        /\ \A u \in DOMAIN a : a[u] \in {0, 1}
        /\ b = [o \in DOMAIN b |-> b[o]]
        /\ c = [n \in DOMAIN c |-> c[n]]
    BY <1>3
  <2> HIDE DEF a, b, c
  <2> QED
    BY <2>1, <1>4, <1>7, PoolIntro
<1>9. q.mapTx[t] = branch /\ \A u \in In(p) : q.mapTx[u] = p.mapTx[u]
    BY DEF In
<1> HIDE DEF q
<1> QED
    BY <1>1, <1>5, <1>8, <1>9

-----------------------------------------------------------------------------
(* The limit *)

\* The list of evicted transactions is bounded, has no transaction twice and
\* none of the pool.
EvictedOK(p, ev) ==
    /\ ev \in Seq(Tx)
    /\ Len(ev) <= EvictionMemory
    /\ IsInjective(ev)
    /\ ToSet(ev) \cap In(p) = {}

LEMMA EvictedShrunk ==
    ASSUME NEW p, NEW q, NEW ev, EvictedOK(p, ev), In(q) \subseteq In(p)
    PROVE  EvictedOK(q, ev)
    BY DEF EvictedOK

\* The list without its oldest entry.
LEMMA ForgetOldest ==
    ASSUME NEW p, NEW ev, EvictedOK(p, ev), ev # <<>>
    PROVE  /\ EvictedOK(p, Tail(ev))
           /\ Len(Tail(ev)) = Len(ev) - 1
           /\ ToSet(Tail(ev)) \subseteq ToSet(ev)
<1> DEFINE tl == Tail(ev)
<1>1. ev \in Seq(Tx) /\ Len(ev) <= EvictionMemory /\ IsInjective(ev) /\ ToSet(ev) \cap In(p) = {}
    BY DEF EvictedOK
<1>2. /\ tl \in Seq(Tx) /\ Len(tl) = Len(ev) - 1
      /\ \A i \in 1..Len(tl) : tl[i] = ev[i + 1]
    BY <1>1, HeadTailProperties
<1>3. Len(ev) \in Nat /\ DOMAIN ev = 1..Len(ev) /\ Len(tl) \in Nat /\ DOMAIN tl = 1..Len(tl)
    BY <1>1, <1>2, LenProperties
<1> HIDE DEF tl
<1>4. \A i \in 1..Len(tl) : i + 1 \in 1..Len(ev)
    BY <1>2, <1>3
<1>5. IsInjective(tl)
  <2> SUFFICES ASSUME NEW i \in 1..Len(tl), NEW j \in 1..Len(tl), tl[i] = tl[j]
               PROVE  i = j
    BY <1>3 DEF IsInjective
  <2>1. i + 1 = j + 1
    BY <1>1, <1>2, <1>3, <1>4 DEF IsInjective
  <2> QED
    BY <2>1
<1>6. ToSet(tl) \subseteq ToSet(ev)
    BY <1>2, <1>3, <1>4 DEF ToSet
<1>7. Len(tl) <= EvictionMemory
    BY <1>1, <1>2, <1>3, ConstantFacts
<1> QED
    BY <1>1, <1>2, <1>5, <1>6, <1>7 DEF EvictedOK, tl

\* A transaction that leaves the pool is remembered.
LEMMA RememberKeeps ==
    ASSUME NEW p, NEW q, NEW ev, EvictedOK(p, ev), NEW t \in In(p), t \in Tx,
           In(q) \subseteq In(p) \ {t}
    PROVE  EvictedOK(q, Remember(ev, t))
<1> DEFINE kept == IF Len(ev) = EvictionMemory THEN Tail(ev) ELSE ev
<1>1. /\ EvictedOK(p, kept)
      /\ Len(kept) < EvictionMemory
  <2>1. Len(ev) \in Nat /\ Len(ev) <= EvictionMemory
    BY LenProperties DEF EvictedOK
  <2>2. CASE Len(ev) = EvictionMemory
    <3>1. ev # <<>>
        BY <2>2, ConstantFacts
    <3>2. EvictedOK(p, Tail(ev)) /\ Len(Tail(ev)) = Len(ev) - 1
        BY <3>1, ForgetOldest
    <3> QED
        BY <3>2, <2>1, <2>2
  <2>3. CASE Len(ev) # EvictionMemory
    BY <2>1, <2>3, ConstantFacts
  <2> QED
    BY <2>2, <2>3
<1> HIDE DEF kept
<1> DEFINE s == Append(kept, t)
           n == Len(kept)
<1>2. /\ kept \in Seq(Tx) /\ n \in Nat /\ DOMAIN kept = 1..n
      /\ \A i, j \in 1..n : kept[i] = kept[j] => i = j
      /\ ToSet(kept) \cap In(p) = {}
    BY <1>1, LenProperties DEF EvictedOK, IsInjective
<1>3. s \in Seq(Tx) /\ Len(s) = n + 1 /\ \A i \in 1..(n + 1) : s[i] = IF i = n + 1 THEN t ELSE kept[i]
    BY <1>2
<1>4. DOMAIN s = 1..(n + 1)
    BY <1>2, <1>3
<1> HIDE DEF s, n
<1>5. \A i \in 1..n : kept[i] # t /\ kept[i] \in ToSet(kept)
    BY <1>2 DEF ToSet
<1>6. IsInjective(s)
  <2> SUFFICES ASSUME NEW i \in 1..(n + 1), NEW j \in 1..(n + 1), s[i] = s[j]
               PROVE  i = j
    BY <1>4 DEF IsInjective
  <2>1. (i \in 1..n \/ i = n + 1) /\ (j \in 1..n \/ j = n + 1)
    BY <1>2
  <2> QED
    BY <2>1, <1>2, <1>3, <1>5
<1>7. ToSet(s) \cap In(q) = {}
  <2>1. ASSUME NEW i \in 1..(n + 1)
        PROVE  s[i] \notin In(q)
    <3>1. CASE i = n + 1
        BY <3>1, <1>3
    <3>2. CASE i # n + 1
      <4>1. i \in 1..n
        BY <3>2, <1>2
      <4> QED
        BY <4>1, <3>2, <1>2, <1>3, <1>5
    <3> QED
        BY <3>1, <3>2
  <2> QED
    BY <2>1, <1>4 DEF ToSet
<1>8. Len(s) <= EvictionMemory
    BY <1>1, <1>2, <1>3, ConstantFacts DEF n
<1>9. EvictedOK(q, s)
    BY <1>3, <1>6, <1>7, <1>8 DEF EvictedOK
<1> QED
    BY <1>9 DEF Remember, kept, s

\* What EnsureSizeLimit can lead to: pools and lists of evicted transactions.
Pairs == {x \in PoolSet \X Seq(Tx) : PoolOK(x[1]) /\ EvictedOK(x[1], x[2])}

\* One round: unchanged within the limit, else one drawn transaction less.
Round(pe) ==
    IF OverLimit(pe[1])
    THEN {<<removeRecursive(pe[1], {t}), Remember(pe[2], t)>> :
             t \in {findByEvictionWeight(pe[1].tree, w) :
                       w \in 0 .. getTotalWeight(pe[1].tree) - 1}}
    ELSE {pe}

LEMMA RoundKeeps ==
    ASSUME NEW pe \in Pairs, NEW qe \in Round(pe)
    PROVE  /\ qe \in Pairs
           /\ Shrunk(qe[1], pe[1])
           /\ OverLimit(pe[1]) => Len(qe[1].tree.ids) < Len(pe[1].tree.ids)
<1>1. PoolOK(pe[1]) /\ EvictedOK(pe[1], pe[2])
    BY DEF Pairs
<1>2. CASE ~ OverLimit(pe[1])
  <2>1. qe = pe
    BY <1>2 DEF Round
  <2>2. Shrunk(pe[1], pe[1])
    BY DEF Shrunk
  <2> QED
    BY <2>1, <2>2, <1>2
<1>3. CASE OverLimit(pe[1])
  <2>1. PICK t \in {findByEvictionWeight(pe[1].tree, w) : w \in 0 .. getTotalWeight(pe[1].tree) - 1} :
            qe = <<removeRecursive(pe[1], {t}), Remember(pe[2], t)>>
    BY <1>3 DEF Round
  <2> DEFINE p == pe[1]
             q == removeRecursive(p, {t})
  <2>2. /\ p.tree \in GoodTrees /\ TreeOK(p.tree) /\ In(p) \subseteq Tx
        /\ Len(p.tree.ids) = Cardinality(In(p)) /\ IsFiniteSet(In(p)) /\ Cardinality(In(p)) \in Nat
        /\ ToSet(p.tree.ids) = In(p)
    BY <1>1, PoolFacts DEF PoolOK, Agree
  <2>3. t \in In(p) /\ t \in Tx
    BY <2>1, <2>2, FindInTree
  <2>4. PoolOK(q) /\ Shrunk(q, p) /\ In(q) \cap {t} = {}
    BY <1>1, RemoveRecursive
  <2> HIDE DEF q
  <2>5. In(q) \subseteq In(p) \ {t}
    BY <2>4 DEF Shrunk
  <2>6. EvictedOK(q, Remember(pe[2], t))
    BY <1>1, <2>3, <2>5, RememberKeeps
  <2>7. Remember(pe[2], t) \in Seq(Tx) /\ q \in PoolSet
    BY <2>4, <2>6 DEF EvictedOK, PoolOK
  <2>8. Len(q.tree.ids) < Len(p.tree.ids)
    <3>1. IsFiniteSet(In(p) \ {t}) /\ Cardinality(In(p) \ {t}) = Cardinality(In(p)) - 1
        BY <2>2, <2>3, FS_RemoveElement
    <3>2. Cardinality(In(q)) <= Cardinality(In(p) \ {t})
        BY <3>1, <2>5, FS_Subset
    <3>3. Len(q.tree.ids) = Cardinality(In(q)) /\ Cardinality(In(q)) \in Nat
        BY <2>4, PoolFacts
    <3> QED
        BY <3>1, <3>2, <3>3, <2>2
  <2>9. qe = <<q, Remember(pe[2], t)>>
    BY <2>1 DEF q
  <2>10. qe[1] = q /\ qe[2] = Remember(pe[2], t) /\ qe \in PoolSet \X Seq(Tx)
    BY <2>7, <2>9
  <2> QED
    BY <2>4, <2>6, <2>8, <2>10 DEF Pairs
<1> QED
    BY <1>2, <1>3

\* The loop ends with a pool within the limit: every round that it is not
\* takes at least one transaction out.
LEMMA EnsureSizeLimitKeeps ==
    ASSUME NEW p, PoolOK(p), NEW ev, EvictedOK(p, ev), NEW pe \in EnsureSizeLimit(p, ev)
    PROVE  /\ PoolOK(pe[1])
           /\ EvictedOK(pe[1], pe[2])
           /\ Shrunk(pe[1], p)
           /\ ~ OverLimit(pe[1])
<1> DEFINE N == Cardinality(Tx)
           step(Q) == UNION {Round(x) : x \in Q}
           X == SUBSET Pairs
           F == [k \in 1..N |-> [Q \in X |-> step(Q)]]
           Eq(f) == f = [k \in 0..N |-> IF k = 0 THEN {<<p, ev>>} ELSE step(f[k - 1])]
           run == CHOOSE f : Eq(f)
<1>1. EnsureSizeLimit(p, ev) = run[N]
    BY DEF EnsureSizeLimit, Round
<1>2. N \in Nat
    BY ConstantFacts, FS_CardinalityType
<1>3. \A Q \in X : step(Q) \in X
    BY RoundKeeps
<1>4. <<p, ev>> \in Pairs
  <2>1. p \in PoolSet /\ ev \in Seq(Tx)
    BY DEF PoolOK, EvictedOK
  <2>2. <<p, ev>> \in PoolSet \X Seq(Tx) /\ <<p, ev>>[1] = p /\ <<p, ev>>[2] = ev
    BY <2>1
  <2> QED
    BY <2>2 DEF Pairs
<1>5. ASSUME NEW Q, NEW y \in step(Q)
      PROVE  \E x \in Q : y \in Round(x)
    BY <1>5
<1> HIDE DEF step, N
<1>6. \E f : Eq(f)
  <2>1. F \in [1..N -> [X -> X]] /\ {<<p, ev>>} \in X
    BY <1>3, <1>4
  <2>2. PICK f : IsFold(N, X, {<<p, ev>>}, F, f)
    <3> HIDE DEF X, F
    <3> QED
        BY <2>1, <1>2, FoldExists
  <2>3. /\ f \in [0..N -> X]
        /\ f[0] = {<<p, ev>>}
        /\ \A k \in 1..N : f[k] = F[k][f[k - 1]]
    BY <2>2 DEF IsFold
  <2>4. ASSUME NEW k \in 1..N
        PROVE  f[k] = step(f[k - 1])
    <3>1. k - 1 \in 0..N
        BY <1>2
    <3>2. f[k - 1] \in X
        BY <3>1, <2>3
    <3> HIDE DEF X
    <3> QED
        BY <3>2, <2>3
  <2>5. Eq(f)
    <3> HIDE DEF X
    <3>1. \A k \in 0..N : f[k] = IF k = 0 THEN {<<p, ev>>} ELSE step(f[k - 1])
        BY <2>3, <2>4, <1>2
    <3>2. f = [k \in 0..N |-> f[k]]
        BY <2>3
    <3> QED
        BY <3>1, <3>2
  <2> HIDE DEF Eq
  <2> QED
    BY <2>5
<1>7. Eq(run)
  <2> HIDE DEF Eq
  <2> QED
    BY <1>6
<1> HIDE DEF run
<1>8. run[0] = {<<p, ev>>} /\ \A k \in 0..N : k + 1 <= N => run[k + 1] = step(run[k])
  <2> DEFINE v(k) == IF k = 0 THEN {<<p, ev>>} ELSE step(run[k - 1])
  <2>1. run = [k \in 0..N |-> v(k)]
    BY <1>7
  <2>2. v(0) = {<<p, ev>>} /\ 0 \in 0..N
    BY <1>2
  <2>3. ASSUME NEW k \in 0..N, k + 1 <= N
        PROVE  k + 1 \in 0..N /\ v(k + 1) = step(run[k])
    <3>1. k + 1 \in 0..N /\ k + 1 # 0 /\ k + 1 - 1 = k
        BY <1>2, <2>3
    <3> QED
        BY <3>1
  <2> HIDE DEF v
  <2> QED
    BY <2>1, <2>2, <2>3
<1> DEFINE Ok(x, k) == /\ x \in Pairs
                       /\ Shrunk(x[1], p)
                       /\ ~ OverLimit(x[1]) \/ Len(x[1].tree.ids) <= N - k
           A == {k \in Nat : k <= N => \A x \in run[k] : Ok(x, k)}
<1>9. 0 \in A
  <2>1. Shrunk(p, p)
    BY DEF Shrunk
  <2>2. Len(p.tree.ids) <= N
    <3>1. Len(p.tree.ids) = Cardinality(In(p)) /\ In(p) \in SUBSET Tx
        BY PoolFacts
    <3> QED
        BY <3>1, ConstantFacts, FS_Subset DEF N
  <2>3. <<p, ev>>[1] = p /\ N - 0 = N
    BY <1>2
  <2>4. Ok(<<p, ev>>, 0)
    BY <2>1, <2>2, <2>3, <1>4
  <2> HIDE DEF Ok
  <2> QED
    BY <2>4, <1>8
<1>10. ASSUME NEW k \in Nat, k \in A
       PROVE  k + 1 \in A
  <2> SUFFICES ASSUME k + 1 <= N, NEW y \in run[k + 1]
               PROVE  Ok(y, k + 1)
    OBVIOUS
  <2>1. k \in 0..N /\ run[k + 1] = step(run[k]) /\ \A x \in run[k] : Ok(x, k)
    BY <1>2, <1>8, <1>10
  <2>2. PICK x \in run[k] : y \in Round(x)
    BY <2>1, <1>5
  <2>3. Ok(x, k)
    BY <2>1, <2>2
  <2>4. /\ y \in Pairs
        /\ Shrunk(y[1], x[1])
        /\ OverLimit(x[1]) => Len(y[1].tree.ids) < Len(x[1].tree.ids)
    BY <2>2, <2>3, RoundKeeps
  <2>5. Shrunk(y[1], p)
    BY <2>3, <2>4, ShrunkTrans
  <2>6. CASE ~ OverLimit(x[1])
    <3>1. y = x
        BY <2>2, <2>6 DEF Round
    <3> QED
        BY <3>1, <2>4, <2>5, <2>6
  <2>7. CASE OverLimit(x[1])
    <3>1. Len(y[1].tree.ids) \in Nat /\ Len(x[1].tree.ids) \in Nat
        BY <2>3, <2>4, PoolFacts DEF Pairs
    <3>2. Len(y[1].tree.ids) <= N - (k + 1)
      <4> DEFINE ly == Len(y[1].tree.ids)
                 lx == Len(x[1].tree.ids)
      <4>1. ly \in Nat /\ lx \in Nat /\ ly < lx /\ lx <= N - k
        BY <3>1, <2>3, <2>4, <2>7
      <4> HIDE DEF ly, lx, N
      <4>2. ly <= N - (k + 1)
        BY ONLY <4>1, <1>2, k \in Nat
      <4> QED
        BY <4>2 DEF ly
    <3> QED
        BY <3>2, <2>4, <2>5
  <2> QED
    BY <2>6, <2>7
<1>11. Ok(pe, N)
  <2>1. Nat \subseteq A
    <3> HIDE DEF A
    <3> QED
        BY <1>9, <1>10, NatSetInduction
  <2>2. \A x \in run[N] : Ok(x, N)
    BY <2>1, <1>2
  <2> HIDE DEF Ok
  <2> QED
    BY <2>2, <1>1
<1>12. ~ OverLimit(pe[1])
  <2>1. CASE Len(pe[1].tree.ids) <= N - N
    <3>1. Len(pe[1].tree.ids) \in Nat
        BY <1>11, PoolFacts DEF Pairs
    <3> QED
        BY <3>1, <2>1, <1>2, ConstantFacts DEF OverLimit
  <2> QED
    BY <2>1, <1>11
<1> QED
    BY <1>11, <1>12 DEF Pairs

-----------------------------------------------------------------------------
(* Acceptance *)

LEMMA VerdictOk ==
    ASSUME NEW p, NEW ev, NEW ch, NEW height, NEW t,
           Verdict(p, ev, ch, height, t) = "ok"
    PROVE  /\ t \notin ToSet(ev)
           /\ ~ IsExpiredTx(t, height + 1)
           /\ t \notin In(p)
           /\ ~ ConflictsWithPool(p, t)
           /\ Prevouts[t] \subseteq In(p) \cup Unspent(ch)
           /\ HaveShieldedRequirements(ch, t)
           /\ Mature(ch, t, Len(ch) + 1)
           /\ Branch[t] = EpochAt(height + 1)
<1> DEFINE a == IsRecentlyEvicted(ev, t)
           b == IsExpiredTx(t, height + 1) \/ IsExpiredTx(t, height + 1 + ExpiringSoon)
           c == t \in In(p)
           d == ConflictsWithPool(p, t)
           e == t \in Unspent(ch)
           f == \E o \in Prevouts[t] : ~ (o \in In(p) \/ o \in Unspent(ch))
           g == ~ HaveShieldedRequirements(ch, t)
           h == ~ Mature(ch, t, Len(ch) + 1)
           i == Branch[t] # EpochAt(height + 1)
<1>1. "ok" = CASE a -> "rejected" [] b -> "rejected" [] c -> "rejected" [] d -> "rejected"
               [] e -> "rejected" [] f -> "missing" [] g -> "rejected" [] h -> "rejected"
               [] i -> "rejected" [] OTHER -> "ok"
    BY DEF Verdict
<1>2. ~ a /\ ~ b /\ ~ c /\ ~ d /\ ~ f /\ ~ g /\ ~ h /\ ~ i
  <2> HIDE DEF a, b, c, d, e, f, g, h, i
  <2> QED
    BY ONLY <1>1
<1> QED
    BY <1>2 DEF IsRecentlyEvicted

LEMMA EpochFacts ==
    ASSUME NEW h
    PROVE  EpochAt(h) \in {0, 1}
    BY DEF EpochAt

\* An accepted transaction joins the pool, and so do those already there, but
\* for what the limit evicts, with all that depends on it.
LEMMA AcceptedKeeps ==
    ASSUME NEW p, PoolOK(p), NEW ev, EvictedOK(p, ev), NEW ch, NEW height, NEW t \in Tx,
           Verdict(p, ev, ch, height, t) = "ok",
           NEW pe \in Accepted(p, ev, height, t)
    PROVE  /\ PoolOK(pe[1])
           /\ EvictedOK(pe[1], pe[2])
           /\ ~ OverLimit(pe[1])
           /\ In(pe[1]) \subseteq In(p) \cup {t}
           /\ \A u \in In(pe[1]) : Prevouts[u] \cap (In(p) \cup {t}) \subseteq In(pe[1])
           /\ \A u \in In(pe[1]) : u \in In(p) => pe[1].mapTx[u] = p.mapTx[u]
           /\ t \in In(pe[1]) => pe[1].mapTx[t] = EpochAt(height + 1)
<1> DEFINE q == addUnchecked(p, t, EpochAt(height + 1))
<1>1. t \notin ToSet(ev) /\ t \notin In(p) /\ ~ ConflictsWithPool(p, t)
    BY VerdictOk
<1>2. /\ PoolOK(q)
      /\ In(q) = In(p) \cup {t}
      /\ q.mapTx[t] = EpochAt(height + 1)
      /\ \A u \in In(p) : q.mapTx[u] = p.mapTx[u]
    BY <1>1, AddUnchecked, EpochFacts
<1>3. pe \in EnsureSizeLimit(q, ev)
    BY DEF Accepted
<1> HIDE DEF q
<1>4. EvictedOK(q, ev)
    BY <1>1, <1>2 DEF EvictedOK
<1>5. PoolOK(pe[1]) /\ EvictedOK(pe[1], pe[2]) /\ Shrunk(pe[1], q) /\ ~ OverLimit(pe[1])
    BY <1>2, <1>3, <1>4, EnsureSizeLimitKeeps
<1> QED
    BY <1>1, <1>2, <1>5 DEF Shrunk

\* A pool that loses transactions stays within the limit.
LEMMA ShrunkWithinLimit ==
    ASSUME NEW p, NEW q, PoolOK(p), PoolOK(q), In(q) \subseteq In(p), ~ OverLimit(p)
    PROVE  ~ OverLimit(q)
<1>1. Len(p.tree.ids) = Cardinality(In(p)) /\ Len(q.tree.ids) = Cardinality(In(q))
    BY PoolFacts
<1>2. IsFiniteSet(In(p)) /\ Cardinality(In(p)) \in Nat /\ Cardinality(In(q)) \in Nat
    BY PoolFacts
<1>3. Cardinality(In(q)) <= Cardinality(In(p))
    BY <1>2, FS_Subset
<1> DEFINE lp == Len(p.tree.ids)
           lq == Len(q.tree.ids)
<1>4. lp \in Nat /\ lq \in Nat /\ lq <= lp /\ ~ (lp > Capacity)
    BY <1>1, <1>2, <1>3 DEF OverLimit
<1> HIDE DEF lp, lq
<1>5. ~ (lq > Capacity)
    BY ONLY <1>4, ConstantFacts
<1> QED
    BY <1>5 DEF lq, OverLimit

-----------------------------------------------------------------------------
(* The chain *)

Blocks == [cb : Coinbases, tx : Tx \cup {NoTx}, root : SUBSET (Tx \cup {NoTx})]

\* Every coinbase is one of the first n and occurs once; what a transaction of
\* the chain spends is below it.
ChainOK(ch, n) ==
    /\ ch \in Seq(Blocks)
    /\ \A k \in DOMAIN ch : \E i \in 1 .. n : ch[k].cb = Coinbase[i]
    /\ \A j, k \in DOMAIN ch : ch[j].cb = ch[k].cb => j = k
    /\ \A k \in DOMAIN ch : ch[k].tx # NoTx =>
          \A o \in Prevouts[ch[k].tx] :
              \E j \in DOMAIN ch : j < k /\ (o = ch[j].cb \/ o = ch[j].tx)

LEMMA CoinbaseFacts ==
    /\ Coinbase \in Seq(Coinbases)
    /\ \A i \in 1 .. Len(Coinbase) : Coinbase[i] \in Coinbases
    /\ \A i, j \in 1 .. Len(Coinbase) : Coinbase[i] = Coinbase[j] => i = j
    /\ Len(Coinbase) \in Nat /\ Len(Coinbase) > Maturity + MaxSteps
    BY MempoolAssumption DEF Coinbases, IsInjective, ToSet

\* The mined transactions' inputs are mined.
LEMMA MinedSpends ==
    ASSUME NEW ch, NEW n, ChainOK(ch, n)
    PROVE  /\ MinedIn(ch) \subseteq Tx \cup Coinbases
           /\ \A x \in MinedIn(ch) \cap Tx : Prevouts[x] \subseteq MinedIn(ch)
           /\ \A o \in MinedIn(ch) \cap Coinbases : \E k \in DOMAIN ch : o = ch[k].cb
<1>1. \A k \in DOMAIN ch : ch[k] \in Blocks
    BY DEF ChainOK
<1>2. \A k \in DOMAIN ch : ch[k].cb \in Coinbases /\ ch[k].tx \in Tx \cup {NoTx}
    BY <1>1 DEF Blocks
<1>3. MinedIn(ch) \subseteq Tx \cup Coinbases
    BY <1>2 DEF MinedIn, ToSet
<1>4. ASSUME NEW x \in MinedIn(ch) \cap Tx, NEW o \in Prevouts[x]
      PROVE  o \in MinedIn(ch)
  <2>1. PICK k \in DOMAIN ch : x = ch[k].tx
    BY <1>2, ConstantFacts DEF MinedIn, ToSet
  <2>2. PICK j \in DOMAIN ch : o = ch[j].cb \/ o = ch[j].tx
    <3>1. ch[k].tx # NoTx /\ o \in Prevouts[ch[k].tx]
        BY <2>1, ConstantFacts
    <3>2. \E j \in DOMAIN ch : j < k /\ (o = ch[j].cb \/ o = ch[j].tx)
        BY <3>1 DEF ChainOK
    <3> QED
        BY <3>2
  <2>3. o # NoTx
    BY <1>4, ConstantFacts
  <2> QED
    BY <2>2, <2>3 DEF MinedIn, ToSet
<1>5. ASSUME NEW o \in MinedIn(ch) \cap Coinbases
      PROVE  \E k \in DOMAIN ch : o = ch[k].cb
    BY <1>2, ConstantFacts DEF MinedIn, ToSet
<1> QED
    BY <1>3, <1>4, <1>5

\* The height of a coinbase is where it is.
LEMMA CoinbaseHeightIs ==
    ASSUME NEW ch, NEW n, ChainOK(ch, n), NEW k \in DOMAIN ch
    PROVE  CoinbaseHeight(ch, ch[k].cb) = k
    BY DEF ChainOK, CoinbaseHeight

\* The chain without its last block.
LEMMA ChainBack ==
    ASSUME NEW chn, NEW n, ChainOK(chn, n), NEW m \in Nat, n \in Nat, n <= m,
           Len(chn) > 1
    PROVE  LET ch == SubSeq(chn, 1, Len(chn) - 1)
               b == chn[Len(chn)]
           IN  /\ ChainOK(ch, m)
               /\ Len(ch) = Len(chn) - 1
               /\ b \in Blocks
               /\ MinedIn(ch) \subseteq MinedIn(chn)
               /\ MinedIn(chn) \subseteq MinedIn(ch) \cup {b.cb} \cup ({b.tx} \ {NoTx})
               /\ Roots(chn) = Roots(ch) \cup {b.root}
               /\ BestAnchor(ch) \in Roots(ch)
<1> DEFINE ch == SubSeq(chn, 1, Len(chn) - 1)
           b == chn[Len(chn)]
           l == Len(chn) - 1
<1>1. chn \in Seq(Blocks) /\ Len(chn) \in Nat /\ DOMAIN chn = 1 .. Len(chn)
    BY DEF ChainOK
<1>2. /\ l \in Nat /\ l >= 1 /\ Len(chn) = l + 1
      /\ DOMAIN chn = (1 .. l) \cup {l + 1}
    BY <1>1
<1>3. ch \in Seq(Blocks) /\ Len(ch) = l /\ DOMAIN ch = 1 .. l /\ \A k \in 1 .. l : ch[k] = chn[k]
    BY <1>1, <1>2
<1>4. b = chn[l + 1] /\ b \in Blocks
    BY <1>1, <1>2
<1>5. ChainOK(ch, m)
  <2>1. \A k \in 1 .. l : \E i \in 1 .. m : ch[k].cb = Coinbase[i]
    <3> SUFFICES ASSUME NEW k \in 1 .. l
                 PROVE  \E i \in 1 .. m : ch[k].cb = Coinbase[i]
        OBVIOUS
    <3>1. PICK i \in 1 .. n : chn[k].cb = Coinbase[i]
        BY <1>2 DEF ChainOK
    <3>2. i \in 1 .. m
        BY <3>1
    <3> QED
        BY <3>1, <3>2, <1>3
  <2>2. \A j, k \in 1 .. l : ch[j].cb = ch[k].cb => j = k
    BY <1>2, <1>3 DEF ChainOK
  <2>3. ASSUME NEW k \in 1 .. l, ch[k].tx # NoTx, NEW o \in Prevouts[ch[k].tx]
        PROVE  \E j \in 1 .. l : j < k /\ (o = ch[j].cb \/ o = ch[j].tx)
    <3>1. chn[k].tx # NoTx /\ o \in Prevouts[chn[k].tx] /\ k \in DOMAIN chn
        BY <2>3, <1>2, <1>3
    <3>2. PICK j \in DOMAIN chn : j < k /\ (o = chn[j].cb \/ o = chn[j].tx)
        BY <3>1 DEF ChainOK
    <3>3. j \in 1 .. l
        BY <3>2, <1>1, <1>2
    <3> QED
        BY <3>2, <3>3, <1>3
  <2> HIDE DEF ch, l
  <2>4. DOMAIN ch = 1 .. l /\ ch \in Seq(Blocks)
    BY <1>3
  <2>5. \A k \in DOMAIN ch : \E i \in 1 .. m : ch[k].cb = Coinbase[i]
    BY <2>1, <2>4
  <2>6. \A j, k \in DOMAIN ch : ch[j].cb = ch[k].cb => j = k
    BY <2>2, <2>4
  <2>7. \A k \in DOMAIN ch : ch[k].tx # NoTx =>
          \A o \in Prevouts[ch[k].tx] :
              \E j \in DOMAIN ch : j < k /\ (o = ch[j].cb \/ o = ch[j].tx)
    <3> SUFFICES ASSUME NEW k \in DOMAIN ch, ch[k].tx # NoTx, NEW o \in Prevouts[ch[k].tx]
                 PROVE  \E j \in DOMAIN ch : j < k /\ (o = ch[j].cb \/ o = ch[j].tx)
        OBVIOUS
    <3>1. k \in 1 .. l
        BY <2>4
    <3> QED
        BY <2>3, <2>4, <3>1
  <2> QED
    BY <2>4, <2>5, <2>6, <2>7 DEF ChainOK
<1> HIDE DEF ch, b, l
<1>6. ToSet(chn) = ToSet(ch) \cup {b}
    BY <1>2, <1>3, <1>4 DEF ToSet
<1>7. /\ MinedIn(ch) \subseteq MinedIn(chn)
      /\ MinedIn(chn) \subseteq MinedIn(ch) \cup {b.cb} \cup ({b.tx} \ {NoTx})
    BY <1>6 DEF MinedIn
<1>8. Roots(chn) = Roots(ch) \cup {b.root}
    BY <1>6 DEF Roots
<1>9. BestAnchor(ch) \in Roots(ch)
  <2>1. l \in 1 .. l /\ ch # <<>>
    BY <1>2, <1>3
  <2>2. ch[l] \in ToSet(ch)
    BY <2>1, <1>3 DEF ToSet
  <2> QED
    BY <2>1, <2>2, <1>3 DEF BestAnchor, Roots
<1>10. Len(ch) = Len(chn) - 1
    BY <1>3 DEF l
<1> QED
    BY <1>4, <1>5, <1>7, <1>8, <1>9, <1>10 DEF ch, b

\* What was mined below the last block and is unspent on top of it was
\* unspent before; and fewer nullifiers were spent.
LEMMA UnspentBack ==
    ASSUME NEW ch, NEW chn, MinedIn(ch) \subseteq MinedIn(chn)
    PROVE  /\ Unspent(chn) \cap MinedIn(ch) \subseteq Unspent(ch)
           /\ NullifierSet(ch) \subseteq NullifierSet(chn)
    BY DEF Unspent, NullifierSet

\* The chain with one more block, of a coinbase that is new.
LEMMA ChainForward ==
    ASSUME NEW ch, NEW n \in Nat, ChainOK(ch, n), n + 1 <= Len(Coinbase),
           NEW t \in Tx \cup {NoTx}, t # NoTx => Prevouts[t] \subseteq MinedIn(ch),
           NEW root \in SUBSET (Tx \cup {NoTx})
    PROVE  LET b == [cb |-> Coinbase[n + 1], tx |-> t, root |-> root]
               chn == Append(ch, b)
           IN  /\ ChainOK(chn, n + 1)
               /\ Len(chn) = Len(ch) + 1
               /\ MinedIn(chn) = MinedIn(ch) \cup {b.cb} \cup ({t} \ {NoTx})
               /\ b.cb \in Coinbases /\ b.cb \notin MinedIn(ch)
               /\ Roots(ch) \subseteq Roots(chn)
               /\ \A o \in MinedIn(ch) \cap Coinbases :
                     /\ CoinbaseHeight(chn, o) = CoinbaseHeight(ch, o)
                     /\ CoinbaseHeight(ch, o) \in Nat
<1> DEFINE b == [cb |-> Coinbase[n + 1], tx |-> t, root |-> root]
           chn == Append(ch, b)
           l == Len(ch)
<1>1. ch \in Seq(Blocks) /\ l \in Nat /\ DOMAIN ch = 1 .. l
    BY DEF ChainOK
<1>2. b \in Blocks /\ b.cb = Coinbase[n + 1] /\ b.tx = t /\ b.cb \in Coinbases
    BY CoinbaseFacts DEF Blocks
<1> HIDE DEF b
<1>3. /\ chn \in Seq(Blocks) /\ Len(chn) = l + 1 /\ DOMAIN chn = (1 .. l) \cup {l + 1}
      /\ \A k \in 1 .. l : chn[k] = ch[k]
      /\ chn[l + 1] = b
    BY <1>1, <1>2
<1> HIDE DEF chn, l
<1>4. \A k \in 1 .. l : ch[k].cb # b.cb
  <2> SUFFICES ASSUME NEW k \in 1 .. l, ch[k].cb = b.cb
               PROVE  FALSE
    OBVIOUS
  <2>1. PICK i \in 1 .. n : ch[k].cb = Coinbase[i]
    BY <1>1 DEF ChainOK
  <2>2. i \in 1 .. Len(Coinbase) /\ n + 1 \in 1 .. Len(Coinbase) /\ i # n + 1
    BY CoinbaseFacts
  <2> QED
    BY <2>1, <2>2, <1>2, CoinbaseFacts
<1>5. \A o \in MinedIn(ch) \cap Coinbases : \E k \in 1 .. l : o = ch[k].cb
    BY <1>1, MinedSpends
<1>6. b.cb \notin MinedIn(ch)
    BY <1>2, <1>4, <1>5
<1>7. ToSet(chn) = ToSet(ch) \cup {b}
    BY <1>1, <1>3 DEF ToSet
<1>8. MinedIn(chn) = MinedIn(ch) \cup {b.cb} \cup ({t} \ {NoTx})
    BY <1>2, <1>7 DEF MinedIn
<1>9. Roots(ch) \subseteq Roots(chn)
    BY <1>7 DEF Roots
<1>10. ChainOK(chn, n + 1)
  <2>1. ASSUME NEW k \in DOMAIN chn
        PROVE  \E i \in 1 .. n + 1 : chn[k].cb = Coinbase[i]
    <3>1. CASE k \in 1 .. l
      <4>1. PICK i \in 1 .. n : ch[k].cb = Coinbase[i]
        BY <3>1, <1>1 DEF ChainOK
      <4>2. i \in 1 .. n + 1
        OBVIOUS
      <4> QED
        BY <4>1, <4>2, <3>1, <1>3
    <3>2. CASE k = l + 1
      <4>1. n + 1 \in 1 .. n + 1
        OBVIOUS
      <4> QED
        BY <4>1, <3>2, <1>2, <1>3
    <3> QED
        BY <3>1, <3>2, <1>3, <2>1
  <2>2. ASSUME NEW j \in DOMAIN chn, NEW k \in DOMAIN chn, chn[j].cb = chn[k].cb
        PROVE  j = k
    <3>1. CASE j \in 1 .. l /\ k \in 1 .. l
        BY <3>1, <2>2, <1>1, <1>3 DEF ChainOK
    <3>2. CASE j = l + 1 /\ k \in 1 .. l
        BY <3>2, <2>2, <1>3, <1>4
    <3>3. CASE k = l + 1 /\ j \in 1 .. l
        BY <3>3, <2>2, <1>3, <1>4
    <3> QED
        BY <3>1, <3>2, <3>3, <1>3, <2>2
  <2>3. ASSUME NEW k \in DOMAIN chn, chn[k].tx # NoTx, NEW o \in Prevouts[chn[k].tx]
        PROVE  \E j \in DOMAIN chn : j < k /\ (o = chn[j].cb \/ o = chn[j].tx)
    <3>1. CASE k \in 1 .. l
      <4>1. ch[k].tx # NoTx /\ o \in Prevouts[ch[k].tx] /\ k \in DOMAIN ch
        BY <3>1, <2>3, <1>1, <1>3
      <4>2. PICK j \in DOMAIN ch : j < k /\ (o = ch[j].cb \/ o = ch[j].tx)
        BY <4>1 DEF ChainOK
      <4> QED
        BY <4>2, <1>1, <1>3
    <3>2. CASE k = l + 1
      <4>1. o \in MinedIn(ch)
        BY <3>2, <2>3, <1>2, <1>3
      <4>2. PICK j \in DOMAIN ch : o = ch[j].cb \/ o = ch[j].tx
        BY <4>1 DEF MinedIn, ToSet
      <4>3. j \in 1 .. l /\ j < k
        BY <4>2, <3>2, <1>1
      <4> QED
        BY <4>2, <4>3, <1>3
    <3> QED
        BY <3>1, <3>2, <1>3, <2>3
  <2> QED
    BY <2>1, <2>2, <2>3, <1>3 DEF ChainOK
<1>11. ASSUME NEW o \in MinedIn(ch) \cap Coinbases
       PROVE  CoinbaseHeight(chn, o) = CoinbaseHeight(ch, o) /\ CoinbaseHeight(ch, o) \in Nat
  <2>1. PICK k \in 1 .. l : o = ch[k].cb
    BY <1>5, <1>11
  <2>2. CoinbaseHeight(ch, ch[k].cb) = k
    BY <1>1, CoinbaseHeightIs
  <2>3. CoinbaseHeight(chn, chn[k].cb) = k
    BY <1>3, <1>10, CoinbaseHeightIs
  <2>4. chn[k] = ch[k] /\ k \in Nat
    BY <1>1, <1>3
  <2> QED
    BY <2>1, <2>2, <2>3, <2>4
<1> QED
    BY <1>2, <1>3, <1>6, <1>8, <1>9, <1>10, <1>11 DEF chn, b, l

-----------------------------------------------------------------------------
(* What the pool's transactions fit *)

Fit(p, ch) ==
    \A t \in In(p) : /\ Prevouts[t] \subseteq In(p) \cup Unspent(ch)
                     /\ HaveShieldedRequirements(ch, t)
                     /\ ~ IsExpiredTx(t, Len(ch))
                     /\ Branch[t] = p.mapTx[t]

AllMature(p, ch) == \A t \in In(p) : Mature(ch, t, Len(ch) + 1)

OfEpoch(p, ch) == \A t \in In(p) : p.mapTx[t] = EpochAt(Len(ch) + 1)

LEMMA FitShrunk ==
    ASSUME NEW p, NEW q, NEW ch, Shrunk(q, p)
    PROVE  /\ Fit(p, ch) => Fit(q, ch)
           /\ AllMature(p, ch) => AllMature(q, ch)
           /\ OfEpoch(p, ch) => OfEpoch(q, ch)
    BY DEF Shrunk, Fit, AllMature, OfEpoch

\* What is not expired at a height is not expired below it.
LEMMA ExpiryMonotone ==
    ASSUME NEW t \in Tx, NEW h \in Int, NEW g \in Int, g <= h, ~ IsExpiredTx(t, h)
    PROVE  ~ IsExpiredTx(t, g)
    BY ConstantFacts DEF IsExpiredTx

\* A transaction accepted on the tip.
LEMMA AcceptedFits ==
    ASSUME NEW p, PoolOK(p), NEW ev, EvictedOK(p, ev), NEW ch, Len(ch) \in Nat, NEW t \in Tx,
           Verdict(p, ev, ch, Len(ch), t) = "ok",
           NEW pe \in Accepted(p, ev, Len(ch), t),
           Fit(p, ch), AllMature(p, ch), OfEpoch(p, ch)
    PROVE  Fit(pe[1], ch) /\ AllMature(pe[1], ch) /\ OfEpoch(pe[1], ch)
<1> DEFINE q == pe[1]
<1>1. /\ In(q) \subseteq In(p) \cup {t}
      /\ \A u \in In(q) : Prevouts[u] \cap (In(p) \cup {t}) \subseteq In(q)
      /\ \A u \in In(q) : u \in In(p) => q.mapTx[u] = p.mapTx[u]
      /\ t \in In(q) => q.mapTx[t] = EpochAt(Len(ch) + 1)
    BY AcceptedKeeps
<1> HIDE DEF q
<1>2. /\ Prevouts[t] \subseteq In(p) \cup Unspent(ch)
      /\ HaveShieldedRequirements(ch, t)
      /\ Mature(ch, t, Len(ch) + 1)
      /\ Branch[t] = EpochAt(Len(ch) + 1)
      /\ ~ IsExpiredTx(t, Len(ch) + 1)
    BY VerdictOk
<1>3. ~ IsExpiredTx(t, Len(ch))
    BY <1>2, ExpiryMonotone
<1>4. AllMature(q, ch) /\ OfEpoch(q, ch)
    BY <1>1, <1>2 DEF AllMature, OfEpoch
<1>5. Fit(q, ch)
  <2> SUFFICES ASSUME NEW u \in In(q)
               PROVE  /\ Prevouts[u] \subseteq In(q) \cup Unspent(ch)
                      /\ HaveShieldedRequirements(ch, u)
                      /\ ~ IsExpiredTx(u, Len(ch))
                      /\ Branch[u] = q.mapTx[u]
    BY DEF Fit
  <2>1. CASE u \in In(p)
    <3>1. /\ Prevouts[u] \subseteq In(p) \cup Unspent(ch)
          /\ HaveShieldedRequirements(ch, u)
          /\ ~ IsExpiredTx(u, Len(ch))
          /\ Branch[u] = p.mapTx[u]
        BY <2>1 DEF Fit
    <3> QED
        BY <3>1, <1>1, <2>1
  <2>2. CASE u = t
    BY <2>2, <1>1, <1>2, <1>3
  <2> QED
    BY <2>1, <2>2, <1>1
<1> QED
    BY <1>4, <1>5 DEF q

\* What DisconnectTip leaves of the pool, before the anchor that goes: the
\* coinbase's descendants are out, and the block's transaction is back or its
\* descendants are out as well.
LEMMA ResurrectedFits ==
    ASSUME NEW p, NEW r, NEW chn, NEW n \in Nat, ChainOK(chn, n), Len(chn) > 1,
           PoolOK(p), Fit(p, chn),
           LET b == chn[Len(chn)]
               ch == SubSeq(chn, 1, Len(chn) - 1)
           IN  \A u \in In(r) :
                  \/ /\ u \in In(p) /\ r.mapTx[u] = p.mapTx[u]
                     /\ Prevouts[u] \cap In(p) \subseteq In(r)
                     /\ b.cb \notin Prevouts[u]
                     /\ b.tx # NoTx /\ b.tx \in Prevouts[u] => b.tx \in In(r)
                  \/ /\ Prevouts[u] \subseteq In(r) \cup Unspent(ch)
                     /\ HaveShieldedRequirements(ch, u)
                     /\ ~ IsExpiredTx(u, Len(ch))
                     /\ Branch[u] = r.mapTx[u]
    PROVE  LET b == chn[Len(chn)]
               ch == SubSeq(chn, 1, Len(chn) - 1)
           IN  \A u \in In(r) : /\ Prevouts[u] \subseteq In(r) \cup Unspent(ch)
                                /\ Nullifiers[u] # {} => Anchor[u] \in Roots(ch) \cup {b.root}
                                /\ Nullifiers[u] \cap NullifierSet(ch) = {}
                                /\ ~ IsExpiredTx(u, Len(ch))
                                /\ Branch[u] = r.mapTx[u]
<1> DEFINE b == chn[Len(chn)]
           ch == SubSeq(chn, 1, Len(chn) - 1)
<1>1. /\ Len(ch) = Len(chn) - 1
      /\ MinedIn(ch) \subseteq MinedIn(chn)
      /\ MinedIn(chn) \subseteq MinedIn(ch) \cup {b.cb} \cup ({b.tx} \ {NoTx})
      /\ Roots(chn) = Roots(ch) \cup {b.root}
    BY ChainBack
<1>2. /\ Unspent(chn) \cap MinedIn(ch) \subseteq Unspent(ch)
      /\ NullifierSet(ch) \subseteq NullifierSet(chn)
    BY <1>1, UnspentBack
<1>3. Unspent(chn) \subseteq MinedIn(chn)
    BY DEF Unspent
<1>4. Len(chn) \in Nat /\ Len(ch) \in Int /\ Len(ch) <= Len(chn)
  <2>1. chn \in Seq(Blocks)
    BY DEF ChainOK
  <2> QED
    BY <2>1, <1>1
<1>5. In(p) \subseteq Tx
    BY PoolFacts
<1> DEFINE Old(u) == /\ u \in In(p) /\ r.mapTx[u] = p.mapTx[u]
                     /\ Prevouts[u] \cap In(p) \subseteq In(r)
                     /\ b.cb \notin Prevouts[u]
                     /\ b.tx # NoTx /\ b.tx \in Prevouts[u] => b.tx \in In(r)
           New(u) == /\ Prevouts[u] \subseteq In(r) \cup Unspent(ch)
                     /\ HaveShieldedRequirements(ch, u)
                     /\ ~ IsExpiredTx(u, Len(ch))
                     /\ Branch[u] = r.mapTx[u]
<1>6. ASSUME NEW u \in In(r)
      PROVE  Old(u) \/ New(u)
    BY <1>6
<1> HIDE DEF ch, b
<1>7. ASSUME NEW u \in In(r)
      PROVE  /\ Prevouts[u] \subseteq In(r) \cup Unspent(ch)
             /\ Nullifiers[u] # {} => Anchor[u] \in Roots(ch) \cup {b.root}
             /\ Nullifiers[u] \cap NullifierSet(ch) = {}
             /\ ~ IsExpiredTx(u, Len(ch))
             /\ Branch[u] = r.mapTx[u]
  <2>1. CASE Old(u)
    <3>1. /\ Prevouts[u] \subseteq In(p) \cup Unspent(chn)
          /\ HaveShieldedRequirements(chn, u)
          /\ ~ IsExpiredTx(u, Len(chn))
          /\ Branch[u] = p.mapTx[u]
        BY <2>1 DEF Fit
    <3>2. Prevouts[u] \subseteq In(r) \cup Unspent(ch)
        BY <3>1, <1>1, <1>2, <1>3, <2>1
    <3>3. /\ Nullifiers[u] # {} => Anchor[u] \in Roots(ch) \cup {b.root}
          /\ Nullifiers[u] \cap NullifierSet(ch) = {}
        BY <3>1, <1>1, <1>2 DEF HaveShieldedRequirements
    <3>4. ~ IsExpiredTx(u, Len(ch))
        BY <3>1, <1>4, <1>5, <2>1, ExpiryMonotone
    <3> QED
        BY <3>1, <3>2, <3>3, <3>4, <2>1
  <2>2. CASE New(u)
    BY <2>2 DEF HaveShieldedRequirements
  <2> QED
    BY <2>1, <2>2, <1>6
<1> QED
    BY <1>7 DEF ch, b

\* The pools, and lists of evicted transactions, DisconnectTip can lead to
\* before it looks at the anchors.
Back(p, ev, chn) ==
    LET b == chn[Len(chn)]
        ch == SubSeq(chn, 1, Len(chn) - 1)
        q == removeRecursive(p, {b.cb})
        refused == {<<removeRecursive(q, {b.tx}), ev>>}
    IN  IF b.tx = NoTx THEN {<<q, ev>>}
        ELSE IF Verdict(q, ev, ch, Len(chn), b.tx) = "ok"
        THEN Accepted(q, ev, Len(chn), b.tx) \cup refused
        ELSE refused

LEMMA BackKeeps ==
    ASSUME NEW p, PoolOK(p), NEW ev, EvictedOK(p, ev), ~ OverLimit(p),
           NEW chn, NEW n \in Nat, ChainOK(chn, n), Len(chn) > 1, Fit(p, chn),
           NEW pe \in Back(p, ev, chn)
    PROVE  LET b == chn[Len(chn)]
               ch == SubSeq(chn, 1, Len(chn) - 1)
               r == pe[1]
           IN  /\ PoolOK(r) /\ EvictedOK(r, pe[2]) /\ ~ OverLimit(r)
               /\ \A u \in In(r) : /\ Prevouts[u] \subseteq In(r) \cup Unspent(ch)
                                   /\ Nullifiers[u] # {} => Anchor[u] \in Roots(ch) \cup {b.root}
                                   /\ Nullifiers[u] \cap NullifierSet(ch) = {}
                                   /\ ~ IsExpiredTx(u, Len(ch))
                                   /\ Branch[u] = r.mapTx[u]
<1> DEFINE b == chn[Len(chn)]
           ch == SubSeq(chn, 1, Len(chn) - 1)
           r == pe[1]
           q == removeRecursive(p, {b.cb})
<1>1. /\ b \in Blocks
      /\ Len(ch) = Len(chn) - 1
    BY ChainBack
<1>2. b.tx \in Tx \cup {NoTx} /\ b.cb \in Coinbases
    BY <1>1 DEF Blocks
<1>3. Len(chn) \in Nat /\ Len(chn) + 1 \in Int /\ Len(ch) \in Int /\ Len(ch) <= Len(chn) + 1
  <2>1. chn \in Seq(Blocks)
    BY DEF ChainOK
  <2> QED
    BY <2>1, <1>1
<1>4. PoolOK(q) /\ Shrunk(q, p) /\ \A u \in In(q) : Prevouts[u] \cap {b.cb} = {}
    BY RemoveRecursive
<1>5. \/ b.tx = NoTx /\ pe = <<q, ev>>
      \/ b.tx # NoTx /\ Verdict(q, ev, ch, Len(chn), b.tx) = "ok" /\ pe \in Accepted(q, ev, Len(chn), b.tx)
      \/ b.tx # NoTx /\ pe = <<removeRecursive(q, {b.tx}), ev>>
    BY DEF Back
<1> HIDE DEF q, ch, b
<1>6. EvictedOK(q, ev) /\ ~ OverLimit(q)
    BY <1>4, EvictedShrunk, ShrunkWithinLimit DEF Shrunk
<1> DEFINE Old(u) == /\ u \in In(p) /\ r.mapTx[u] = p.mapTx[u]
                     /\ Prevouts[u] \cap In(p) \subseteq In(r)
                     /\ b.cb \notin Prevouts[u]
                     /\ b.tx # NoTx /\ b.tx \in Prevouts[u] => b.tx \in In(r)
           New(u) == /\ Prevouts[u] \subseteq In(r) \cup Unspent(ch)
                     /\ HaveShieldedRequirements(ch, u)
                     /\ ~ IsExpiredTx(u, Len(ch))
                     /\ Branch[u] = r.mapTx[u]
           Sound == \A u \in In(r) : Old(u) \/ New(u)
<1>7. PoolOK(r) /\ EvictedOK(r, pe[2]) /\ ~ OverLimit(r) /\ Sound
  <2>1. CASE b.tx = NoTx /\ pe = <<q, ev>>
    <3>1. r = q /\ pe[2] = ev
        BY <2>1
    <3> HIDE DEF r
    <3>2. Sound
        BY <3>1, <2>1, <1>4 DEF Shrunk
    <3> QED
        BY <3>1, <3>2, <1>4, <1>6
  <2>2. CASE b.tx # NoTx /\ pe = <<removeRecursive(q, {b.tx}), ev>>
    <3>1. r = removeRecursive(q, {b.tx}) /\ pe[2] = ev
        BY <2>2
    <3>2. PoolOK(r) /\ Shrunk(r, q) /\ \A u \in In(r) : Prevouts[u] \cap {b.tx} = {}
        BY <3>1, <1>4, RemoveRecursive
    <3> HIDE DEF r
    <3>3. EvictedOK(r, ev) /\ ~ OverLimit(r)
        BY <3>2, <1>4, <1>6, EvictedShrunk, ShrunkWithinLimit DEF Shrunk
    <3>4. Sound
        BY <3>2, <1>4 DEF Shrunk
    <3> QED
        BY <3>1, <3>2, <3>3, <3>4
  <2>3. CASE b.tx # NoTx /\ Verdict(q, ev, ch, Len(chn), b.tx) = "ok" /\ pe \in Accepted(q, ev, Len(chn), b.tx)
    <3>1. b.tx \in Tx
        BY <2>3, <1>2
    <3>2. /\ PoolOK(r) /\ EvictedOK(r, pe[2]) /\ ~ OverLimit(r)
          /\ In(r) \subseteq In(q) \cup {b.tx}
          /\ \A u \in In(r) : Prevouts[u] \cap (In(q) \cup {b.tx}) \subseteq In(r)
          /\ \A u \in In(r) : u \in In(q) => r.mapTx[u] = q.mapTx[u]
          /\ b.tx \in In(r) => r.mapTx[b.tx] = EpochAt(Len(chn) + 1)
        BY <3>1, <2>3, <1>4, <1>6, AcceptedKeeps
    <3>3. /\ Prevouts[b.tx] \subseteq In(q) \cup Unspent(ch)
          /\ HaveShieldedRequirements(ch, b.tx)
          /\ ~ IsExpiredTx(b.tx, Len(chn) + 1)
          /\ Branch[b.tx] = EpochAt(Len(chn) + 1)
          /\ b.tx \notin In(q)
        BY <2>3, VerdictOk
    <3>4. ~ IsExpiredTx(b.tx, Len(ch))
        BY <3>1, <3>3, <1>3, ExpiryMonotone
    <3> HIDE DEF r
    <3>5. ASSUME NEW u \in In(r), u \in In(q)
          PROVE  Old(u)
        BY <3>2, <3>5, <1>4 DEF Shrunk
    <3>6. b.tx \in In(r) => New(b.tx)
      <4>1. b.tx \in In(r) => Prevouts[b.tx] \subseteq In(r) \cup Unspent(ch)
        BY <3>2, <3>3
      <4> QED
        BY <4>1, <3>2, <3>3, <3>4
    <3>7. Sound
      <4> HIDE DEF Old, New
      <4> QED
        BY <3>2, <3>5, <3>6
    <3> QED
        BY <3>2, <3>7
  <2> QED
    BY <1>5, <2>1, <2>2, <2>3
<1> HIDE DEF r
<1>8. Sound
    BY <1>7
<1>9. \A u \in In(r) : /\ Prevouts[u] \subseteq In(r) \cup Unspent(ch)
                       /\ Nullifiers[u] # {} => Anchor[u] \in Roots(ch) \cup {b.root}
                       /\ Nullifiers[u] \cap NullifierSet(ch) = {}
                       /\ ~ IsExpiredTx(u, Len(ch))
                       /\ Branch[u] = r.mapTx[u]
    BY <1>8, ResurrectedFits DEF ch, b
<1> QED
    BY <1>7, <1>9 DEF ch, b, r

\* DisconnectTip: what used the anchor that goes leaves, so that the pool fits
\* the chain without the block.
LEMMA DisconnectKeeps ==
    ASSUME NEW p, PoolOK(p), NEW ev, EvictedOK(p, ev), ~ OverLimit(p),
           NEW chn, NEW n \in Nat, ChainOK(chn, n), Len(chn) > 1, Fit(p, chn),
           NEW pe \in Back(p, ev, chn)
    PROVE  LET b == chn[Len(chn)]
               ch == SubSeq(chn, 1, Len(chn) - 1)
               q == removeWithAnchor(pe[1], b.root, BestAnchor(ch))
           IN  PoolOK(q) /\ EvictedOK(q, pe[2]) /\ ~ OverLimit(q) /\ Fit(q, ch)
<1> DEFINE b == chn[Len(chn)]
           ch == SubSeq(chn, 1, Len(chn) - 1)
           r == pe[1]
           S == {t \in In(r) : Nullifiers[t] # {} /\ Anchor[t] = b.root}
           q == removeWithAnchor(r, b.root, BestAnchor(ch))
<1>1. /\ PoolOK(r) /\ EvictedOK(r, pe[2]) /\ ~ OverLimit(r)
      /\ \A u \in In(r) : /\ Prevouts[u] \subseteq In(r) \cup Unspent(ch)
                          /\ Nullifiers[u] # {} => Anchor[u] \in Roots(ch) \cup {b.root}
                          /\ Nullifiers[u] \cap NullifierSet(ch) = {}
                          /\ ~ IsExpiredTx(u, Len(ch))
                          /\ Branch[u] = r.mapTx[u]
    BY BackKeeps
<1>2. BestAnchor(ch) \in Roots(ch)
    BY ChainBack
<1>3. PoolOK(q) /\ Shrunk(q, r) /\ (b.root \in Roots(ch) \/ In(q) \cap S = {})
  <2> HIDE DEF ch, b, r
  <2>1. CASE b.root = BestAnchor(ch)
    <3>1. q = r
        BY <2>1 DEF removeWithAnchor
    <3> QED
        BY <3>1, <2>1, <1>1, <1>2 DEF Shrunk
  <2>2. CASE b.root # BestAnchor(ch)
    <3>1. q = removeRecursive(r, S)
        BY <2>2 DEF removeWithAnchor
    <3>2. PoolOK(removeRecursive(r, S)) /\ Shrunk(removeRecursive(r, S), r) /\ In(removeRecursive(r, S)) \cap S = {}
      <4> HIDE DEF S
      <4> QED
        BY <1>1, RemoveRecursive
    <3> HIDE DEF q, S
    <3> QED
        BY <3>1, <3>2
  <2> QED
    BY <2>1, <2>2
<1> HIDE DEF q, ch, b, r
<1>4. EvictedOK(q, pe[2]) /\ ~ OverLimit(q)
    BY <1>1, <1>3, EvictedShrunk, ShrunkWithinLimit DEF Shrunk
<1>5. Fit(q, ch)
  <2> SUFFICES ASSUME NEW u \in In(q)
               PROVE  /\ Prevouts[u] \subseteq In(q) \cup Unspent(ch)
                      /\ HaveShieldedRequirements(ch, u)
                      /\ ~ IsExpiredTx(u, Len(ch))
                      /\ Branch[u] = q.mapTx[u]
    BY DEF Fit
  <2>1. u \in In(r) /\ Prevouts[u] \cap In(r) \subseteq In(q) /\ q.mapTx[u] = r.mapTx[u]
    BY <1>3 DEF Shrunk
  <2>2. Nullifiers[u] # {} => Anchor[u] \in Roots(ch)
    <3> SUFFICES ASSUME Nullifiers[u] # {}
                 PROVE  Anchor[u] \in Roots(ch)
        OBVIOUS
    <3>1. Anchor[u] \in Roots(ch) \/ Anchor[u] = b.root
        BY <2>1, <1>1
    <3> QED
        BY <3>1, <2>1, <1>3
  <2> QED
    BY <2>1, <2>2, <1>1 DEF HaveShieldedRequirements
<1> QED
    BY <1>3, <1>4, <1>5 DEF q, ch, b, r

\* removeForBlock: the block's transaction leaves without its children, and
\* everything that conflicts with it leaves with its children.
LEMMA RemoveForBlock ==
    ASSUME NEW p, PoolOK(p), NEW t \in Tx
    PROVE  LET r == removeForBlock(p, t)
           IN  /\ PoolOK(r)
               /\ In(r) \subseteq In(p) \ {t}
               /\ \A u \in In(r) : /\ r.mapTx[u] = p.mapTx[u]
                                   /\ Prevouts[u] \cap In(p) \subseteq In(r) \cup {t}
                                   /\ Prevouts[u] \cap Prevouts[t] = {}
                                   /\ Nullifiers[u] \cap Nullifiers[t] = {}
<1> DEFINE q == Without(p, {t})
           C == Conflicting(q, t)
           r == removeRecursive(q, C)
<1>1. removeForBlock(p, t) = r
    BY ConstantFacts DEF removeForBlock
<1>2. PoolOK(q) /\ In(q) = In(p) \ {t} /\ \A u \in In(p) \ {t} : q.mapTx[u] = p.mapTx[u]
    BY WithoutKeeps
<1> HIDE DEF q
<1>3. \A u \in In(q) : (Prevouts[u] \cap Prevouts[t] # {} \/ Nullifiers[u] \cap Nullifiers[t] # {}) => u \in C
  <2> SUFFICES ASSUME NEW u \in In(q)
               PROVE  (Prevouts[u] \cap Prevouts[t] # {} \/ Nullifiers[u] \cap Nullifiers[t] # {}) => u \in C
    OBVIOUS
  <2>1. Agree(q) /\ u # t
    BY <1>2 DEF PoolOK
  <2>2. ASSUME NEW o \in Prevouts[u] \cap Prevouts[t]
        PROVE  u \in C
    <3>1. o \in DOMAIN q.next /\ q.next[o] = u
        BY <2>1 DEF Agree
    <3> QED
        BY <3>1, <2>1 DEF Conflicting
  <2>3. ASSUME NEW o \in Nullifiers[u] \cap Nullifiers[t]
        PROVE  u \in C
    <3>1. o \in DOMAIN q.nf /\ q.nf[o] = u
        BY <2>1 DEF Agree
    <3> QED
        BY <3>1, <2>1 DEF Conflicting
  <2> HIDE DEF C
  <2> QED
    BY <2>2, <2>3
<1> HIDE DEF C
<1>4. PoolOK(r) /\ Shrunk(r, q) /\ In(r) \cap C = {}
    BY <1>2, RemoveRecursive
<1> HIDE DEF r
<1>5. ASSUME NEW u \in In(r)
      PROVE  /\ u \in In(q) /\ u \in In(p) \ {t}
             /\ r.mapTx[u] = p.mapTx[u]
             /\ Prevouts[u] \cap In(p) \subseteq In(r) \cup {t}
             /\ Prevouts[u] \cap Prevouts[t] = {}
             /\ Nullifiers[u] \cap Nullifiers[t] = {}
  <2>1. u \in In(q) /\ Prevouts[u] \cap In(q) \subseteq In(r) /\ r.mapTx[u] = q.mapTx[u] /\ u \notin C
    BY <1>4 DEF Shrunk
  <2> QED
    BY <2>1, <1>2, <1>3
<1> QED
    BY <1>1, <1>4, <1>5

LEMMA MatureIs ==
    ASSUME NEW ch, NEW t, NEW h
    PROVE  Mature(ch, t, h) <=> \A o \in Prevouts[t] \cap Coinbases \cap MinedIn(ch) :
                                   h - CoinbaseHeight(ch, o) >= Maturity
    BY DEF Mature

\* ConnectTip: the pool fits the chain with the block.
LEMMA ConnectKeeps ==
    ASSUME NEW p, PoolOK(p), NEW ev, EvictedOK(p, ev), ~ OverLimit(p),
           NEW ch, NEW n \in Nat, ChainOK(ch, n), n + 1 <= Len(Coinbase), Fit(p, ch),
           NEW t \in Tx \cup {NoTx}, t # NoTx => ValidNext(ch, t),
           NEW root \in SUBSET (Tx \cup {NoTx})
    PROVE  LET chn == Append(ch, [cb |-> Coinbase[n + 1], tx |-> t, root |-> root])
               q == removeExpired(removeForBlock(p, t), Len(ch) + 1)
           IN  /\ PoolOK(q) /\ EvictedOK(q, ev) /\ ~ OverLimit(q)
               /\ ChainOK(chn, n + 1) /\ Len(chn) = Len(ch) + 1
               /\ Fit(q, chn)
               /\ AllMature(p, ch) => AllMature(q, chn)
<1> DEFINE b == [cb |-> Coinbase[n + 1], tx |-> t, root |-> root]
           chn == Append(ch, b)
           r == removeForBlock(p, t)
           S == {u \in In(r) : IsExpiredTx(u, Len(ch) + 1)}
           q == removeRecursive(r, S)
<1>1. Unspent(ch) \subseteq MinedIn(ch)
    BY DEF Unspent
<1>2. t # NoTx => Prevouts[t] \subseteq MinedIn(ch) /\ t \notin MinedIn(ch) /\ t \in Tx
    BY <1>1 DEF ValidNext
<1>3. /\ ChainOK(chn, n + 1)
      /\ Len(chn) = Len(ch) + 1
      /\ MinedIn(chn) = MinedIn(ch) \cup {b.cb} \cup ({t} \ {NoTx})
      /\ b.cb \in Coinbases /\ b.cb \notin MinedIn(ch)
      /\ Roots(ch) \subseteq Roots(chn)
      /\ \A o \in MinedIn(ch) \cap Coinbases :
            /\ CoinbaseHeight(chn, o) = CoinbaseHeight(ch, o)
            /\ CoinbaseHeight(ch, o) \in Nat
    BY <1>2, ChainForward
<1>4. Len(ch) \in Nat
    BY DEF ChainOK
<1> HIDE DEF chn, b
<1>5. MinedIn(chn) \cap Tx = (MinedIn(ch) \cap Tx) \cup ({t} \ {NoTx})
    BY <1>2, <1>3, ConstantFacts
<1>6. \A x \in MinedIn(ch) \cap Tx : Prevouts[x] \subseteq MinedIn(ch)
    BY MinedSpends
<1>7. /\ \A o \in Unspent(ch) : o \in Unspent(chn) \/ (t # NoTx /\ o \in Prevouts[t])
      /\ t # NoTx => t \in Unspent(chn)
      /\ \A k \in NullifierSet(chn) : k \in NullifierSet(ch) \/ (t # NoTx /\ k \in Nullifiers[t])
  <2>1. \A o \in Unspent(ch) : o \in Unspent(chn) \/ (t # NoTx /\ o \in Prevouts[t])
    BY <1>3, <1>5 DEF Unspent
  <2>2. t # NoTx => t \in Unspent(chn)
    BY <1>2, <1>3, <1>5, <1>6 DEF Unspent
  <2>3. \A k \in NullifierSet(chn) : k \in NullifierSet(ch) \/ (t # NoTx /\ k \in Nullifiers[t])
    BY <1>5 DEF NullifierSet
  <2> QED
    BY <2>1, <2>2, <2>3
<1>8. /\ PoolOK(r)
      /\ \A u \in In(r) :
            /\ u \in In(p) /\ r.mapTx[u] = p.mapTx[u]
            /\ Prevouts[u] \cap In(p) \subseteq In(r) \cup ({t} \ {NoTx})
            /\ t # NoTx => Prevouts[u] \cap Prevouts[t] = {} /\ Nullifiers[u] \cap Nullifiers[t] = {}
  <2>1. CASE t = NoTx
    <3>1. r = p
        BY <2>1 DEF removeForBlock
    <3> QED
        BY <3>1, <2>1
  <2>2. CASE t # NoTx
    <3>1. t \in Tx
        BY <2>2
    <3>2. /\ PoolOK(r)
          /\ In(r) \subseteq In(p) \ {t}
          /\ \A u \in In(r) : /\ r.mapTx[u] = p.mapTx[u]
                              /\ Prevouts[u] \cap In(p) \subseteq In(r) \cup {t}
                              /\ Prevouts[u] \cap Prevouts[t] = {}
                              /\ Nullifiers[u] \cap Nullifiers[t] = {}
        BY <3>1, RemoveForBlock
    <3> HIDE DEF r
    <3> QED
        BY <3>2, <2>2
  <2> QED
    BY <2>1, <2>2
<1> HIDE DEF r
<1>9. PoolOK(q) /\ Shrunk(q, r) /\ In(q) \cap S = {}
  <2> HIDE DEF S
  <2> QED
    BY <1>8, RemoveRecursive
<1>10. q = removeExpired(r, Len(ch) + 1)
    BY DEF removeExpired
<1> HIDE DEF q
<1>11. EvictedOK(q, ev) /\ ~ OverLimit(q)
  <2>1. In(q) \subseteq In(p)
    BY <1>8, <1>9 DEF Shrunk
  <2> QED
    BY <2>1, <1>9, EvictedShrunk, ShrunkWithinLimit
<1>12. ASSUME NEW u \in In(q)
       PROVE  /\ u \in In(r) /\ u \in In(p) /\ u \in Tx
              /\ q.mapTx[u] = p.mapTx[u]
              /\ Prevouts[u] \cap In(p) \subseteq In(q) \cup ({t} \ {NoTx})
              /\ ~ IsExpiredTx(u, Len(ch) + 1)
  <2>1. u \in In(r) /\ q.mapTx[u] = r.mapTx[u] /\ Prevouts[u] \cap In(r) \subseteq In(q)
    BY <1>9 DEF Shrunk
  <2>2. u \in In(p) /\ In(p) \subseteq Tx
    BY <2>1, <1>8, PoolFacts
  <2> QED
    BY <2>1, <2>2, <1>8, <1>9
<1>13. Fit(q, chn)
  <2> SUFFICES ASSUME NEW u \in In(q)
               PROVE  /\ Prevouts[u] \subseteq In(q) \cup Unspent(chn)
                      /\ HaveShieldedRequirements(chn, u)
                      /\ ~ IsExpiredTx(u, Len(chn))
                      /\ Branch[u] = q.mapTx[u]
    BY DEF Fit
  <2>1. /\ Prevouts[u] \subseteq In(p) \cup Unspent(ch)
        /\ HaveShieldedRequirements(ch, u)
        /\ Branch[u] = p.mapTx[u]
    BY <1>12 DEF Fit
  <2>2. t # NoTx => Prevouts[u] \cap Prevouts[t] = {} /\ Nullifiers[u] \cap Nullifiers[t] = {}
    BY <1>8, <1>12
  <2>3. Prevouts[u] \subseteq In(q) \cup Unspent(chn)
    BY <2>1, <2>2, <1>7, <1>12
  <2>4. HaveShieldedRequirements(chn, u)
    BY <2>1, <2>2, <1>3, <1>7 DEF HaveShieldedRequirements
  <2> QED
    BY <2>1, <2>3, <2>4, <1>3, <1>12
<1>14. AllMature(p, ch) => AllMature(q, chn)
  <2> DEFINE g == Len(ch) + 1
             h == Len(chn) + 1
  <2>1. g \in Nat /\ h = g + 1
    BY <1>3, <1>4
  <2> SUFFICES ASSUME \A x \in In(p) : Mature(ch, x, g), NEW u \in In(q)
               PROVE  Mature(chn, u, h)
    BY DEF AllMature
  <2> HIDE DEF g, h
  <2>2. ASSUME NEW o \in Prevouts[u] \cap Coinbases \cap MinedIn(chn)
        PROVE  h - CoinbaseHeight(chn, o) >= Maturity
    <3>1. In(p) \subseteq Tx /\ Prevouts[u] \subseteq In(p) \cup Unspent(ch)
        BY <1>12, PoolFacts DEF Fit
    <3>2. o \in Prevouts[u] \cap Coinbases \cap MinedIn(ch)
        BY <3>1, <1>1, <2>2, ConstantFacts
    <3>3. g - CoinbaseHeight(ch, o) >= Maturity
        BY <3>2, <1>12, MatureIs
    <3>4. CoinbaseHeight(chn, o) = CoinbaseHeight(ch, o) /\ CoinbaseHeight(ch, o) \in Nat
        BY <3>2, <1>3
    <3> QED
        BY <3>3, <3>4, <2>1, ConstantFacts
  <2> QED
    BY <2>2, MatureIs
<1> QED
    BY <1>3, <1>9, <1>10, <1>11, <1>13, <1>14 DEF chn, b, r

\* removeForReorg leaves only spends of coinbases that are mature.
LEMMA ReorgKeeps ==
    ASSUME NEW p, PoolOK(p), NEW ch, NEW n, ChainOK(ch, n), NEW nonFinal
    PROVE  LET q == removeForReorg(p, ch, nonFinal)
           IN  PoolOK(q) /\ Shrunk(q, p) /\ AllMature(q, ch)
<1> DEFINE Late(o) == Len(ch) + 1 - CoinbaseHeight(ch, o) < Maturity
           Bad(t) == /\ Prevouts[t] \cap Coinbases # {}
                     /\ \E o \in Prevouts[t] \ In(p) :
                           o \notin Unspent(ch) \/ (o \in Coinbases /\ Late(o))
           S == nonFinal \cup {t \in In(p) : Bad(t)}
           q == removeRecursive(p, S)
<1>1. removeForReorg(p, ch, nonFinal) = q
    BY DEF removeForReorg
<1>2. PoolOK(q) /\ Shrunk(q, p) /\ In(q) \cap S = {}
  <2> HIDE DEF S
  <2> QED
    BY RemoveRecursive
<1> HIDE DEF q
<1> DEFINE g == Len(ch) + 1
<1>3. g \in Nat
    BY DEF ChainOK
<1>4. ASSUME NEW u \in In(q), NEW o \in Prevouts[u] \cap Coinbases \cap MinedIn(ch)
      PROVE  g - CoinbaseHeight(ch, o) >= Maturity
  <2>1. PICK k \in DOMAIN ch : o = ch[k].cb
    BY MinedSpends
  <2>2. CoinbaseHeight(ch, o) = k
    BY <2>1, CoinbaseHeightIs
  <2>3. k \in Nat
    <3>1. ch \in Seq(Blocks)
        BY DEF ChainOK
    <3> QED
        BY <3>1
  <2>4. ~ Late(o)
    <3>1. o \notin In(p)
        BY ConstantFacts, PoolFacts
    <3> HIDE DEF Late
    <3> QED
        BY <3>1, <1>2 DEF Shrunk
  <2> HIDE DEF g
  <2>5. ~ (g - k < Maturity)
    BY <2>2, <2>4 DEF g
  <2> QED
    BY <2>2, <2>3, <2>5, <1>3, ConstantFacts
<1>5. \A u \in In(q) : Mature(ch, u, g)
  <2> HIDE DEF g
  <2> QED
    BY <1>4, MatureIs
<1> QED
    BY <1>1, <1>2, <1>5 DEF AllMature

LEMMA BranchKeeps ==
    ASSUME NEW p, PoolOK(p), NEW ch
    PROVE  LET q == removeWithoutBranchId(p, ch)
           IN  PoolOK(q) /\ Shrunk(q, p) /\ OfEpoch(q, ch)
<1> DEFINE S == {t \in In(p) : p.mapTx[t] # EpochAt(Len(ch) + 1)}
           q == removeRecursive(p, S)
<1>1. removeWithoutBranchId(p, ch) = q
    BY DEF removeWithoutBranchId
<1>2. PoolOK(q) /\ Shrunk(q, p) /\ In(q) \cap S = {}
  <2> HIDE DEF S
  <2> QED
    BY RemoveRecursive
<1> HIDE DEF q
<1>3. OfEpoch(q, ch)
    BY <1>2 DEF OfEpoch, Shrunk
<1> QED
    BY <1>1, <1>2, <1>3

-----------------------------------------------------------------------------
(* The inductive invariant *)

ChainInv ==
    /\ ChainOK(chain, Maturity + 1 + steps)
    /\ Height \in 1 .. MaxHeight
    /\ steps \in 0 .. MaxSteps

PoolInv == PoolOK(Pool) /\ ~ OverLimit(Pool) /\ EvictedOK(Pool, evicted)

\* Maturity is what blocks disconnected put in doubt, the branch what any
\* movement of the tip does, until the end of the step.
FitInv ==
    /\ Fit(Pool, chain)
    /\ busy.phase \in {"none", "forward", "orphans"} => AllMature(Pool, chain)
    /\ busy.phase \in {"none", "orphans"} => OfEpoch(Pool, chain)

BusyInv ==
    /\ busy \in [phase : {"none", "back", "forward", "both", "orphans"}, old : Nat]
    /\ busy.phase = "none" => busy = Idle

OrphanInv ==
    /\ DOMAIN orphans \subseteq Tx
    /\ \A t \in DOMAIN orphans : orphans[t] \in Peers
    /\ OrphansIndexed

\* Work is about orphans there are, and only while they are tried.
WorkInv ==
    /\ work \in [todo : Seq(DOMAIN orphans), erase : SUBSET DOMAIN orphans, bad : SUBSET Peers]
    /\ busy.phase # "orphans" => work = NoWork

MempoolInv == ChainInv /\ PoolInv /\ FitInv /\ BusyInv /\ OrphanInv /\ WorkInv

LEMMA PoolChanged ==
    ASSUME NEW p, PoolOK(p), SetPool(p)
    PROVE  Pool' = p
<1>1. p \in PoolSet
    BY DEF PoolOK
<1>2. p = [mapTx |-> p.mapTx, next |-> p.next, nf |-> p.nf, tree |-> p.tree]
    BY <1>1 DEF PoolSet
<1>3. Pool' = [mapTx |-> p.mapTx, next |-> p.next, nf |-> p.nf, tree |-> p.tree]
    BY DEF Pool, SetPool
<1> QED
    BY <1>2, <1>3

LEMMA PoolUnchanged ==
    ASSUME UNCHANGED poolVars
    PROVE  Pool' = Pool
    BY DEF poolVars, Pool

LEMMA IdleFacts ==
    /\ Idle.phase = "none"
    /\ Idle \in [phase : {"none", "back", "forward", "both", "orphans"}, old : Nat]
    BY DEF Idle

LEMMA InitMempool == Init => MempoolInv
<1> SUFFICES ASSUME Init
             PROVE  MempoolInv
    OBVIOUS
<1> USE DEF Init
<1>1. ChainInv
  <2> DEFINE m == Maturity + 1
             b(h) == [cb |-> Coinbase[h], tx |-> NoTx, root |-> {}]
  <2>1. m \in Nat /\ m >= 1 /\ m <= MaxHeight /\ m <= Len(Coinbase)
    BY ConstantFacts, CoinbaseFacts, MempoolAssumption
  <2>2. chain = [h \in 1 .. m |-> b(h)] /\ steps = 0
    BY DEF CoinbaseChain
  <2>3. \A h \in 1 .. m : /\ b(h) \in Blocks
                          /\ b(h).cb = Coinbase[h] /\ b(h).tx = NoTx
                          /\ h \in 1 .. Len(Coinbase)
    <3>1. \A h \in 1 .. m : h \in 1 .. Len(Coinbase)
        BY <2>1, CoinbaseFacts
    <3>2. \A h \in 1 .. m : Coinbase[h] \in Coinbases
        BY <3>1, CoinbaseFacts
    <3> QED
        BY <3>1, <3>2 DEF Blocks
  <2> HIDE DEF b, m
  <2>4. chain \in Seq(Blocks) /\ Len(chain) = m /\ DOMAIN chain = 1 .. m
    BY <2>1, <2>2, <2>3
  <2>5. \A h \in 1 .. m : chain[h].cb = Coinbase[h] /\ chain[h].tx = NoTx /\ h \in 1 .. Len(Coinbase)
    BY <2>2, <2>3
  <2>6. ChainOK(chain, m)
    BY <2>4, <2>5, CoinbaseFacts DEF ChainOK
  <2>7. Maturity + 1 + steps = m
    BY <2>1, <2>2, ConstantFacts DEF m
  <2> QED
    BY <2>1, <2>2, <2>4, <2>6, <2>7, ConstantFacts DEF ChainInv, Height
<1>2. PoolOK(Pool) /\ In(Pool) = {}
  <2> DEFINE a == [t \in {} |-> 0]
             e == [o \in {} |-> NoTx]
  <2>1. Pool = [mapTx |-> a, next |-> e, nf |-> e, tree |-> EmptyTree]
    BY DEF Pool
  <2>2. In(Pool) = {}
    BY <2>1 DEF In
  <2>3. DOMAIN a = {} /\ DOMAIN e = {}
    OBVIOUS
  <2>4. a = [t \in DOMAIN a |-> a[t]] /\ e = [o \in DOMAIN e |-> e[o]]
    BY <2>3
  <2> HIDE DEF a, e
  <2>5. Agree([mapTx |-> a, next |-> e, nf |-> e, tree |-> EmptyTree])
    BY <2>1, <2>2, <2>3, EmptyTreeGood DEF Agree
  <2>6. PoolOK([mapTx |-> a, next |-> e, nf |-> e, tree |-> EmptyTree])
    BY <2>3, <2>4, <2>5, EmptyTreeGood, PoolIntro
  <2> QED
    BY <2>1, <2>2, <2>6
<1>3. PoolInv
  <2>1. ~ OverLimit(Pool)
    <3>1. Len(Pool.tree.ids) = 0
        BY DEF Pool, EmptyTree
    <3> QED
        BY <3>1, ConstantFacts DEF OverLimit
  <2>2. EvictedOK(Pool, evicted)
    BY <1>2, ConstantFacts DEF EvictedOK, IsInjective
  <2> QED
    BY <1>2, <2>1, <2>2 DEF PoolInv
<1>4. FitInv
    BY <1>2 DEF FitInv, Fit, AllMature, OfEpoch
<1>5. BusyInv
    BY IdleFacts DEF BusyInv
<1>6. OrphanInv
  <2>1. DOMAIN orphans = {} /\ byPrev = {}
    OBVIOUS
  <2>2. Cardinality(DOMAIN orphans) = 0
    BY <2>1, FS_EmptySet
  <2> QED
    BY <2>1, <2>2, ConstantFacts DEF OrphanInv, OrphansIndexed
<1>7. WorkInv
    BY DEF WorkInv, NoWork
<1> QED
    BY <1>1, <1>3, <1>4, <1>5, <1>6, <1>7 DEF MempoolInv

-----------------------------------------------------------------------------
(* One lemma per action *)

LEMMA ChainInvFacts ==
    ASSUME ChainInv
    PROVE  /\ Len(chain) \in Nat
           /\ Maturity + 1 + steps \in Nat
           /\ Maturity + 1 + (steps + 1) = Maturity + 1 + steps + 1
           /\ Maturity + 2 + steps = Maturity + 1 + steps + 1
           /\ steps \in Nat
           /\ steps < MaxSteps => /\ Maturity + 1 + steps + 1 <= Len(Coinbase)
                                  /\ steps + 1 \in 0 .. MaxSteps
<1>1. chain \in Seq(Blocks) /\ steps \in 0 .. MaxSteps
    BY DEF ChainInv, ChainOK
<1> QED
    BY <1>1, ConstantFacts, CoinbaseFacts

\* The orphans, what is being done with them and the step that holds cs_main.
LEMMA WorkKept ==
    ASSUME WorkInv, BusyInv, UNCHANGED work, UNCHANGED orphans,
           busy'.phase # "orphans" => busy.phase # "orphans"
    PROVE  WorkInv'
    BY DEF WorkInv, NoWork

LEMMA OrphansKept ==
    ASSUME OrphanInv, UNCHANGED orphanVars
    PROVE  OrphanInv'
    BY DEF OrphanInv, orphanVars, OrphansIndexed

LEMMA DisconnectTipInv ==
    ASSUME MempoolInv, DisconnectTip
    PROVE  MempoolInv'
<1> DEFINE b == chain[Height]
           ch == SubSeq(chain, 1, Height - 1)
           n == Maturity + 1 + steps
<1>1. ChainInv /\ PoolInv /\ FitInv /\ BusyInv /\ OrphanInv /\ WorkInv
    BY DEF MempoolInv
<1>2. /\ busy.phase \in {"none", "back"}
      /\ steps < MaxSteps /\ Len(chain) > 1
      /\ chain' = ch /\ steps' = steps + 1
      /\ busy' = IF busy = Idle THEN [phase |-> "back", old |-> Height] ELSE busy
      /\ UNCHANGED orphanVars /\ UNCHANGED work
    BY DEF DisconnectTip, Height
<1>3. PICK pe \in Back(Pool, evicted, chain) :
          SetPool(removeWithAnchor(pe[1], b.root, BestAnchor(ch))) /\ evicted' = pe[2]
    BY DEF DisconnectTip, Back, Height, HeightInDisconnect
<1> DEFINE q == removeWithAnchor(pe[1], b.root, BestAnchor(ch))
<1>4. /\ n \in Nat /\ Len(chain) \in Nat /\ n + 1 \in Nat /\ n <= n + 1
      /\ Maturity + 1 + (steps + 1) = n + 1
      /\ steps + 1 \in 0 .. MaxSteps
    BY <1>1, <1>2, ChainInvFacts
<1>5. ChainOK(chain, n) /\ Height \in 1 .. MaxHeight
    BY <1>1 DEF ChainInv
<1>6. PoolOK(Pool) /\ ~ OverLimit(Pool) /\ EvictedOK(Pool, evicted) /\ Fit(Pool, chain)
    BY <1>1 DEF PoolInv, FitInv
<1> HIDE DEF n
<1>7. PoolOK(q) /\ EvictedOK(q, pe[2]) /\ ~ OverLimit(q) /\ Fit(q, ch)
    BY <1>2, <1>4, <1>5, <1>6, DisconnectKeeps DEF Height
<1>8. ChainOK(ch, n + 1) /\ Len(ch) = Len(chain) - 1
    BY <1>2, <1>4, <1>5, ChainBack DEF Height
<1> HIDE DEF q, ch, b
<1>9. Pool' = q
    BY <1>3, <1>7, PoolChanged DEF q
<1>10. busy' \in [phase : {"none", "back", "forward", "both", "orphans"}, old : Nat] /\ busy'.phase = "back"
  <2>1. CASE busy = Idle
    <3>1. Height \in Nat /\ busy' = [phase |-> "back", old |-> Height]
        BY <2>1, <1>2, <1>4 DEF Height
    <3> QED
        BY <3>1
  <2>2. CASE busy # Idle
    <3>1. busy' = busy
        BY <2>2, <1>2
    <3> QED
        BY <3>1, <2>2, <1>1, <1>2 DEF BusyInv
  <2> QED
    BY <2>1, <2>2
<1>11. ChainInv'
  <2>1. Len(ch) \in 1 .. MaxHeight
    BY <1>2, <1>4, <1>5, <1>8, ConstantFacts DEF Height
  <2>2. Maturity + 1 + steps' = n + 1
    BY <1>2, <1>4
  <2> QED
    BY <2>1, <2>2, <1>2, <1>4, <1>8 DEF ChainInv, Height
<1>12. PoolInv'
    BY <1>3, <1>7, <1>9 DEF PoolInv
<1>13. FitInv'
    BY <1>2, <1>7, <1>9, <1>10 DEF FitInv
<1>14. BusyInv'
    BY <1>10 DEF BusyInv
<1>15. OrphanInv' /\ WorkInv'
  <2>1. UNCHANGED orphans
    BY <1>2 DEF orphanVars
  <2> QED
    BY <2>1, <1>1, <1>2, <1>10, OrphansKept, WorkKept
<1> QED
    BY <1>11, <1>12, <1>13, <1>14, <1>15 DEF MempoolInv

LEMMA ConnectTipInv ==
    ASSUME MempoolInv, NEW t \in Tx \cup {NoTx}, ConnectTip(t)
    PROVE  MempoolInv'
<1> DEFINE n == Maturity + 1 + steps
           root == BestAnchor(chain) \cup ({t} \cap Shielded)
           chn == Append(chain, [cb |-> Coinbase[n + 1], tx |-> t, root |-> root])
           q == removeExpired(removeForBlock(Pool, t), Len(chain) + 1)
<1>1. ChainInv /\ PoolInv /\ FitInv /\ BusyInv /\ OrphanInv /\ WorkInv
    BY DEF MempoolInv
<1>2. /\ n \in Nat /\ Len(chain) \in Nat
      /\ Maturity + 1 + (steps + 1) = n + 1
      /\ Maturity + 2 + steps = n + 1
      /\ steps < MaxSteps => n + 1 <= Len(Coinbase) /\ steps + 1 \in 0 .. MaxSteps
    BY <1>1, ChainInvFacts
<1>3. /\ busy.phase \in {"none", "back", "both"}
      /\ steps < MaxSteps /\ Len(chain) < MaxHeight
      /\ t # NoTx => ValidNext(chain, t)
      /\ chain' = chn
      /\ SetPool(q)
      /\ busy' = IF busy = Idle THEN [phase |-> "forward", old |-> Height]
                 ELSE [busy EXCEPT !.phase = "both"]
      /\ steps' = steps + 1
      /\ UNCHANGED evicted /\ UNCHANGED orphanVars /\ UNCHANGED work
    BY <1>2 DEF ConnectTip, Height
<1>4. ChainOK(chain, n) /\ Height \in 1 .. MaxHeight
    BY <1>1 DEF ChainInv
<1>5. PoolOK(Pool) /\ ~ OverLimit(Pool) /\ EvictedOK(Pool, evicted) /\ Fit(Pool, chain)
    BY <1>1 DEF PoolInv, FitInv
<1> HIDE DEF n
<1>6. root \in SUBSET (Tx \cup {NoTx})
  <2>1. chain \in Seq(Blocks)
    BY <1>4 DEF ChainOK
  <2>2. chain # <<>> => chain[Len(chain)] \in Blocks
    BY <2>1
  <2>3. BestAnchor(chain) \in SUBSET (Tx \cup {NoTx})
    BY <2>2 DEF BestAnchor, Blocks
  <2> QED
    BY <2>3
<1> HIDE DEF root
<1>7. /\ PoolOK(q) /\ EvictedOK(q, evicted) /\ ~ OverLimit(q)
      /\ ChainOK(chn, n + 1) /\ Len(chn) = Len(chain) + 1
      /\ Fit(q, chn)
      /\ AllMature(Pool, chain) => AllMature(q, chn)
    BY <1>2, <1>3, <1>4, <1>5, <1>6, ConnectKeeps
<1> HIDE DEF q, chn
<1>8. Pool' = q
    BY <1>3, <1>7, PoolChanged
<1>9. /\ busy' \in [phase : {"none", "back", "forward", "both", "orphans"}, old : Nat]
      /\ busy'.phase \in {"forward", "both"}
      /\ busy'.phase = "forward" => busy.phase = "none"
  <2>1. CASE busy = Idle
    <3>1. Height \in Nat /\ busy' = [phase |-> "forward", old |-> Height]
        BY <2>1, <1>3, <1>2 DEF Height
    <3> QED
        BY <3>1, <2>1, IdleFacts
  <2>2. CASE busy # Idle
    <3>1. busy' = [busy EXCEPT !.phase = "both"]
        BY <2>2, <1>3
    <3>2. busy' \in [phase : {"none", "back", "forward", "both", "orphans"}, old : Nat] /\ busy'.phase = "both"
        BY <3>1, <1>1 DEF BusyInv
    <3> QED
        BY <3>2
  <2> QED
    BY <2>1, <2>2
<1>10. ChainInv'
  <2>1. Len(chn) \in 1 .. MaxHeight
    BY <1>2, <1>3, <1>7, ConstantFacts
  <2>2. Maturity + 1 + steps' = n + 1
    BY <1>2, <1>3
  <2> QED
    BY <2>1, <2>2, <1>2, <1>3, <1>7 DEF ChainInv, Height
<1>11. PoolInv'
    BY <1>3, <1>7, <1>8 DEF PoolInv
<1>12. FitInv'
  <2>1. busy'.phase \in {"none", "forward", "orphans"} => AllMature(Pool, chain)
    BY <1>1, <1>9 DEF FitInv
  <2> QED
    BY <2>1, <1>3, <1>7, <1>8, <1>9 DEF FitInv
<1>13. BusyInv'
    BY <1>9 DEF BusyInv
<1>14. OrphanInv' /\ WorkInv'
  <2>1. UNCHANGED orphans /\ busy'.phase # "orphans" /\ busy.phase # "orphans"
    BY <1>3, <1>9 DEF orphanVars
  <2> QED
    BY <2>1, <1>1, <1>3, OrphansKept, WorkKept
<1> QED
    BY <1>10, <1>11, <1>12, <1>13, <1>14 DEF MempoolInv

LEMMA EndStepInv ==
    ASSUME MempoolInv, EndStep
    PROVE  MempoolInv'
<1>0. PICK nonFinal : SetPool(removeWithoutBranchId(
                          IF busy.phase = "forward" THEN Pool
                          ELSE removeForReorg(Pool, chain, nonFinal), chain))
    BY DEF EndStep
<1> DEFINE p == IF busy.phase = "forward" THEN Pool ELSE removeForReorg(Pool, chain, nonFinal)
           q == removeWithoutBranchId(p, chain)
<1>1. ChainInv /\ PoolInv /\ FitInv /\ BusyInv /\ OrphanInv /\ WorkInv
    BY DEF MempoolInv
<1>2. /\ busy.phase \in {"back", "forward", "both"}
      /\ SetPool(q) /\ busy' = Idle
      /\ UNCHANGED chain /\ UNCHANGED evicted /\ UNCHANGED orphanVars /\ UNCHANGED work /\ UNCHANGED steps
    BY <1>0 DEF EndStep
<1>3. PoolOK(Pool) /\ ~ OverLimit(Pool) /\ EvictedOK(Pool, evicted) /\ Fit(Pool, chain)
    BY <1>1 DEF PoolInv, FitInv
<1>4. ChainOK(chain, Maturity + 1 + steps)
    BY <1>1 DEF ChainInv
<1>5. PoolOK(p) /\ Shrunk(p, Pool) /\ AllMature(p, chain)
  <2>1. CASE busy.phase = "forward"
    <3>1. p = Pool
        BY <2>1
    <3>2. Shrunk(Pool, Pool)
        BY DEF Shrunk
    <3> QED
        BY <3>1, <3>2, <2>1, <1>1, <1>3 DEF FitInv
  <2>2. CASE busy.phase # "forward"
    <3>1. p = removeForReorg(Pool, chain, nonFinal)
        BY <2>2
    <3> HIDE DEF p
    <3> QED
        BY <3>1, <1>3, <1>4, ReorgKeeps
  <2> QED
    BY <2>1, <2>2
<1> HIDE DEF p
<1>6. PoolOK(q) /\ Shrunk(q, p) /\ OfEpoch(q, chain)
    BY <1>5, BranchKeeps
<1> HIDE DEF q
<1>7. Shrunk(q, Pool)
    BY <1>5, <1>6, ShrunkTrans
<1>8. Fit(q, chain) /\ AllMature(q, chain)
    BY <1>3, <1>5, <1>6, <1>7, FitShrunk
<1>9. EvictedOK(q, evicted) /\ ~ OverLimit(q)
    BY <1>3, <1>6, <1>7, EvictedShrunk, ShrunkWithinLimit DEF Shrunk
<1>10. Pool' = q
    BY <1>2, <1>6, PoolChanged
<1>11. ChainInv'
    BY <1>1, <1>2 DEF ChainInv, Height
<1>12. PoolInv'
    BY <1>2, <1>6, <1>9, <1>10 DEF PoolInv
<1>13. FitInv'
    BY <1>2, <1>6, <1>8, <1>10 DEF FitInv
<1>14. BusyInv'
    BY <1>2, IdleFacts DEF BusyInv
<1>15. OrphanInv' /\ WorkInv'
  <2>1. UNCHANGED orphans /\ busy'.phase # "orphans" /\ busy.phase # "orphans"
    BY <1>2, IdleFacts DEF orphanVars
  <2> QED
    BY <2>1, <1>1, <1>2, OrphansKept, WorkKept
<1> QED
    BY <1>11, <1>12, <1>13, <1>14, <1>15 DEF MempoolInv

LEMMA OrphansOfFacts ==
    ASSUME OrphanInv, NEW t, NEW todo \in OrphansOf(t)
    PROVE  todo \in Seq(DOMAIN orphans)
<1> DEFINE S == {e[2] : e \in {x \in byPrev : x[1] = t}}
<1>1. S \subseteq DOMAIN orphans
    BY DEF OrphanInv, OrphansIndexed
<1>2. IsFiniteSet(S) /\ Cardinality(S) \in Nat
  <2>1. S \subseteq Tx
    BY <1>1 DEF OrphanInv
  <2> HIDE DEF S
  <2> QED
    BY <2>1, ConstantFacts, FS_Subset, FS_CardinalityType
<1>3. todo \in [1 .. Cardinality(S) -> S]
    BY DEF OrphansOf, SetToSeqs
<1> HIDE DEF S
<1> QED
    BY <1>1, <1>2, <1>3

LEMMA NoWorkFacts ==
    ASSUME NEW D
    PROVE  NoWork \in [todo : Seq(D), erase : SUBSET D, bad : SUBSET Peers]
    BY DEF NoWork

\* The part of the invariant that an acceptance on the tip keeps, from a
\* message or from the orphans.
LEMMA AcceptedInv ==
    ASSUME ChainInv, PoolInv, FitInv, busy.phase \in {"none", "orphans"},
           NEW t \in Tx, Verdict(Pool, evicted, chain, Height, t) = "ok",
           NEW pe \in Accepted(Pool, evicted, Height, t),
           SetPool(pe[1]), evicted' = pe[2],
           UNCHANGED chain, UNCHANGED steps
    PROVE  ChainInv' /\ PoolInv' /\ FitInv'
<1>1. PoolOK(Pool) /\ ~ OverLimit(Pool) /\ EvictedOK(Pool, evicted) /\ Fit(Pool, chain)
    BY DEF PoolInv, FitInv
<1>2. AllMature(Pool, chain) /\ OfEpoch(Pool, chain)
    BY DEF FitInv
<1>3. Len(chain) \in Nat
    BY ChainInvFacts
<1>4. Fit(pe[1], chain) /\ AllMature(pe[1], chain) /\ OfEpoch(pe[1], chain)
    BY <1>1, <1>2, <1>3, AcceptedFits DEF Height
<1>5. PoolOK(pe[1]) /\ EvictedOK(pe[1], pe[2]) /\ ~ OverLimit(pe[1])
    BY <1>1, AcceptedKeeps
<1>6. Pool' = pe[1]
    BY <1>5, PoolChanged
<1>7. ChainInv'
    BY DEF ChainInv, Height
<1>8. PoolInv'
    BY <1>5, <1>6 DEF PoolInv
<1>9. FitInv'
    BY <1>4, <1>6 DEF FitInv
<1> QED
    BY <1>7, <1>8, <1>9

\* The part of the invariant that is kept when the pool and the chain are.
LEMMA PoolKeptInv ==
    ASSUME ChainInv, PoolInv, FitInv, UNCHANGED poolVars, UNCHANGED evicted,
           UNCHANGED chain, UNCHANGED steps,
           busy'.phase \in {"none", "orphans"} => busy.phase \in {"none", "orphans"},
           busy'.phase = "forward" => busy.phase = "forward"
    PROVE  ChainInv' /\ PoolInv' /\ FitInv'
<1>1. Pool' = Pool
    BY PoolUnchanged
<1>2. ChainInv'
    BY DEF ChainInv, Height
<1>3. PoolInv'
    BY <1>1 DEF PoolInv
<1>4. FitInv'
    BY <1>1 DEF FitInv
<1> QED
    BY <1>2, <1>3, <1>4

LEMMA TxAcceptedInv ==
    ASSUME MempoolInv, NEW t \in Tx, TxAccepted(t)
    PROVE  MempoolInv'
<1>1. ChainInv /\ PoolInv /\ FitInv /\ BusyInv /\ OrphanInv /\ WorkInv
    BY DEF MempoolInv
<1>2. /\ busy = Idle /\ busy' = [phase |-> "orphans", old |-> Height]
      /\ Verdict(Pool, evicted, chain, Height, t) = "ok"
      /\ UNCHANGED chain /\ UNCHANGED orphanVars /\ UNCHANGED steps
    BY DEF TxAccepted
<1>3. PICK pe \in Accepted(Pool, evicted, Height, t) : SetPool(pe[1]) /\ evicted' = pe[2]
    BY DEF TxAccepted
<1>4. PICK todo \in OrphansOf(t) : work' = [NoWork EXCEPT !.todo = todo]
    BY DEF TxAccepted
<1>5. ChainInv' /\ PoolInv' /\ FitInv'
    BY <1>1, <1>2, <1>3, IdleFacts, AcceptedInv
<1>6. BusyInv'
  <2>1. Height \in Nat
    BY <1>1, ChainInvFacts DEF Height
  <2> QED
    BY <2>1, <1>2 DEF BusyInv
<1>7. OrphanInv'
    BY <1>1, <1>2, OrphansKept
<1>8. WorkInv'
  <2>1. todo \in Seq(DOMAIN orphans)
    BY <1>1, <1>4, OrphansOfFacts
  <2>2. work' \in [todo : Seq(DOMAIN orphans), erase : SUBSET DOMAIN orphans, bad : SUBSET Peers]
    BY <2>1, <1>4 DEF NoWork
  <2>3. orphans' = orphans
    BY <1>2 DEF orphanVars
  <2> QED
    BY <2>2, <2>3, <1>2 DEF WorkInv
<1> QED
    BY <1>5, <1>6, <1>7, <1>8 DEF MempoolInv

LEMMA TryOrphanInv ==
    ASSUME MempoolInv, TryOrphan
    PROVE  MempoolInv'
<1> DEFINE o == Head(work.todo)
           rest == Tail(work.todo)
           D == DOMAIN orphans
           WorkSet == [todo : Seq(D), erase : SUBSET D, bad : SUBSET Peers]
<1>1. ChainInv /\ PoolInv /\ FitInv /\ BusyInv /\ OrphanInv /\ WorkInv
    BY DEF MempoolInv
<1>2. /\ busy.phase = "orphans" /\ work.todo # <<>>
      /\ UNCHANGED chain /\ UNCHANGED orphanVars /\ UNCHANGED busy /\ UNCHANGED steps
    BY DEF TryOrphan
<1>3. work \in WorkSet
    BY <1>1 DEF WorkInv
<1>4. /\ work.todo \in Seq(D) /\ work.erase \in SUBSET D /\ work.bad \in SUBSET Peers
      /\ work = [todo |-> work.todo, erase |-> work.erase, bad |-> work.bad]
    BY <1>3
<1>5. o \in D /\ rest \in Seq(D)
    BY <1>2, <1>4
<1>6. o \in Tx /\ orphans[o] \in Peers
    BY <1>1, <1>5 DEF OrphanInv
<1>7. \/ work' = [work EXCEPT !.todo = rest] /\ UNCHANGED <<poolVars, evicted>>
      \/ /\ Verdict(Pool, evicted, chain, Height, o) = "ok"
         /\ \E pe \in Accepted(Pool, evicted, Height, o) : SetPool(pe[1]) /\ evicted' = pe[2]
         /\ \E more \in OrphansOf(o) :
               work' = [todo |-> rest \o more, erase |-> work.erase \cup {o}, bad |-> work.bad]
      \/ /\ \E bad \in {{}, {orphans[o]}} :
               work' = [todo |-> rest, erase |-> work.erase \cup {o}, bad |-> work.bad \cup bad]
         /\ UNCHANGED <<poolVars, evicted>>
    BY DEF TryOrphan
<1> HIDE DEF o, rest, D
<1>8. ChainInv' /\ PoolInv' /\ FitInv' /\ work' \in WorkSet
  <2>1. CASE work' = [work EXCEPT !.todo = rest] /\ UNCHANGED <<poolVars, evicted>>
    <3>1. work' \in WorkSet
        BY <2>1, <1>3, <1>5
    <3> QED
        BY <3>1, <2>1, <1>1, <1>2, PoolKeptInv
  <2>2. CASE /\ Verdict(Pool, evicted, chain, Height, o) = "ok"
             /\ \E pe \in Accepted(Pool, evicted, Height, o) : SetPool(pe[1]) /\ evicted' = pe[2]
             /\ \E more \in OrphansOf(o) :
                   work' = [todo |-> rest \o more, erase |-> work.erase \cup {o}, bad |-> work.bad]
    <3>1. PICK pe \in Accepted(Pool, evicted, Height, o) : SetPool(pe[1]) /\ evicted' = pe[2]
        BY <2>2
    <3>2. PICK more \in OrphansOf(o) :
              work' = [todo |-> rest \o more, erase |-> work.erase \cup {o}, bad |-> work.bad]
        BY <2>2
    <3>3. more \in Seq(D)
        BY <3>2, <1>1, OrphansOfFacts DEF D
    <3>4. rest \o more \in Seq(D)
        BY <3>3, <1>5
    <3>5. work' \in WorkSet
        BY <3>2, <3>4, <1>4, <1>5
    <3>6. ChainInv' /\ PoolInv' /\ FitInv'
        BY <3>1, <2>2, <1>1, <1>2, <1>6, AcceptedInv
    <3> QED
        BY <3>5, <3>6
  <2>3. CASE /\ \E bad \in {{}, {orphans[o]}} :
                   work' = [todo |-> rest, erase |-> work.erase \cup {o}, bad |-> work.bad \cup bad]
             /\ UNCHANGED <<poolVars, evicted>>
    <3>1. PICK bad \in {{}, {orphans[o]}} :
              work' = [todo |-> rest, erase |-> work.erase \cup {o}, bad |-> work.bad \cup bad]
        BY <2>3
    <3>2. work.bad \cup bad \in SUBSET Peers
        BY <3>1, <1>4, <1>6
    <3>3. work' \in WorkSet
        BY <3>1, <3>2, <1>4, <1>5
    <3> QED
        BY <3>3, <2>3, <1>1, <1>2, PoolKeptInv
  <2> QED
    BY <1>7, <2>1, <2>2, <2>3
<1>9. BusyInv' /\ OrphanInv'
    BY <1>1, <1>2, OrphansKept DEF BusyInv
<1>10. WorkInv'
  <2>1. orphans' = orphans /\ busy'.phase = "orphans"
    BY <1>2 DEF orphanVars
  <2> QED
    BY <2>1, <1>8 DEF WorkInv, D
<1> QED
    BY <1>8, <1>9, <1>10 DEF MempoolInv

\* The index of the orphans of D.
Index(D) == UNION {Prevouts[o] \X {o} : o \in D}

LEMMA IndexFacts ==
    ASSUME NEW D, NEW K, NEW t
    PROVE  /\ {e \in Index(D) : e[2] \in K} = Index(D \cap K)
           /\ {e \in Index(D) : e[2] \notin K} = Index(D \ K)
           /\ Index(D) \cup {<<o, t>> : o \in Prevouts[t]} = Index(D \cup {t})
<1>2. {e \in Index(D) : e[2] \in K} = Index(D \cap K)
    BY DEF Index
<1>3. {e \in Index(D) : e[2] \notin K} = Index(D \ K)
    BY DEF Index
<1>4. {<<o, t>> : o \in Prevouts[t]} = Prevouts[t] \X {t}
    OBVIOUS
<1>5. Index(D) \cup (Prevouts[t] \X {t}) = Index(D \cup {t})
    BY DEF Index
<1> QED
    BY <1>2, <1>3, <1>4, <1>5

LEMMA EraseKeeps ==
    ASSUME OrphanInv, NEW gone, EraseOrphans(gone)
    PROVE  OrphanInv' /\ DOMAIN orphans' = DOMAIN orphans \ gone
<1> DEFINE D == DOMAIN orphans
<1>1. orphans' = [t \in D \ gone |-> orphans[t]] /\ byPrev' = {e \in byPrev : e[2] \notin gone}
    BY DEF EraseOrphans, IndexWithout
<1>2. D \subseteq Tx /\ (\A t \in D : orphans[t] \in Peers) /\ byPrev = Index(D) /\ Cardinality(D) <= MaxOrphans
    BY DEF OrphanInv, OrphansIndexed, Index
<1> HIDE DEF D
<1>3. DOMAIN orphans' = D \ gone /\ \A t \in D \ gone : orphans'[t] \in Peers
    BY <1>1, <1>2
<1>4. byPrev' = Index(D \ gone)
    BY <1>1, <1>2, IndexFacts
<1>5. Cardinality(D \ gone) <= MaxOrphans
  <2>1. IsFiniteSet(D) /\ Cardinality(D) \in Nat
    BY <1>2, ConstantFacts, FS_Subset, FS_CardinalityType
  <2>2. /\ IsFiniteSet(D \ gone) /\ Cardinality(D \ gone) <= Cardinality(D)
        /\ Cardinality(D \ gone) \in Nat
    BY <2>1, FS_Subset, FS_CardinalityType
  <2> QED
    BY <2>1, <2>2, <1>2, ConstantFacts
<1>6. OrphanInv'
    BY <1>2, <1>3, <1>4, <1>5 DEF OrphanInv, OrphansIndexed, Index
<1> QED
    BY <1>3, <1>6 DEF D

LEMMA OrphansDoneInv ==
    ASSUME MempoolInv, OrphansDone
    PROVE  MempoolInv'
<1>1. ChainInv /\ PoolInv /\ FitInv /\ BusyInv /\ OrphanInv /\ WorkInv
    BY DEF MempoolInv
<1>2. /\ busy.phase = "orphans" /\ EraseOrphans(work.erase)
      /\ busy' = Idle /\ work' = NoWork
      /\ UNCHANGED chain /\ UNCHANGED poolVars /\ UNCHANGED evicted /\ UNCHANGED steps
    BY DEF OrphansDone
<1>3. ChainInv' /\ PoolInv' /\ FitInv'
    BY <1>1, <1>2, IdleFacts, PoolKeptInv
<1>4. BusyInv'
    BY <1>2, IdleFacts DEF BusyInv
<1>5. OrphanInv'
    BY <1>1, <1>2, EraseKeeps
<1>6. WorkInv'
    BY <1>2, NoWorkFacts DEF WorkInv
<1> QED
    BY <1>3, <1>4, <1>5, <1>6 DEF MempoolInv

\* While cs_main is free nothing of the orphans is being worked on.
LEMMA IdleOrphansInv ==
    ASSUME MempoolInv, busy = Idle, OrphanInv',
           UNCHANGED chain, UNCHANGED poolVars, UNCHANGED evicted,
           UNCHANGED busy, UNCHANGED work, UNCHANGED steps
    PROVE  MempoolInv'
<1>1. ChainInv /\ PoolInv /\ FitInv /\ BusyInv /\ OrphanInv /\ WorkInv
    BY DEF MempoolInv
<1>2. ChainInv' /\ PoolInv' /\ FitInv'
    BY <1>1, PoolKeptInv
<1>3. BusyInv'
    BY <1>1 DEF BusyInv
<1>4. work' = NoWork
    BY <1>1, IdleFacts DEF WorkInv
<1>5. WorkInv'
    BY <1>4, NoWorkFacts DEF WorkInv
<1> QED
    BY <1>2, <1>3, <1>5 DEF MempoolInv

LEMMA EraseOrphansForInv ==
    ASSUME MempoolInv, NEW peer, EraseOrphansFor(peer)
    PROVE  MempoolInv'
<1> DEFINE gone == {o \in DOMAIN orphans : orphans[o] = peer}
<1>1. OrphanInv
    BY DEF MempoolInv
<1>2. /\ busy = Idle /\ EraseOrphans(gone)
      /\ UNCHANGED chain /\ UNCHANGED poolVars /\ UNCHANGED evicted
      /\ UNCHANGED busy /\ UNCHANGED work /\ UNCHANGED steps
    BY DEF EraseOrphansFor
<1> HIDE DEF gone
<1>3. OrphanInv'
    BY <1>1, <1>2, EraseKeeps
<1> QED
    BY <1>2, <1>3, IdleOrphansInv

LEMMA TxOrphanedInv ==
    ASSUME MempoolInv, NEW t \in Tx, NEW peer \in Peers, TxOrphaned(t, peer)
    PROVE  MempoolInv'
<1> DEFINE D == DOMAIN orphans
           all == D \cup {t}
           v(o) == IF o = t THEN peer ELSE orphans[o]
           map == [o \in all |-> v(o)]
           prev == byPrev \cup {<<o, t>> : o \in Prevouts[t]}
<1>1. OrphanInv
    BY DEF MempoolInv
<1>2. /\ busy = Idle
      /\ UNCHANGED chain /\ UNCHANGED poolVars /\ UNCHANGED evicted
      /\ UNCHANGED busy /\ UNCHANGED work /\ UNCHANGED steps
    BY DEF TxOrphaned
<1>3. PICK kept \in LimitOrphanTxSize(all) :
          orphans' = [o \in kept |-> map[o]] /\ byPrev' = {e \in prev : e[2] \in kept}
    BY DEF TxOrphaned, AddOrphanTx
<1>4. D \subseteq Tx /\ (\A o \in D : orphans[o] \in Peers) /\ byPrev = Index(D)
    BY <1>1 DEF OrphanInv, OrphansIndexed, Index
<1>5. kept \subseteq all /\ Cardinality(kept) <= MaxOrphans
  <2> HIDE DEF all
  <2>1. CASE Cardinality(all) <= MaxOrphans
    BY <2>1, <1>3 DEF LimitOrphanTxSize
  <2>2. CASE ~ (Cardinality(all) <= MaxOrphans)
    <3>1. kept \in SUBSET all /\ Cardinality(kept) = MaxOrphans
        BY <2>2, <1>3 DEF LimitOrphanTxSize, kSubset
    <3> QED
        BY <3>1, ConstantFacts
  <2> QED
    BY <2>1, <2>2
<1>6. \A o \in all : v(o) \in Peers
    BY <1>4
<1> HIDE DEF v
<1>7. DOMAIN orphans' = kept /\ \A o \in kept : orphans'[o] \in Peers
    BY <1>3, <1>5, <1>6
<1>8. byPrev' = Index(kept)
  <2>1. prev = Index(all)
    BY <1>4, IndexFacts
  <2>2. {e \in Index(all) : e[2] \in kept} = Index(all \cap kept) /\ all \cap kept = kept
    BY <1>5, IndexFacts
  <2> HIDE DEF prev, all
  <2> QED
    BY <2>1, <2>2, <1>3
<1>9. kept \subseteq Tx
    BY <1>4, <1>5
<1> HIDE DEF all, D
<1>10. OrphanInv'
    BY <1>5, <1>7, <1>8, <1>9 DEF OrphanInv, OrphansIndexed, Index
<1> QED
    BY <1>2, <1>10, IdleOrphansInv

LEMMA PruneEvictedInv ==
    ASSUME MempoolInv, PruneEvicted
    PROVE  MempoolInv'
<1>1. ChainInv /\ PoolInv /\ FitInv /\ BusyInv /\ OrphanInv /\ WorkInv
    BY DEF MempoolInv
<1>2. /\ evicted # <<>> /\ evicted' = Tail(evicted)
      /\ UNCHANGED chain /\ UNCHANGED poolVars /\ UNCHANGED orphanVars
      /\ UNCHANGED busy /\ UNCHANGED work /\ UNCHANGED steps
    BY DEF PruneEvicted
<1>3. Pool' = Pool
    BY <1>2, PoolUnchanged
<1>4. EvictedOK(Pool, evicted')
    BY <1>1, <1>2, ForgetOldest DEF PoolInv
<1>5. PoolInv'
    BY <1>1, <1>3, <1>4 DEF PoolInv
<1>6. ChainInv' /\ FitInv'
    BY <1>1, <1>2, <1>3 DEF ChainInv, Height, FitInv
<1>7. BusyInv' /\ OrphanInv'
    BY <1>1, <1>2, OrphansKept DEF BusyInv
<1>8. WorkInv'
    BY <1>1, <1>2 DEF WorkInv, NoWork, orphanVars
<1> QED
    BY <1>5, <1>6, <1>7, <1>8 DEF MempoolInv

LEMMA StutterInv ==
    ASSUME MempoolInv, UNCHANGED vars
    PROVE  MempoolInv'
<1>1. ChainInv /\ PoolInv /\ FitInv /\ BusyInv /\ OrphanInv /\ WorkInv
    BY DEF MempoolInv
<1>2. /\ UNCHANGED chain /\ UNCHANGED poolVars /\ UNCHANGED evicted /\ UNCHANGED orphanVars
      /\ UNCHANGED busy /\ UNCHANGED work /\ UNCHANGED steps
    BY DEF vars
<1>3. ChainInv' /\ PoolInv' /\ FitInv'
    BY <1>1, <1>2, PoolKeptInv
<1>4. BusyInv' /\ OrphanInv'
    BY <1>1, <1>2, OrphansKept DEF BusyInv
<1>5. WorkInv'
    BY <1>1, <1>2 DEF WorkInv, NoWork, orphanVars
<1> QED
    BY <1>3, <1>4, <1>5 DEF MempoolInv

LEMMA NextMempool == MempoolInv /\ [Next]_vars => MempoolInv'
<1> SUFFICES ASSUME MempoolInv, [Next]_vars
             PROVE  MempoolInv'
    OBVIOUS
<1>1. CASE DisconnectTip
    BY <1>1, DisconnectTipInv
<1>2. CASE \E t \in Tx \cup {NoTx} : ConnectTip(t)
    BY <1>2, ConnectTipInv
<1>3. CASE EndStep
    BY <1>3, EndStepInv
<1>4. CASE \E t \in Tx : TxAccepted(t)
    BY <1>4, TxAcceptedInv
<1>5. CASE TryOrphan
    BY <1>5, TryOrphanInv
<1>6. CASE OrphansDone
    BY <1>6, OrphansDoneInv
<1>7. CASE \E t \in Tx, peer \in Peers : TxOrphaned(t, peer)
    BY <1>7, TxOrphanedInv
<1>8. CASE TxIgnored
  <2>1. UNCHANGED vars
    BY <1>8 DEF TxIgnored
  <2> QED
    BY <2>1, StutterInv
<1>9. CASE \E peer \in Peers : EraseOrphansFor(peer)
    BY <1>9, EraseOrphansForInv
<1>10. CASE PruneEvicted
    BY <1>10, PruneEvictedInv
<1>11. CASE UNCHANGED vars
    BY <1>11, StutterInv
<1> QED
    BY <1>1, <1>2, <1>3, <1>4, <1>5, <1>6, <1>7, <1>8, <1>9, <1>10, <1>11 DEF Next

-----------------------------------------------------------------------------
(* What the invariant gives *)

LEMMA InvPoolConsistent == MempoolInv => PoolConsistent
<1> SUFFICES ASSUME MempoolInv
             PROVE  PoolConsistent
    OBVIOUS
<1>1. ChainInv /\ PoolInv /\ FitInv /\ BusyInv /\ OrphanInv /\ WorkInv
    BY DEF MempoolInv
<1>2. /\ Pool.mapTx = mapTx /\ Pool.next = mapNextTx /\ Pool.nf = poolNf /\ Pool.tree = tree
      /\ In(Pool) = DOMAIN mapTx
    BY DEF Pool, In
<1>3. PoolOK(Pool) /\ ~ OverLimit(Pool) /\ EvictedOK(Pool, evicted)
    BY <1>1 DEF PoolInv
<1>4. DOMAIN mapTx \subseteq Tx /\ \A t \in DOMAIN mapTx : mapTx[t] \in {0, 1}
    BY <1>2, <1>3, PoolFacts
<1>5. Len(evicted) <= EvictionMemory /\ ToSet(evicted) \subseteq Tx
    BY <1>3 DEF EvictedOK, ToSet
<1>6. ToSet(work.todo) \cup work.erase \subseteq DOMAIN orphans
    BY <1>1 DEF WorkInv, ToSet
<1>7. TypeOK
    BY <1>1, <1>4, <1>5, <1>6 DEF TypeOK, ChainInv, OrphanInv, BusyInv
<1>8. WithinLimit
  <2>1. Len(tree.ids) = Cardinality(In(Pool)) /\ Cardinality(In(Pool)) \in Nat
    BY <1>2, <1>3, PoolFacts
  <2>2. ~ (Len(tree.ids) > Capacity)
    BY <1>2, <1>3 DEF OverLimit
  <2> QED
    BY <2>1, <2>2, ConstantFacts DEF WithinLimit
<1>9. OrphansIndexed
    BY <1>1 DEF OrphanInv
<1>10. Agree(Pool)
    BY <1>3 DEF PoolOK
<1>11. IsInjective(tree.ids)
    BY <1>2, <1>3, PoolFacts DEF TreeOK, TreeShape
<1> QED
    BY <1>2, <1>7, <1>8, <1>9, <1>10, <1>11 DEF PoolConsistent, Agree

LEMMA InvPoolFitsTip == MempoolInv => PoolFitsTip
<1> SUFFICES ASSUME MempoolInv, busy = Idle, NEW t \in DOMAIN mapTx
             PROVE  /\ Prevouts[t] \subseteq DOMAIN mapTx \cup Unspent(chain)
                    /\ Mature(chain, t, Height + 1)
                    /\ HaveShieldedRequirements(chain, t)
                    /\ IsExpiredTx(t, Height + 1) => Expiry[t] = Height
                    /\ mapTx[t] = EpochAt(Height + 1) /\ Branch[t] = mapTx[t]
    BY DEF PoolFitsTip
<1>1. Pool.mapTx = mapTx /\ In(Pool) = DOMAIN mapTx
    BY DEF Pool, In
<1>2. Fit(Pool, chain) /\ AllMature(Pool, chain) /\ OfEpoch(Pool, chain)
    BY IdleFacts DEF MempoolInv, FitInv
<1>3. Mature(chain, t, Height + 1)
    BY <1>1, <1>2 DEF AllMature, Height
<1>4. mapTx[t] = EpochAt(Height + 1)
    BY <1>1, <1>2 DEF OfEpoch, Height
<1>5. IsExpiredTx(t, Height + 1) => Expiry[t] = Height
  <2>1. ~ IsExpiredTx(t, Height)
    BY <1>1, <1>2 DEF Fit, Height
  <2>2. Height \in Nat
    BY DEF MempoolInv, ChainInv
  <2>3. Expiry[t] \in Nat
    BY <1>1, PoolFacts, ConstantFacts DEF MempoolInv, PoolInv
  <2> QED
    BY <2>1, <2>2, <2>3 DEF IsExpiredTx
<1> QED
    BY <1>1, <1>2, <1>3, <1>4, <1>5 DEF Fit, Height

LEMMA InvDrawByWeight == MempoolInv => DrawByWeight
<1> SUFFICES ASSUME MempoolInv, NEW t \in DOMAIN mapTx
             PROVE  Cardinality({w \in 0 .. getTotalWeight(tree) - 1 :
                                    findByEvictionWeight(tree, w) = t}) = Weight[t]
    BY DEF DrawByWeight
<1>1. Pool.tree = tree /\ In(Pool) = DOMAIN mapTx
    BY DEF Pool, In
<1>2. PoolOK(Pool)
    BY DEF MempoolInv, PoolInv
<1>3. TreeOK(tree) /\ t \in ToSet(tree.ids)
    BY <1>1, <1>2, PoolFacts DEF PoolOK, Agree
<1> QED
    BY <1>3, DrawsOf

LEMMA InvEvictedStaysOut == MempoolInv => EvictedStaysOut
<1> SUFFICES ASSUME MempoolInv
             PROVE  EvictedStaysOut
    OBVIOUS
<1>1. In(Pool) = DOMAIN mapTx
    BY DEF Pool, In
<1>2. EvictedOK(Pool, evicted)
    BY DEF MempoolInv, PoolInv
<1> QED
    BY <1>1, <1>2 DEF EvictedStaysOut, EvictedOK

\* The invariant of the pool, the chain and the orphans holds throughout.
THEOREM MempoolCorrect == Spec => []MempoolInv
<1>1. Init => MempoolInv
    BY InitMempool
<1>2. MempoolInv /\ [Next]_vars => MempoolInv'
    BY NextMempool
<1> QED
    BY <1>1, <1>2, PTL DEF Spec

\* The asserts of CTxMemPool::check hold after any sequence of acceptances,
\* evictions, blocks and reorganisations: mapTx, mapNextTx, the nullifier maps
\* and the eviction tree are about the same transactions, no two of which
\* conflict; pool, evicted list and orphans keep within their limits, and the
\* orphans' index is exactly theirs.
THEOREM AlwaysPoolConsistent == Spec => []PoolConsistent
    BY MempoolCorrect, InvPoolConsistent, PTL

\* Whenever cs_main is free, ConnectTip's, DisconnectTip's and the end of the
\* step's removals have left only transactions that pass the tests of the next
\* block with their pool ancestors, except that one may expire at the very
\* height of the tip.
THEOREM AlwaysPoolFitsTip == Spec => []PoolFitsTip
    BY MempoolCorrect, InvPoolFitsTip, PTL

\* WeightedTxTree's partial sums are never off: after any sequence of add and
\* remove, of the total weight exactly Weight[t] values select t.
THEOREM AlwaysDrawByWeight == Spec => []DrawByWeight
    BY MempoolCorrect, InvDrawByWeight, PTL

\* No transaction that RecentlyEvictedList remembers is in the pool, by
\* whichever way it comes back: a peer, an orphan, or a disconnected block; and
\* the list has none twice.
THEOREM AlwaysEvictedStaysOut == Spec => []EvictedStaysOut
    BY MempoolCorrect, InvEvictedStaysOut, PTL
=============================================================================
