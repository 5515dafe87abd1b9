-------------------------- MODULE BlockTreeProofs --------------------------
(***************************************************************************)
(* Proofs about BlockTree and, at the end, about ChainRestart, which adds   *)
(* the disk to it: what is on disk fits together in every state in which   *)
(* the node may die.                                                       *)
(***************************************************************************)
EXTENDS ChainRestart, TreeTheorems

\* The recursive definitions of the tree have their equations.
LEMMA PathDef == IsPath(Blocks, Genesis, Parent, Path)
<1>1. \E f : f = [b \in Blocks |-> {b} \cup IF b = Genesis THEN {} ELSE f[Parent[b]]]
    BY BlockTreeAssumption, PathExists DEF IsPath
<1> QED
    BY <1>1 DEF Path, IsPath

LEMMA HeightDef == IsHeight(Blocks, Genesis, Parent, nHeight)
<1>1. \E h : h = [b \in Blocks |-> IF b = Genesis THEN 0 ELSE h[Parent[b]] + 1]
    BY BlockTreeAssumption, HeightExists DEF IsHeight
<1> QED
    BY <1>1 DEF nHeight, IsHeight

\* The facts about paths and heights that the proofs use.
LEMMA Tree ==
    /\ Genesis \in Blocks
    /\ \A b \in Blocks \ {Genesis} : Parent[b] \in Blocks
    /\ Path[Genesis] = {Genesis}
    /\ \A b \in Blocks \ {Genesis} : Path[b] = {b} \cup Path[Parent[b]]
    /\ \A b \in Blocks : b \in Path[b] /\ Genesis \in Path[b] /\ Path[b] \subseteq Blocks
    /\ \A b \in Blocks : \A x \in Path[b] : Path[x] \subseteq Path[b]
    /\ \A b \in Blocks : \A x, y \in Path[b] : x \in Path[y] \/ y \in Path[x]
    /\ nHeight \in [Blocks -> Nat]
    /\ \A b \in Blocks : \A x \in Path[b] : x # b => nHeight[x] < nHeight[b]
    /\ \A b \in Blocks : \A x, y \in Path[b] : nHeight[x] <= nHeight[y] => x \in Path[y]
    /\ \A b \in Blocks \ {Genesis} : b \notin Path[Parent[b]]
<1> USE BlockTreeAssumption
<1>1. IsTree(Blocks, Genesis, Parent)
    OBVIOUS
<1>2. /\ Genesis \in Blocks
      /\ \A b \in Blocks \ {Genesis} : Parent[b] \in Blocks
      /\ Path[Genesis] = {Genesis}
      /\ \A b \in Blocks \ {Genesis} : Path[b] = {b} \cup Path[Parent[b]]
      /\ \A b \in Blocks : b \in Path[b]
    BY ONLY <1>1, PathDef, PathEquation
<1>3. \A b \in Blocks : /\ Path[b] \subseteq Blocks
                        /\ Genesis \in Path[b]
                        /\ \A x \in Path[b] : Path[x] \subseteq Path[b]
                        /\ \A x, y \in Path[b] : x \in Path[y] \/ y \in Path[x]
    BY ONLY <1>1, PathDef, PathFacts
<1>4. /\ nHeight \in [Blocks -> Nat]
      /\ \A b \in Blocks : \A x \in Path[b] : x # b => nHeight[x] < nHeight[b]
      /\ \A b \in Blocks : \A x, y \in Path[b] : nHeight[x] <= nHeight[y] => x \in Path[y]
    BY ONLY <1>1, PathDef, HeightDef, HeightFacts
<1>5. \A b \in Blocks \ {Genesis} : b \notin Path[Parent[b]]
    BY ONLY <1>1, PathDef, Acyclic
<1> QED
    BY ONLY <1>2, <1>3, <1>4, <1>5

\* Only keeps the members that are in T, and nothing else.
LEMMA OnlyFacts ==
    ASSUME NEW S, NEW s \in Seq(S), NEW T
    PROVE  /\ Only(s, T) \in Seq(S)
           /\ Range(Only(s, T)) = Range(s) \cap T
<1> DEFINE n == Len(s)
           next(i, q) == IF s[i] \in T THEN Append(q, s[i]) ELSE q
           Eq(f) == f = [i \in 0..n |-> IF i = 0 THEN << >> ELSE next(i, f[i - 1])]
           kept == CHOOSE f : Eq(f)
<1>1. n \in Nat /\ \A i \in 1..n : s[i] \in S
    OBVIOUS
<1>2. ASSUME NEW i \in 1..n, NEW q \in Seq(S)
      PROVE  /\ next(i, q) \in Seq(S)
             /\ Range(next(i, q)) = Range(q) \cup ({s[i]} \cap T)
  <2>1. s[i] \in S
    BY <1>1
  <2> DEFINE r == Append(q, s[i])
  <2>2. /\ r \in Seq(S)
        /\ Len(r) = Len(q) + 1
        /\ Len(q) \in Nat
        /\ \A k \in 1..Len(q) : r[k] = q[k]
        /\ r[Len(q) + 1] = s[i]
    BY <2>1
  <2>3. Range(r) = Range(q) \cup {s[i]}
    <3> HIDE DEF r
    <3>1. DOMAIN r = 1..Len(r) /\ DOMAIN q = 1..Len(q)
        BY <2>2
    <3>2. \A k : k \in DOMAIN r <=> k \in DOMAIN q \/ k = Len(q) + 1
        BY <3>1, <2>2
    <3>3. /\ \A k \in DOMAIN q : r[k] = q[k]
          /\ r[Len(q) + 1] = s[i]
        BY <3>1, <2>2
    <3>4. Range(r) \subseteq Range(q) \cup {s[i]}
        BY <3>2, <3>3 DEF Range
    <3>5. Range(q) \cup {s[i]} \subseteq Range(r)
        BY <3>2, <3>3 DEF Range
    <3> QED
        BY <3>4, <3>5
  <2>4. CASE s[i] \in T
    BY <2>2, <2>3, <2>4
  <2>5. CASE s[i] \notin T
    BY <2>5
  <2> QED
    BY <2>4, <2>5
<1> HIDE DEF n, next
<1>3. \E f : Eq(f)
  <2> DEFINE F == [i \in 1..n |-> [q \in Seq(S) |-> next(i, q)]]
  <2>1. F \in [1..n -> [Seq(S) -> Seq(S)]] /\ << >> \in Seq(S)
    BY <1>2
  <2>2. PICK f \in [0..n -> Seq(S)] :
            f[0] = << >> /\ \A i \in 1..n : f[i] = F[i][f[i - 1]]
    <3> DEFINE X == Seq(S)
               x0 == << >>
    <3>1. n \in Nat /\ x0 \in X /\ F \in [1..n -> [X -> X]]
        BY <1>1, <2>1
    <3> HIDE DEF F, X, x0
    <3>2. \E f : IsFold(n, X, x0, F, f)
        BY <3>1, FoldExists
    <3> QED
        BY <3>2 DEF X, x0, IsFold
  <2>3. \A i \in 1..n : i - 1 \in 0..n /\ f[i - 1] \in Seq(S)
    BY <1>1
  <2>4. \A i \in 1..n : f[i] = next(i, f[i - 1])
    BY <2>2, <2>3
  <2>5. \A i \in 0..n : f[i] = IF i = 0 THEN << >> ELSE next(i, f[i - 1])
    <3>1. \A i \in 0..n : i = 0 \/ i \in 1..n
        BY <1>1
    <3> QED
        BY <3>1, <2>2, <2>4
  <2>6. f = [i \in 0..n |-> f[i]]
    OBVIOUS
  <2>7. Eq(f)
    BY <2>5, <2>6
  <2> HIDE DEF Eq
  <2> QED
    BY <2>7
<1>4. Eq(kept)
  <2> HIDE DEF Eq
  <2> QED
    BY <1>3
<1>5. Only(s, T) = kept[n]
    BY DEF Only, n, next
<1> HIDE DEF kept
<1>6. kept[0] = << >> /\ \A i \in 1..n : kept[i] = next(i, kept[i - 1])
  <2>1. \A i \in 0..n : kept[i] = IF i = 0 THEN << >> ELSE next(i, kept[i - 1])
    BY <1>4
  <2>2. 0 \in 0..n /\ \A i \in 1..n : i \in 0..n /\ i # 0
    BY <1>1
  <2> QED
    BY <2>1, <2>2
<1> DEFINE Good(i) == /\ kept[i] \in Seq(S)
                      /\ Range(kept[i]) = {s[j] : j \in 1..i} \cap T
           A == {i \in Nat : i <= n => Good(i)}
<1>7. 0 \in A
  <2>1. << >> \in Seq(S) /\ DOMAIN << >> = {} /\ 1..0 = {}
    OBVIOUS
  <2> QED
    BY <2>1, <1>6 DEF Range
<1>8. ASSUME NEW i \in Nat, i \in A
      PROVE  i + 1 \in A
  <2> SUFFICES ASSUME i + 1 <= n
               PROVE  Good(i + 1)
    OBVIOUS
  <2>1. Good(i) /\ i + 1 \in 1..n /\ (i + 1) - 1 = i
    BY <1>8, <1>1
  <2>2. kept[i + 1] = next(i + 1, kept[i])
    BY <2>1, <1>6
  <2>3. \A j : j \in 1..(i + 1) <=> j \in 1..i \/ j = i + 1
    OBVIOUS
  <2>4. {s[j] : j \in 1..(i + 1)} = {s[j] : j \in 1..i} \cup {s[i + 1]}
    BY <2>3
  <2>5. /\ kept[i + 1] \in Seq(S)
        /\ Range(kept[i + 1]) = Range(kept[i]) \cup ({s[i + 1]} \cap T)
    BY <1>2, <2>1, <2>2
  <2> QED
    BY <2>1, <2>4, <2>5
<1>9. Good(n)
  <2>1. Nat \subseteq A
    <3> HIDE DEF A
    <3> QED
        BY <1>7, <1>8, NatSetInduction
  <2>2. n \in A /\ n <= n
    <3> HIDE DEF A
    <3> QED
        BY <2>1, <1>1
  <2> HIDE DEF Good
  <2> QED
    BY <2>2
<1>10. Range(s) = {s[j] : j \in 1..n}
  <2>1. DOMAIN s = 1..n
    BY DEF n
  <2> QED
    BY <2>1 DEF Range
<1> QED
    BY <1>5, <1>9, <1>10

-----------------------------------------------------------------------------
(***************************************************************************)
(* ReceivedBlockTransactions.                                              *)
(***************************************************************************)

\* An index entry whose sequence id is not bounded.
Entry == [known : BOOLEAN, validity : {0, 2, 3, 5}, haveData : BOOLEAN,
          failedValid : BOOLEAN, failedChild : BOOLEAN, nTx : BOOLEAN,
          nChainTx : BOOLEAN, nSequenceId : Nat]

\* d differs from e in nChainTx and nSequenceId only.
SameStatus(d, e) ==
    /\ d.known = e.known
    /\ d.validity = e.validity
    /\ d.haveData = e.haveData
    /\ d.failedValid = e.failedValid
    /\ d.failedChild = e.failedChild
    /\ d.nTx = e.nTx

\* The states of the loop in ReceivedBlockTransactions.
LinkStates == [index : [Blocks -> Entry], candidates : SUBSET Blocks,
               unlinked : Seq(Blocks), nextId : Nat, queue : Seq(Blocks)]

\* The blocks that are linked, when b counts as one: it is about to be.
LinkedBlocks(s, b) == {x \in Blocks : s.index[x].nChainTx} \cup {b}

\* A linked block was processed and so were its ancestors; a block that waits,
\* in the queue for a linked parent, was processed itself; the candidates and
\* the blocks with a sequence id are linked.
LinkSound(s, b) ==
    /\ \A x \in LinkedBlocks(s, b) : s.index[x].nTx /\ Path[x] \subseteq LinkedBlocks(s, b)
    /\ \A x \in Blocks \ LinkedBlocks(s, b) : s.index[x].nSequenceId = 0
    /\ \A x \in Range(s.queue) : /\ x \in Blocks \ {Genesis}
                                 /\ s.index[x].nTx
                                 /\ Parent[x] \in LinkedBlocks(s, b)
    /\ \A x \in Range(s.unlinked) : x \in Blocks \ {Genesis} /\ s.index[x].nTx
    /\ s.candidates \subseteq LinkedBlocks(s, b)
    /\ s.index[b].nChainTx \/ b \in Range(s.queue)

\* A processed block that is not linked is in the queue, or waits for a parent
\* that is not linked.
LinkComplete(s) ==
    \A x \in Blocks \ {Genesis} :
        s.index[x].nTx /\ ~ s.index[x].nChainTx =>
            \/ x \in Range(s.queue)
            \/ x \in Range(s.unlinked) /\ ~ s.index[Parent[x]].nChainTx

\* What one round may change.
LinkStep(s, r) ==
    /\ r \in LinkStates
    /\ \A x \in Blocks : /\ SameStatus(r.index[x], s.index[x])
                         /\ r.index[x].nSequenceId \in {s.index[x].nSequenceId, s.nextId}
    /\ r.candidates \subseteq s.candidates \cup Range(s.queue)
    /\ Range(r.unlinked) \subseteq Range(s.unlinked)
    /\ Range(r.queue) \subseteq Range(s.queue) \cup Range(s.unlinked)
    /\ r.nextId \in {s.nextId, s.nextId + 1}
    /\ \A b \in Blocks : LinkSound(s, b) => LinkSound(r, b)
    /\ LinkComplete(s) => LinkComplete(r)

\* The members of a concatenation.
LEMMA ConcatRange ==
    ASSUME NEW S, NEW p \in Seq(S), NEW q \in Seq(S)
    PROVE  p \o q \in Seq(S) /\ Range(p \o q) = Range(p) \cup Range(q)
<1> DEFINE r == p \o q
           n == Len(p)
           m == Len(q)
<1>1. /\ n \in Nat
      /\ m \in Nat
      /\ r \in Seq(S)
      /\ Len(r) = n + m
      /\ \A k \in 1..n : r[k] = p[k]
      /\ \A k \in 1..m : r[n + k] = q[k]
      /\ DOMAIN r = 1..(n + m)
      /\ DOMAIN p = 1..n
      /\ DOMAIN q = 1..m
    OBVIOUS
<1> HIDE DEF r, n, m
<1>2. \A k \in 1..(n + m) : k \in 1..n \/ (k - n \in 1..m /\ n + (k - n) = k)
    BY <1>1
<1>3. \A k \in 1..n : k \in 1..(n + m)
    BY <1>1
<1>4. \A k \in 1..m : n + k \in 1..(n + m)
    BY <1>1
<1>5. Range(r) \subseteq Range(p) \cup Range(q)
  <2>1. ASSUME NEW k \in 1..(n + m)
        PROVE  r[k] \in Range(p) \cup Range(q)
    <3>1. CASE k \in 1..n
        BY <3>1, <1>1 DEF Range
    <3>2. CASE k - n \in 1..m /\ n + (k - n) = k
        BY <3>2, <1>1 DEF Range
    <3> QED
        BY <3>1, <3>2, <1>2
  <2> QED
    BY <2>1, <1>1 DEF Range
<1>6. Range(p) \subseteq Range(r)
    BY <1>1, <1>3 DEF Range
<1>7. Range(q) \subseteq Range(r)
    BY <1>1, <1>4 DEF Range
<1>8. r \in Seq(S) /\ Range(r) = Range(p) \cup Range(q)
    BY <1>1, <1>5, <1>6, <1>7
<1> QED
    BY <1>8 DEF r

\* The parts of a sequence that is not empty.
LEMMA HeadTail ==
    ASSUME NEW S, NEW q \in Seq(S), q # << >>
    PROVE  /\ Head(q) \in S
           /\ Head(q) \in Range(q)
           /\ Tail(q) \in Seq(S)
           /\ Range(Tail(q)) \subseteq Range(q)
           /\ Range(q) \subseteq {Head(q)} \cup Range(Tail(q))
<1>1. /\ Len(q) \in Nat \ {0}
      /\ Head(q) = q[1]
      /\ Tail(q) \in Seq(S)
      /\ DOMAIN q = 1..Len(q)
      /\ DOMAIN Tail(q) = 1..(Len(q) - 1)
      /\ \A k \in 1..(Len(q) - 1) : Tail(q)[k] = q[k + 1] /\ k + 1 \in 1..Len(q)
      /\ 1 \in 1..Len(q)
      /\ q[1] \in S
    OBVIOUS
<1>2. \A k \in 1..Len(q) : k = 1 \/ (k - 1 \in 1..(Len(q) - 1) /\ (k - 1) + 1 = k)
    BY <1>1
<1>3. ASSUME NEW k \in 1..Len(q)
      PROVE  q[k] \in {Head(q)} \cup Range(Tail(q))
  <2>1. CASE k = 1
    BY <2>1, <1>1
  <2>2. CASE k - 1 \in 1..(Len(q) - 1) /\ (k - 1) + 1 = k
    BY <2>2, <1>1 DEF Range
  <2> QED
    BY <2>1, <2>2, <1>2
<1> QED
    BY <1>1, <1>3 DEF Range

LEMMA LinkFirstFacts ==
    ASSUME NEW s \in LinkStates
    PROVE  LinkStep(s, LinkFirst(s))
<1> USE DEF LinkStates
<1>1. CASE s.queue = << >>
    BY <1>1 DEF LinkFirst, LinkStep, SameStatus
<1>2. CASE s.queue # << >>
  <2> DEFINE b == Head(s.queue)
             idx == [s.index EXCEPT ![b].nChainTx = TRUE, ![b].nSequenceId = s.nextId]
             waiting == {x \in Blocks \ {Genesis} : Parent[x] = b}
             linked == Only(s.unlinked, waiting)
             queue == Tail(s.queue) \o linked
             rest == Only(s.unlinked, Blocks \ waiting)
             cands == IF Worse(idx, b, tip) THEN s.candidates ELSE s.candidates \cup {b}
             r == [s EXCEPT !.index = idx, !.nextId = s.nextId + 1, !.candidates = cands,
                            !.queue = queue, !.unlinked = rest]
  <2>1. LinkFirst(s) = r
    BY <1>2 DEF LinkFirst
  <2>2. /\ b \in Blocks
        /\ b \in Range(s.queue)
        /\ Tail(s.queue) \in Seq(Blocks)
        /\ Range(Tail(s.queue)) \subseteq Range(s.queue)
        /\ Range(s.queue) \subseteq {b} \cup Range(Tail(s.queue))
    BY <1>2, HeadTail
  <2>3. /\ linked \in Seq(Blocks)
        /\ Range(linked) \subseteq Range(s.unlinked) \cap waiting
        /\ rest \in Seq(Blocks)
        /\ Range(rest) \subseteq Range(s.unlinked)
        /\ Range(s.unlinked) \cap waiting \subseteq Range(linked)
        /\ Range(s.unlinked) \cap (Blocks \ waiting) \subseteq Range(rest)
    <3>1. s.unlinked \in Seq(Blocks)
        OBVIOUS
    <3> HIDE DEF waiting
    <3> QED
        BY <3>1, OnlyFacts
  <2>4. queue \in Seq(Blocks) /\ Range(queue) = Range(Tail(s.queue)) \cup Range(linked)
    <3> DEFINE rear == Tail(s.queue)
    <3>1. rear \in Seq(Blocks) /\ linked \in Seq(Blocks)
        BY <2>2, <2>3
    <3> HIDE DEF linked, rear
    <3>2. rear \o linked \in Seq(Blocks) /\ Range(rear \o linked) = Range(rear) \cup Range(linked)
        BY ONLY <3>1, ConcatRange
    <3> QED
        BY <3>2 DEF rear
  <2>5. cands \subseteq Blocks /\ cands \subseteq s.candidates \cup Range(s.queue)
    <3> HIDE DEF b, idx
    <3> QED
        BY <2>2
  <2> HIDE DEF b, waiting, linked, queue, rest, cands
  <2>6. /\ idx \in [Blocks -> Entry]
        /\ \A x \in Blocks : /\ SameStatus(idx[x], s.index[x])
                             /\ idx[x].nSequenceId \in {s.index[x].nSequenceId, s.nextId}
        /\ idx[b].nChainTx
        /\ \A x \in Blocks \ {b} : idx[x] = s.index[x]
    <3>1. s.index \in [Blocks -> Entry] /\ s.nextId \in Nat
        OBVIOUS
    <3> QED
        BY <3>1, <2>2 DEF Entry, SameStatus
  <2> HIDE DEF idx
  <2>7. /\ r \in LinkStates
        /\ r.index = idx
        /\ r.candidates = cands
        /\ r.unlinked = rest
        /\ r.queue = queue
        /\ r.nextId = s.nextId + 1
    <3> DEFINE id == s.nextId + 1
    <3>1. id \in Nat
        OBVIOUS
    <3>2. r = [s EXCEPT !.index = idx, !.nextId = id, !.candidates = cands,
                        !.queue = queue, !.unlinked = rest]
        OBVIOUS
    <3>3. /\ idx \in [Blocks -> Entry]
          /\ cands \in SUBSET Blocks
          /\ rest \in Seq(Blocks)
          /\ queue \in Seq(Blocks)
        BY <2>3, <2>4, <2>5, <2>6
    <3> HIDE DEF r, id
    <3>4. r \in LinkStates
        BY ONLY s \in LinkStates, <3>1, <3>2, <3>3 DEF LinkStates
    <3>5. /\ r.index = idx
          /\ r.candidates = cands
          /\ r.unlinked = rest
          /\ r.queue = queue
          /\ r.nextId = id
        BY ONLY s \in LinkStates, <3>2 DEF LinkStates
    <3> QED
        BY <3>4, <3>5 DEF id
  <2>8. \A x \in Blocks \ {Genesis} : x \in waiting <=> Parent[x] = b
    BY DEF waiting
  <2>10. waiting \subseteq Blocks \ {Genesis}
    BY DEF waiting
  <2> HIDE DEF r, LinkStates
  <2>9. ASSUME NEW c \in Blocks, LinkSound(s, c)
        PROVE  LinkSound(r, c)
    <3>1. LinkedBlocks(r, c) = LinkedBlocks(s, c) \cup {b}
        BY <2>2, <2>6, <2>7 DEF LinkedBlocks
    <3>2. \A x \in Blocks : r.index[x].nTx = s.index[x].nTx
        BY <2>6, <2>7 DEF SameStatus
    <3>3. b \in Blocks \ {Genesis} /\ s.index[b].nTx /\ Parent[b] \in LinkedBlocks(s, c)
        BY <2>2, <2>9 DEF LinkSound
    <3>4. LinkedBlocks(s, c) \subseteq Blocks
        BY DEF LinkedBlocks
    <3>5. \A x \in LinkedBlocks(r, c) : r.index[x].nTx /\ Path[x] \subseteq LinkedBlocks(r, c)
      <4>1. Path[b] = {b} \cup Path[Parent[b]]
        BY <3>3, Tree
      <4> QED
        BY <4>1, <3>1, <3>2, <3>3, <3>4, <2>9 DEF LinkSound
    <3>6. \A x \in Blocks \ LinkedBlocks(r, c) : r.index[x].nSequenceId = 0
        BY <3>1, <2>6, <2>7, <2>9 DEF LinkSound
    <3>7. \A x \in Range(r.queue) : /\ x \in Blocks \ {Genesis}
                                    /\ r.index[x].nTx
                                    /\ Parent[x] \in LinkedBlocks(r, c)
      <4>1. ASSUME NEW x \in Range(Tail(s.queue))
            PROVE  /\ x \in Blocks \ {Genesis}
                   /\ r.index[x].nTx
                   /\ Parent[x] \in LinkedBlocks(r, c)
        BY <2>2, <2>9, <3>1, <3>2 DEF LinkSound
      <4>2. ASSUME NEW x \in Range(linked)
            PROVE  /\ x \in Blocks \ {Genesis}
                   /\ r.index[x].nTx
                   /\ Parent[x] \in LinkedBlocks(r, c)
        BY <2>3, <2>8, <2>9, <2>10, <3>1, <3>2 DEF LinkSound
      <4> QED
        BY <4>1, <4>2, <2>4, <2>7
    <3>8. \A x \in Range(r.unlinked) : x \in Blocks \ {Genesis} /\ r.index[x].nTx
        BY <2>3, <2>7, <2>9, <3>2 DEF LinkSound
    <3>9. r.candidates \subseteq LinkedBlocks(r, c)
        BY <2>7, <2>9, <3>1 DEF LinkSound, cands
    <3>10. r.index[c].nChainTx \/ c \in Range(r.queue)
      <4>1. CASE c = b
        BY <4>1, <2>6, <2>7
      <4>2. CASE c # b
        BY <4>2, <2>2, <2>4, <2>6, <2>7, <2>9 DEF LinkSound
      <4> QED
        BY <4>1, <4>2
    <3> QED
        BY <3>5, <3>6, <3>7, <3>8, <3>9, <3>10 DEF LinkSound
  <2>11. ASSUME LinkComplete(s)
         PROVE  LinkComplete(r)
    <3> SUFFICES ASSUME NEW x \in Blocks \ {Genesis}, r.index[x].nTx, ~ r.index[x].nChainTx
                 PROVE  \/ x \in Range(r.queue)
                        \/ x \in Range(r.unlinked) /\ ~ r.index[Parent[x]].nChainTx
        BY DEF LinkComplete
    <3>1. x # b /\ s.index[x].nTx /\ ~ s.index[x].nChainTx /\ Parent[x] \in Blocks
        BY <2>6, <2>7, Tree DEF SameStatus
    <3>2. CASE x \in Range(s.queue)
        BY <3>1, <3>2, <2>2, <2>4, <2>7
    <3>3. CASE x \in Range(s.unlinked) /\ Parent[x] = b
        BY <3>3, <2>3, <2>4, <2>7, <2>8
    <3>4. CASE /\ x \in Range(s.unlinked) /\ Parent[x] # b
               /\ ~ s.index[Parent[x]].nChainTx
        BY <3>1, <3>4, <2>3, <2>6, <2>7, <2>8
    <3> QED
        BY <3>1, <3>2, <3>3, <3>4, <2>11 DEF LinkComplete
  <2> QED
    BY <2>1, <2>2, <2>3, <2>4, <2>5, <2>6, <2>7, <2>9, <2>11 DEF LinkStep
<1> QED
    BY <1>1, <1>2
\* What n rounds may change.
LinkRun(start, n, r) ==
    /\ r \in LinkStates
    /\ \A x \in Blocks :
          /\ SameStatus(r.index[x], start.index[x])
          /\ \/ r.index[x].nSequenceId = start.index[x].nSequenceId
             \/ r.index[x].nSequenceId < start.nextId + n
    /\ r.candidates \subseteq start.candidates \cup Range(start.queue) \cup Range(start.unlinked)
    /\ Range(r.unlinked) \subseteq Range(start.unlinked)
    /\ Range(r.queue) \subseteq Range(start.queue) \cup Range(start.unlinked)
    /\ r.nextId \in start.nextId..(start.nextId + n)
    /\ \A b \in Blocks : LinkSound(start, b) => LinkSound(r, b)
    /\ LinkComplete(start) => LinkComplete(r)

\* The loop, repeated n times.
LEMMA LinkRounds ==
    ASSUME NEW start \in LinkStates, NEW n \in Nat
    PROVE  LET round[k \in Nat] == IF k = 0 THEN start ELSE LinkFirst(round[k - 1])
           IN  LinkRun(start, n, round[n])
<1> DEFINE Eq(f) == f = [k \in Nat |-> IF k = 0 THEN start ELSE LinkFirst(f[k - 1])]
           round == CHOOSE f : Eq(f)
<1>1. \E f : Eq(f)
  <2> DEFINE step == [s \in LinkStates |-> LinkFirst(s)]
  <2>1. step \in [LinkStates -> LinkStates]
    BY LinkFirstFacts DEF LinkStep
  <2>2. PICK f : IsRun(LinkStates, start, step, f)
    <3> HIDE DEF step
    <3> QED
        BY <2>1, RunExists
  <2>3. f \in [Nat -> LinkStates] /\ f[0] = start /\ \A k \in Nat : f[k + 1] = step[f[k]]
    <3> HIDE DEF step
    <3> QED
        BY <2>2 DEF IsRun
  <2>4. \A k \in Nat : f[k + 1] = LinkFirst(f[k])
    BY <2>3
  <2>5. \A k \in Nat : f[k] = IF k = 0 THEN start ELSE LinkFirst(f[k - 1])
    <3>1. \A k \in Nat : k # 0 => k - 1 \in Nat /\ (k - 1) + 1 = k
        OBVIOUS
    <3> QED
        BY <3>1, <2>3, <2>4
  <2>6. f = [k \in Nat |-> f[k]]
    BY <2>3
  <2>7. Eq(f)
    BY <2>5, <2>6
  <2> HIDE DEF Eq
  <2> QED
    BY <2>7
<1>2. Eq(round)
  <2> HIDE DEF Eq
  <2> QED
    BY <1>1
<1> HIDE DEF round
<1>3. round[0] = start /\ \A k \in Nat : round[k + 1] = LinkFirst(round[k])
  <2>1. \A k \in Nat : round[k] = IF k = 0 THEN start ELSE LinkFirst(round[k - 1])
    BY <1>2
  <2>2. \A k \in Nat : k + 1 \in Nat /\ k + 1 # 0 /\ (k + 1) - 1 = k
    OBVIOUS
  <2> QED
    BY <2>1, <2>2
<1> DEFINE A == {k \in Nat : LinkRun(start, k, round[k])}
<1>4. 0 \in A
  <2>1. start.nextId \in Nat
    BY DEF LinkStates
  <2>2. start.nextId \in start.nextId..(start.nextId + 0)
    BY <2>1
  <2>3. LinkRun(start, 0, start)
    BY <2>2 DEF LinkRun, SameStatus
  <2> QED
    BY <1>3, <2>3
<1>5. ASSUME NEW k \in Nat, k \in A
      PROVE  k + 1 \in A
  <2>1. PICK s : s = round[k] /\ LinkRun(start, k, s)
    BY <1>5
  <2>2. PICK r : r = round[k + 1] /\ LinkStep(s, r)
    BY <1>3, <2>1, LinkFirstFacts DEF LinkRun
  <2>3. /\ s.nextId \in Nat
        /\ start.nextId \in Nat
        /\ \A x \in Blocks : s.index[x].nSequenceId \in Nat /\ start.index[x].nSequenceId \in Nat
    BY <2>1 DEF LinkRun, LinkStates, Entry
  <2>4. r.nextId \in start.nextId..(start.nextId + (k + 1))
    BY <2>1, <2>2, <2>3 DEF LinkRun, LinkStep
  <2>5. ASSUME NEW x \in Blocks
        PROVE  /\ SameStatus(r.index[x], start.index[x])
               /\ \/ r.index[x].nSequenceId = start.index[x].nSequenceId
                  \/ r.index[x].nSequenceId < start.nextId + (k + 1)
    <3>1. SameStatus(r.index[x], start.index[x])
        BY <2>1, <2>2 DEF LinkRun, LinkStep, SameStatus
    <3>2. \/ s.index[x].nSequenceId = start.index[x].nSequenceId
          \/ s.index[x].nSequenceId < start.nextId + k
        BY <2>1 DEF LinkRun
    <3>3. r.index[x].nSequenceId \in {s.index[x].nSequenceId, s.nextId}
        BY <2>2 DEF LinkStep
    <3>4. s.nextId <= start.nextId + k
        BY <2>1, <2>3 DEF LinkRun
    <3>5. \/ r.index[x].nSequenceId = start.index[x].nSequenceId
          \/ r.index[x].nSequenceId < start.nextId + (k + 1)
        BY ONLY <3>2, <3>3, <3>4, <2>3, k \in Nat
    <3> QED
        BY <3>1, <3>5
  <2>6. LinkRun(start, k + 1, r)
    BY <2>1, <2>2, <2>4, <2>5 DEF LinkRun, LinkStep
  <2> QED
    BY <2>2, <2>6
<1>6. n \in A
  <2> HIDE DEF A
  <2> QED
    BY <1>4, <1>5, NatSetInduction
<1> QED
    BY <1>6 DEF round
LEMMA EntryBound ==
    ASSUME NEW e
    PROVE  e \in Entries <=> e \in Entry /\ e.nSequenceId \in 0..MaxSequenceId
<1>1. ASSUME e \in Entries
      PROVE  e \in Entry /\ e.nSequenceId \in 0..MaxSequenceId
    BY <1>1 DEF Entry, Entries
<1>2. ASSUME e \in Entry, e.nSequenceId \in 0..MaxSequenceId
      PROVE  e \in Entries
    BY <1>2 DEF Entry, Entries
<1> QED
    BY <1>1, <1>2

\* A sequence over S is one over every set that has its members.
LEMMA SeqOver ==
    ASSUME NEW S, NEW q \in Seq(S), NEW T
    PROVE  Range(q) \subseteq T <=> q \in Seq(T)
<1>1. /\ Len(q) \in Nat
      /\ DOMAIN q = 1..Len(q)
      /\ q = [i \in 1..Len(q) |-> q[i]]
    OBVIOUS
<1>2. ASSUME Range(q) \subseteq T
      PROVE  q \in Seq(T)
  <2>1. \A i \in 1..Len(q) : q[i] \in T
    BY <1>1, <1>2 DEF Range
  <2> QED
    BY <1>1, <2>1
<1>3. ASSUME q \in Seq(T)
      PROVE  Range(q) \subseteq T
  <2>1. \A i \in 1..Len(q) : q[i] \in T
    BY <1>3
  <2> QED
    BY <1>1, <2>1 DEF Range
<1> QED
    BY <1>2, <1>3

\* The entry of a block whose data arrived.
Filled(e) == RaiseValidity([e EXCEPT !.nTx = TRUE, !.nChainTx = FALSE, !.haveData = TRUE],
                           BLOCK_VALID_TRANSACTIONS)

LEMMA FilledFacts ==
    ASSUME NEW e \in Entry
    PROVE  /\ Filled(e) \in Entry
           /\ Filled(e).known = e.known
           /\ Filled(e).failedValid = e.failedValid
           /\ Filled(e).failedChild = e.failedChild
           /\ Filled(e).validity = IF ~ Failed(e) /\ e.validity < 3 THEN 3 ELSE e.validity
           /\ Filled(e).haveData
           /\ Filled(e).nTx
           /\ Filled(e).nChainTx = FALSE
           /\ Filled(e).nSequenceId = e.nSequenceId
<1> DEFINE d == [e EXCEPT !.nTx = TRUE, !.nChainTx = FALSE, !.haveData = TRUE]
<1>1. /\ d \in Entry
      /\ d.known = e.known
      /\ d.failedValid = e.failedValid
      /\ d.failedChild = e.failedChild
      /\ d.validity = e.validity
      /\ d.haveData
      /\ d.nTx
      /\ d.nChainTx = FALSE
      /\ d.nSequenceId = e.nSequenceId
    BY DEF Entry
<1>2. Failed(d) <=> Failed(e)
    BY <1>1 DEF Failed
<1> HIDE DEF d
<1>3. Filled(e) = IF ~ Failed(d) /\ d.validity < 3 THEN [d EXCEPT !.validity = 3] ELSE d
    BY DEF Filled, RaiseValidity, BLOCK_VALID_TRANSACTIONS, d
<1>4. CASE ~ Failed(d) /\ d.validity < 3
    BY <1>1, <1>2, <1>3, <1>4 DEF Entry
<1>5. CASE ~ (~ Failed(d) /\ d.validity < 3)
    BY <1>1, <1>2, <1>3, <1>5
<1> QED
    BY <1>4, <1>5

\* ReceivedBlockTransactions changes nothing but nChainTx and nSequenceId of
\* the blocks other than b.
\* The state in which the loop starts.
LinkStart(idx, b) ==
    [index |-> [idx EXCEPT ![b] = Filled(idx[b])], candidates |-> candidates,
     unlinked |-> unlinked, nextId |-> nextId, queue |-> <<b>>]

LEMMA ReceivedFacts ==
    ASSUME TypeOK, NEW idx \in [Blocks -> Entries], NEW b \in Blocks \ {Genesis},
           NEW s, s = ReceivedBlockTransactions(idx, b)
    PROVE  /\ s.index \in [Blocks -> Entries]
           /\ \A x \in Blocks : SameStatus(s.index[x], IF x = b THEN Filled(idx[b]) ELSE idx[x])
           /\ s.candidates \subseteq candidates \cup {b} \cup Range(unlinked)
           /\ s.unlinked \in Seq(Blocks)
           /\ Range(s.unlinked) \subseteq Range(unlinked) \cup {b}
           /\ s.nextId \in 1..(MaxSequenceId + 1)
           /\ idx[Parent[b]].nChainTx /\ LinkSound(LinkStart(idx, b), b) => LinkSound(s, b)
           /\ idx[Parent[b]].nChainTx /\ LinkComplete(LinkStart(idx, b)) => LinkComplete(s)
           /\ ~ idx[Parent[b]].nChainTx =>
                 /\ s.index = [idx EXCEPT ![b] = Filled(idx[b])]
                 /\ s.candidates = candidates
                 /\ Range(unlinked) \subseteq Range(s.unlinked)
                 /\ IsValid(idx[Parent[b]], BLOCK_VALID_TREE) => b \in Range(s.unlinked)
<1> DEFINE start == [index |-> [idx EXCEPT ![b] = Filled(idx[b])], candidates |-> candidates,
                     unlinked |-> unlinked, nextId |-> nextId, queue |-> <<b>>]
           n == MaxSequenceId - nextId + 1
<1>1. /\ MaxSequenceId \in Nat
      /\ nextId \in Nat
      /\ nextId >= 1
      /\ n \in Nat
    BY BlockTreeAssumption DEF TypeOK
<1>2. /\ candidates \in SUBSET Blocks
      /\ unlinked \in Seq(Blocks)
  <2>1. Known \ {Genesis} \subseteq Blocks /\ unlinked \in Seq(Known \ {Genesis})
    BY DEF TypeOK, Known
  <2>2. unlinked \in Seq(Blocks)
    BY <2>1, SeqOver
  <2> QED
    BY <2>2 DEF TypeOK, Known
<1>3. \A x \in Blocks : idx[x] \in Entry /\ idx[x].nSequenceId \in 0..MaxSequenceId
    BY EntryBound
<1>4. /\ start.index \in [Blocks -> Entry]
      /\ \A x \in Blocks : start.index[x] = IF x = b THEN Filled(idx[b]) ELSE idx[x]
      /\ \A x \in Blocks : start.index[x].nSequenceId \in 0..MaxSequenceId
    BY <1>3, FilledFacts
<1>5. <<b>> \in Seq(Blocks) /\ Range(<<b>>) = {b}
  <2>1. <<b>> \in Seq(Blocks) /\ DOMAIN <<b>> = {1} /\ <<b>>[1] = b
    OBVIOUS
  <2> QED
    BY <2>1 DEF Range
<1>6. start \in LinkStates
    BY <1>1, <1>2, <1>4, <1>5 DEF LinkStates
<1>7. CASE idx[Parent[b]].nChainTx
  <2>1. LinkRun(start, n, s)
    <3>1. s = LET round[k \in Nat] == IF k = 0 THEN start ELSE LinkFirst(round[k - 1])
              IN  round[n]
        BY <1>7 DEF ReceivedBlockTransactions, Filled
    <3> HIDE DEF start, n
    <3> QED
        BY <3>1, <1>1, <1>6, LinkRounds
  <2>2. s \in LinkStates
    BY <2>1 DEF LinkRun
  <2>3. s.index \in [Blocks -> Entries]
    <3>1. s.index \in [Blocks -> Entry]
        BY <2>2 DEF LinkStates
    <3>2. ASSUME NEW x \in Blocks
          PROVE  s.index[x] \in Entries
      <4>1. s.index[x] \in Entry /\ s.index[x].nSequenceId \in Nat
        BY <3>1 DEF Entry
      <4>2. \/ s.index[x].nSequenceId = start.index[x].nSequenceId
            \/ s.index[x].nSequenceId < nextId + n
        <5> HIDE DEF n
        <5> QED
            BY <2>1 DEF LinkRun
      <4>3. nextId + n = MaxSequenceId + 1
        BY <1>1
      <4>4. start.index[x].nSequenceId \in 0..MaxSequenceId
        BY <1>4
      <4> HIDE DEF n, start
      <4>5. s.index[x].nSequenceId \in 0..MaxSequenceId
        BY <4>1, <4>2, <4>3, <4>4, <1>1
      <4> QED
        BY <4>1, <4>5, EntryBound
    <3> QED
        BY <3>1, <3>2
  <2>4. /\ start.candidates = candidates
        /\ start.unlinked = unlinked
        /\ start.queue = <<b>>
        /\ start.nextId = nextId
    OBVIOUS
  <2> HIDE DEF start
  <2>5. \A x \in Blocks : SameStatus(s.index[x], IF x = b THEN Filled(idx[b]) ELSE idx[x])
    BY <2>1, <1>4 DEF LinkRun
  <2>6. s.candidates \subseteq candidates \cup {b} \cup Range(unlinked)
    BY <2>1, <2>4, <1>5 DEF LinkRun
  <2>7. s.unlinked \in Seq(Blocks) /\ Range(s.unlinked) \subseteq Range(unlinked)
    BY <2>1, <2>2, <2>4 DEF LinkRun, LinkStates
  <2>8. s.nextId \in 1..(MaxSequenceId + 1)
    <3>1. s.nextId \in nextId..(nextId + n)
        BY <2>1, <2>4 DEF LinkRun
    <3> QED
        BY <3>1, <1>1
  <2>9. /\ LinkSound(LinkStart(idx, b), b) => LinkSound(s, b)
        /\ LinkComplete(LinkStart(idx, b)) => LinkComplete(s)
    <3>1. LinkStart(idx, b) = start
        BY DEF LinkStart, start
    <3> QED
        BY <3>1, <2>1 DEF LinkRun
  <2> QED
    BY <1>7, <2>3, <2>5, <2>6, <2>7, <2>8, <2>9
<1>8. CASE ~ idx[Parent[b]].nChainTx
  <2> DEFINE u == IF IsValid(idx[Parent[b]], BLOCK_VALID_TREE)
                  THEN Append(unlinked, b) ELSE unlinked
  <2>1. s = [start EXCEPT !.queue = << >>, !.unlinked = u]
    BY <1>8 DEF ReceivedBlockTransactions, Filled
  <2>2. /\ u \in Seq(Blocks)
        /\ Range(u) \subseteq Range(unlinked) \cup {b}
        /\ Range(unlinked) \subseteq Range(u)
        /\ IsValid(idx[Parent[b]], BLOCK_VALID_TREE) => b \in Range(u)
    <3> DEFINE last == <<b>>
    <3>1. Append(unlinked, b) = unlinked \o last
        BY <1>2
    <3>2. last \in Seq(Blocks) /\ Range(last) = {b}
        BY <1>5
    <3> HIDE DEF last
    <3>3. unlinked \o last \in Seq(Blocks) /\ Range(unlinked \o last) = Range(unlinked) \cup {b}
        BY <3>2, <1>2, ConcatRange
    <3> QED
        BY <3>1, <3>3, <1>2
  <2>3. /\ s.index = start.index
        /\ s.candidates = candidates
        /\ s.unlinked = u
        /\ s.nextId = nextId
    <3> HIDE DEF u
    <3> QED
        BY <2>1
  <2>4. s.index \in [Blocks -> Entries]
    BY <2>3, <1>4, EntryBound
  <2>5. nextId \in 1..(MaxSequenceId + 1)
    BY DEF TypeOK
  <2>6. s.index = [idx EXCEPT ![b] = Filled(idx[b])]
    BY <2>3
  <2> HIDE DEF u, start
  <2> QED
    BY <1>4, <1>8, <2>2, <2>3, <2>4, <2>5, <2>6 DEF SameStatus
<1> QED
    BY <1>7, <1>8
-----------------------------------------------------------------------------
(***************************************************************************)
(* The comparator, FindMostWorkChain and ActivateBestChainStep.            *)
(***************************************************************************)

\* Work is a natural number that grows along a path.
LEMMA Work ==
    /\ nChainWork \in [Blocks -> Nat]
    /\ \A b \in Blocks : \A x \in Path[b] : nChainWork[x] <= nChainWork[b]
<1> DEFINE Eq(f) == f = [b \in Blocks |-> Proof[b] + IF b = Genesis THEN 0 ELSE f[Parent[b]]]
<1>1. IsTree(Blocks, Genesis, Parent) /\ \A b \in Blocks : Proof[b] \in Nat
    BY BlockTreeAssumption
<1>2. \E f : Eq(f)
  <2> DEFINE F == [b \in Blocks \ {Genesis} |-> [w \in Nat |-> Proof[b] + w]]
             x0 == Proof[Genesis]
             X == Nat
  <2>1. x0 \in X /\ F \in [Blocks \ {Genesis} -> [X -> X]]
    BY <1>1, Tree
  <2>2. PICK f : IsTreeFold(Blocks, Genesis, Parent, X, x0, F, f)
    <3> HIDE DEF x0, F, X
    <3> QED
        BY <1>1, <2>1, TreeFoldExists
  <2>3. /\ f \in [Blocks -> Nat]
        /\ f[Genesis] = Proof[Genesis]
        /\ \A b \in Blocks \ {Genesis} : f[b] = F[b][f[Parent[b]]]
    <3> HIDE DEF F
    <3> QED
        BY <2>2 DEF IsTreeFold
  <2>4. \A b \in Blocks \ {Genesis} : f[b] = Proof[b] + f[Parent[b]]
    BY <2>3, Tree
  <2>5. \A b \in Blocks : f[b] = Proof[b] + IF b = Genesis THEN 0 ELSE f[Parent[b]]
    BY <2>3, <2>4, <1>1
  <2>6. f = [b \in Blocks |-> f[b]]
    BY <2>3
  <2>7. Eq(f)
    BY <2>5, <2>6
  <2> HIDE DEF Eq
  <2> QED
    BY <2>7
<1>3. Eq(nChainWork)
    BY <1>2 DEF nChainWork
<1>4. /\ DOMAIN nChainWork = Blocks
      /\ nChainWork = [b \in Blocks |-> nChainWork[b]]
      /\ \A b \in Blocks : nChainWork[b] = Proof[b] + IF b = Genesis THEN 0
                                                      ELSE nChainWork[Parent[b]]
    BY <1>3
<1> DEFINE S == {b \in Blocks : \A x \in Path[b] : /\ nChainWork[x] \in Nat
                                                   /\ nChainWork[x] <= nChainWork[b]}
<1>5. Genesis \in S
  <2>1. nChainWork[Genesis] = Proof[Genesis] + 0 /\ Proof[Genesis] \in Nat
    BY <1>1, <1>4, Tree
  <2> QED
    BY <2>1, Tree
<1>6. ASSUME NEW b \in Blocks \ {Genesis}, Parent[b] \in S
      PROVE  b \in S
  <2>1. /\ nChainWork[b] = Proof[b] + nChainWork[Parent[b]]
        /\ Proof[b] \in Nat
        /\ Path[b] = {b} \cup Path[Parent[b]]
        /\ Parent[b] \in Path[Parent[b]]
    BY <1>1, <1>4, Tree
  <2>2. \A x \in Path[Parent[b]] : /\ nChainWork[x] \in Nat
                                   /\ nChainWork[x] <= nChainWork[Parent[b]]
    BY <1>6
  <2>3. nChainWork[Parent[b]] \in Nat /\ nChainWork[b] \in Nat
    BY <2>1, <2>2
  <2> QED
    BY <2>1, <2>2, <2>3
<1>7. S = Blocks
  <2>1. S \in SUBSET Blocks
    OBVIOUS
  <2> HIDE DEF S
  <2> QED
    BY <2>1, <1>1, <1>5, <1>6, TreeInduction
<1>8. \A b \in Blocks : nChainWork[b] \in Nat
    BY <1>7, Tree
<1> QED
    BY <1>4, <1>7, <1>8

\* The comparator is a strict total order.
LEMMA WorseOrder ==
    ASSUME NEW idx \in [Blocks -> Entry]
    PROVE  /\ \A a \in Blocks : ~ Worse(idx, a, a)
           /\ \A a, b \in Blocks : a # b => Worse(idx, a, b) \/ Worse(idx, b, a)
           /\ \A a, b, c \in Blocks :
                 Worse(idx, a, b) /\ Worse(idx, b, c) => Worse(idx, a, c)
<1>1. \A a \in Blocks : /\ nChainWork[a] \in Int
                        /\ idx[a].nSequenceId \in Int
                        /\ Address[a] \in Int
    BY Work, BlockTreeAssumption DEF Entry
<1>2. \A a, b \in Blocks : a # b => Address[a] # Address[b]
    BY BlockTreeAssumption
<1> QED
    BY <1>1, <1>2 DEF Worse

\* Every set of blocks that is not empty has a best member.
LEMMA BestFacts ==
    ASSUME TypeOK, NEW S \in SUBSET Blocks, S # {}
    PROVE  Best(S) \in S /\ \A c \in S \ {Best(S)} : Worse(index, c, Best(S))
<1>1. index \in [Blocks -> Entry]
    BY EntryBound DEF TypeOK
<1> DEFINE R == {p \in Blocks \X Blocks : Worse(index, p[1], p[2])}
<1>2. \A a, b \in Blocks : <<a, b>> \in R <=> Worse(index, a, b)
    OBVIOUS
<1>3. IsFiniteSet(S)
    BY BlockTreeAssumption, FS_Subset
<1>4. /\ \A a, b \in S : a # b => <<a, b>> \in R \/ <<b, a>> \in R
      /\ \A a, b, c \in S : <<a, b>> \in R /\ <<b, c>> \in R => <<a, c>> \in R
  <2> HIDE DEF R
  <2> QED
    BY <1>1, <1>2, WorseOrder
<1>5. \E m \in S : \A c \in S \ {m} : <<c, m>> \in R
  <2> HIDE DEF R
  <2> QED
    BY <1>3, <1>4, FiniteMaximum
<1>6. \E m \in S : \A c \in S \ {m} : Worse(index, c, m)
  <2> HIDE DEF R
  <2> QED
    BY <1>2, <1>5
<1> QED
    BY <1>6 DEF Best
\* The walk from c to the active chain: what lies above its first unusable
\* block descends from it, and is not active.
LEMMA WalkFacts ==
    ASSUME tip \in Blocks, NEW c \in Blocks, Unusable(c) # {}
    PROVE  /\ FirstUnusable(c) \in Unusable(c)
           /\ \A y \in Unusable(c) : nHeight[y] <= nHeight[FirstUnusable(c)]
           /\ Above(c) \subseteq Path[c]
           /\ Above(c) \cap Path[tip] = {}
           /\ \A x \in Above(c) : FirstUnusable(c) \in Path[x]
<1> DEFINE u == FirstUnusable(c)
<1>1. Unusable(c) \subseteq Path[c] \ Path[tip]
    BY DEF Unusable, Branch
<1>2. u \in Unusable(c) /\ \A y \in Unusable(c) : nHeight[y] <= nHeight[u]
  <2>1. \E x \in Unusable(c) : \A y \in Unusable(c) : nHeight[y] <= nHeight[x]
    <3>1. IsTree(Blocks, Genesis, Parent) /\ Unusable(c) \in SUBSET Path[c]
        BY <1>1, BlockTreeAssumption
    <3> QED
        BY <3>1, PathDef, HeightDef, Highest
  <2> QED
    BY <2>1 DEF FirstUnusable
<1>3. u \in Path[c] /\ u \notin Path[tip] /\ u \in Blocks
    BY <1>1, <1>2, Tree
<1>4. Above(c) = Path[c] \ Path[u]
    BY DEF Above
<1> HIDE DEF u
<1>5. \A x \in Above(c) : u \in Path[x]
    BY <1>3, <1>4, Tree
<1>6. ASSUME NEW x \in Above(c), x \in Path[tip]
      PROVE  FALSE
    BY <1>3, <1>5, <1>6, Tree
<1> QED
    BY <1>2, <1>4, <1>5, <1>6 DEF u

\* All ancestors of a block in the index are in the index.
PathKnown == \A b \in Known : Path[b] \subseteq Known

\* The active chain is in the index.
TipKnown == Path[tip] \subseteq Known

\* A block that is stored, was processed or is valid to some degree is in the
\* index.
ValidKnown ==
    \A b \in Blocks :
        index[b].haveData \/ index[b].nTx \/ index[b].validity # 0 => index[b].known

\* An entry that differs from e by a FAILED_CHILD mark.
Marked(d, e) == d = e \/ d = [e EXCEPT !.failedChild = TRUE]

LEMMA MarkedFacts ==
    ASSUME NEW e \in Entry, NEW d, Marked(d, e)
    PROVE  /\ d \in Entry
           /\ d.known = e.known
           /\ d.validity = e.validity
           /\ d.haveData = e.haveData
           /\ d.failedValid = e.failedValid
           /\ d.nTx = e.nTx
           /\ d.nChainTx = e.nChainTx
           /\ d.nSequenceId = e.nSequenceId
           /\ e.failedChild => d.failedChild
<1>1. CASE d = e
    BY <1>1
<1>2. CASE d = [e EXCEPT !.failedChild = TRUE]
    BY <1>2 DEF Entry
<1> QED
    BY <1>1, <1>2 DEF Marked

\* What FindMostWorkChain finds is a candidate whose branch is usable, and it
\* marks neither an active block nor a block on that branch.
LEMMA FindFacts ==
    ASSUME TypeOK, ValidKnown, NEW s, s = FindMostWorkChain
    PROVE  /\ s.found \in candidates \cup {None}
           /\ s.found # None => s.found \in Known /\ Unusable(s.found) = {}
           /\ s.candidates \subseteq candidates
           /\ DOMAIN s.index = Blocks
           /\ \A x \in Blocks : Marked(s.index[x], index[x])
           /\ s.index \in [Blocks -> Entry]
           /\ \A x \in Path[tip] : s.index[x] = index[x]
           /\ s.found # None => \A x \in Path[s.found] : s.index[x] = index[x]
           /\ s.walked \subseteq Blocks \X {x \in Known \ {Genesis} : index[x].haveData}
           /\ \A x \in Blocks : Failed(s.index[x]) => \E y \in Path[x] : Failed(index[y])
<1> DEFINE usable == {c \in candidates : Unusable(c) = {}}
           found == IF usable = {} THEN None ELSE Best(usable)
           tried == {c \in candidates \ usable : found = None \/ Worse(index, found, c)}
           failing == {d \in tried : Failed(index[FirstUnusable(d)])}
           marked == UNION {Above(c) : c \in failing}
           waiting == {c \in tried : /\ ~ Failed(index[FirstUnusable(c)])
                                     /\ \A d \in tried : c # d => c \notin Above(d)}
           walked == UNION {{<<c, x>> : x \in Above(c)} : c \in waiting}
           Stored == {x \in Known \ {Genesis} : index[x].haveData}
<1>0. /\ s.found = found
      /\ s.candidates = candidates \ UNION {Erased(c) : c \in tried}
      /\ s.index = [x \in Blocks |-> [index[x] EXCEPT !.failedChild = @ \/ x \in marked]]
      /\ s.walked = walked
  <2> HIDE DEF usable, found
  <2> QED
    BY DEF FindMostWorkChain, usable, found
<1>1. /\ index \in [Blocks -> Entry]
      /\ candidates \subseteq Known
      /\ Known \subseteq Blocks
      /\ tip \in Blocks
      /\ None \notin Blocks
    BY EntryBound, BlockTreeAssumption DEF TypeOK, Known
<1>2. \A c \in tried : c \in Known /\ Unusable(c) # {}
    BY <1>1
<1>3. /\ found \in candidates \cup {None}
      /\ found # None => found \in Known /\ Unusable(found) = {}
  <2>1. CASE usable = {}
    BY <2>1
  <2>2. CASE usable # {}
    <3>1. usable \in SUBSET Blocks
        BY <1>1
    <3>2. Best(usable) \in usable
      <4> HIDE DEF usable
      <4> QED
        BY <3>1, <2>2, BestFacts
    <3>3. found = Best(usable)
        BY <2>2
    <3> HIDE DEF found
    <3> QED
        BY <3>2, <3>3, <1>1
  <2> QED
    BY <2>1, <2>2
<1>4. marked \cap Path[tip] = {}
  <2> HIDE DEF tried
  <2> QED
    BY <1>1, <1>2, WalkFacts
<1>5. ASSUME found # None
      PROVE  marked \cap Path[found] = {}
  <2> SUFFICES ASSUME NEW c \in failing, NEW x \in Above(c), x \in Path[found]
               PROVE  FALSE
    OBVIOUS
  <2>1. /\ c \in Blocks
        /\ Unusable(c) # {}
        /\ Failed(index[FirstUnusable(c)])
        /\ found \in Blocks
        /\ Unusable(found) = {}
    BY <1>1, <1>2, <1>3, <1>5
  <2>2. FirstUnusable(c) \in Unusable(c) /\ FirstUnusable(c) \in Path[x]
    BY <2>1, <1>1, WalkFacts
  <2>3. FirstUnusable(c) \in Path[found]
    BY <2>1, <2>2, Tree
  <2>4. FirstUnusable(c) \notin Path[tip]
    BY <2>2 DEF Unusable, Branch
  <2> QED
    BY <2>1, <2>3, <2>4 DEF Unusable, Branch
<1>11. \A x \in marked : \E y \in Path[x] : Failed(index[y])
  <2> SUFFICES ASSUME NEW c \in failing, NEW x \in Above(c)
               PROVE  \E y \in Path[x] : Failed(index[y])
    OBVIOUS
  <2>1. c \in Blocks /\ Unusable(c) # {} /\ Failed(index[FirstUnusable(c)])
    BY <1>1, <1>2
  <2>2. FirstUnusable(c) \in Path[x]
    BY <2>1, <1>1, WalkFacts
  <2> QED
    BY <2>1, <2>2
<1>6. walked \subseteq Blocks \X Stored
  <2>1. ASSUME NEW c \in waiting, NEW x \in Above(c)
        PROVE  c \in Blocks /\ x \in Stored
    <3>1. c \in Known /\ c \in Blocks /\ Unusable(c) # {}
        BY <1>1, <1>2
    <3>2. x \in Path[c] /\ x \notin Path[tip]
        BY <3>1, <1>1, WalkFacts
    <3>3. x \in Blocks /\ x # Genesis
        BY <3>1, <3>2, <1>1, Tree
    <3>4. x \notin Unusable(c)
      <4> SUFFICES ASSUME x \in Unusable(c)
                   PROVE  FALSE
        OBVIOUS
      <4>1. /\ FirstUnusable(c) \in Unusable(c)
            /\ FirstUnusable(c) \in Path[c]
            /\ nHeight[x] <= nHeight[FirstUnusable(c)]
            /\ x \notin Path[FirstUnusable(c)]
        BY <3>1, <1>1, WalkFacts DEF Above, Unusable, Branch
      <4> QED
        BY <4>1, <3>1, <3>2, Tree
    <3>5. index[x].haveData
        BY <3>2, <3>4 DEF Unusable, Branch
    <3> QED
        BY <3>1, <3>3, <3>5 DEF ValidKnown, Known
  <2> HIDE DEF waiting
  <2>2. ASSUME NEW p \in walked
        PROVE  p \in Blocks \X Stored
    <3>1. PICK c \in waiting : p \in {<<c, x>> : x \in Above(c)}
        OBVIOUS
    <3>2. PICK x \in Above(c) : p = <<c, x>>
        BY <3>1
    <3> HIDE DEF walked
    <3> QED
        BY <3>1, <3>2, <2>1
  <2> HIDE DEF walked
  <2> QED
    BY <2>2
<1> HIDE DEF marked, found, tried, walked
<1>7. \A x \in Blocks : /\ Marked(s.index[x], index[x])
                        /\ x \notin marked => s.index[x] = index[x]
  <2> SUFFICES ASSUME NEW x \in Blocks
               PROVE  /\ Marked(s.index[x], index[x])
                      /\ x \notin marked => s.index[x] = index[x]
    OBVIOUS
  <2>1. s.index[x] = [index[x] EXCEPT !.failedChild = index[x].failedChild \/ x \in marked]
    BY <1>0
  <2>2. index[x] \in Entry
    BY <1>1
  <2>3. CASE x \in marked
    BY <2>1, <2>3 DEF Marked
  <2>4. CASE x \notin marked
    <3>1. s.index[x] = index[x]
        BY <2>1, <2>2, <2>4 DEF Entry
    <3> QED
        BY <3>1 DEF Marked
  <2> QED
    BY <2>3, <2>4
<1>8. s.index \in [Blocks -> Entry]
  <2>1. \A x \in Blocks : s.index[x] \in Entry
    BY <1>1, <1>7, MarkedFacts
  <2>2. s.index = [x \in Blocks |-> s.index[x]]
    BY <1>0
  <2> QED
    BY <2>1, <2>2
<1>9. Path[tip] \subseteq Blocks /\ (found # None => Path[found] \subseteq Blocks)
    BY <1>1, <1>3, Tree
<1>10. /\ \A x \in Path[tip] : s.index[x] = index[x]
       /\ found # None => \A x \in Path[found] : s.index[x] = index[x]
    BY <1>4, <1>5, <1>7, <1>9
<1>12. \A x \in Blocks : Failed(s.index[x]) => \E y \in Path[x] : Failed(index[y])
    BY <1>7, <1>11, Tree
<1> QED
    BY <1>0, <1>3, <1>6, <1>7, <1>8, <1>10, <1>12
LEMMA RaiseFacts ==
    ASSUME NEW e \in Entry
    PROVE  LET d == RaiseValidity(e, BLOCK_VALID_SCRIPTS)
           IN  /\ d \in Entry
               /\ d.known = e.known
               /\ d.haveData = e.haveData
               /\ d.failedValid = e.failedValid
               /\ d.failedChild = e.failedChild
               /\ d.nTx = e.nTx
               /\ d.nChainTx = e.nChainTx
               /\ d.nSequenceId = e.nSequenceId
               /\ d.validity \in {e.validity, BLOCK_VALID_SCRIPTS}
               /\ ~ Failed(e) => ~ Failed(d) /\ d.validity = BLOCK_VALID_SCRIPTS
<1> USE DEF RaiseValidity, BLOCK_VALID_SCRIPTS, Failed
<1>1. CASE ~ Failed(e) /\ e.validity < 5
    BY <1>1 DEF Entry
<1>2. CASE ~ (~ Failed(e) /\ e.validity < 5)
  <2>1. e.validity \in {0, 2, 3, 5}
    BY DEF Entry
  <2> QED
    BY <1>2, <2>1
<1> QED
    BY <1>1, <1>2

\* The entries that ActivateBestChainStep leaves: validated ones on the new
\* active chain, otherwise the old ones, but for a block that is rejected.
LEMMA StepFacts ==
    ASSUME TypeOK, TipKnown, ValidKnown,
           NEW s, s.index \in [Blocks -> Entry],
           NEW b \in Known, Unusable(b) = {},
           \A x \in Path[tip] \cup Path[b] : s.index[x] = index[x],
           NEW bad, Genesis \notin bad,
           NEW r, r = ActivateBestChainStep(s, b, bad)
    PROVE  /\ r.tip \in Known
           /\ r.candidates \subseteq s.candidates
           /\ r.index \in [Blocks -> Entry]
           /\ \A x \in Blocks :
                 /\ r.index[x].known = s.index[x].known
                 /\ r.index[x].haveData = s.index[x].haveData
                 /\ r.index[x].nTx = s.index[x].nTx
                 /\ r.index[x].nChainTx = s.index[x].nChainTx
                 /\ r.index[x].nSequenceId = s.index[x].nSequenceId
                 /\ s.index[x].failedValid => r.index[x].failedValid
                 /\ Failed(r.index[x]) => Failed(s.index[x]) \/ r.index[x].failedValid
                 /\ \/ r.index[x].validity = s.index[x].validity
                    \/ /\ r.index[x].validity = BLOCK_VALID_SCRIPTS
                       /\ s.index[x].haveData
                       /\ x \in Path[r.tip]
           /\ \A x \in Path[r.tip] \cap Path[tip] : r.index[x] = index[x]
           /\ \A x \in Path[r.tip] \ Path[tip] : /\ x \notin bad
                                                 /\ ~ Failed(r.index[x])
                                                 /\ r.index[x].validity = BLOCK_VALID_SCRIPTS
<1> DEFINE stops == {x \in Branch(b) : x \in bad \/ nChainWork[x] > nChainWork[tip]}
           last == IF stops = {} THEN b
                   ELSE CHOOSE x \in stops : \A y \in stops : nHeight[x] <= nHeight[y]
           connected == (Path[last] \ Path[tip]) \ bad
           newTip == IF last \in bad THEN Parent[last] ELSE last
           idx == [x \in Blocks |->
                   IF x \in connected THEN RaiseValidity(s.index[x], BLOCK_VALID_SCRIPTS)
                   ELSE IF x \in bad \cap {last} THEN [s.index[x] EXCEPT !.failedValid = TRUE]
                   ELSE s.index[x]]
           pruned == IF connected = {} THEN s.candidates
                     ELSE PruneBlockIndexCandidates(idx, s.candidates, newTip)
<1>1. /\ r.index = idx
      /\ r.candidates = IF last \in bad THEN pruned \ {last} ELSE pruned
      /\ r.tip = newTip
  <2> HIDE DEF last
  <2> QED
    BY DEF ActivateBestChainStep, last
<1>2. /\ index \in [Blocks -> Entry]
      /\ b \in Blocks
      /\ tip \in Blocks
      /\ Branch(b) = Path[b] \ Path[tip]
      /\ Path[b] \subseteq Blocks
      /\ Path[b] \subseteq Known
  <2>1. /\ index \in [Blocks -> Entry]
        /\ b \in Blocks
        /\ tip \in Blocks
        /\ Branch(b) = Path[b] \ Path[tip]
        /\ Path[b] \subseteq Blocks
    BY EntryBound, Tree DEF TypeOK, Known, Branch
  <2>2. \A x \in Branch(b) : index[x].haveData
    BY DEF Unusable
  <2> QED
    BY <2>1, <2>2 DEF TipKnown, ValidKnown, Known
<1>3. r.candidates \subseteq s.candidates
  <2>1. pruned \subseteq s.candidates
    <3> HIDE DEF connected, idx, newTip
    <3> QED
        BY DEF PruneBlockIndexCandidates
  <2> HIDE DEF pruned, last
  <2> QED
    BY <1>1, <2>1
\* last is the lowest block of the branch at which the step stops.
<1>4. stops # {} => last \in stops /\ \A y \in stops : nHeight[last] <= nHeight[y]
  <2> SUFFICES ASSUME stops # {}
               PROVE  last \in stops /\ \A y \in stops : nHeight[last] <= nHeight[y]
    OBVIOUS
  <2>1. stops \in SUBSET Blocks
    BY <1>2
  <2>2. nHeight \in [Blocks -> Nat]
    BY Tree
  <2> HIDE DEF stops
  <2>3. \E x \in stops : \A y \in stops : nHeight[x] <= nHeight[y]
    BY <2>1, <2>2, Lowest
  <2> QED
    BY <2>3
<1>5. last \in Path[b] /\ (stops = {} => last = b)
    BY <1>2, <1>4, Tree
<1> HIDE DEF last
<1>6. \A x \in Path[last] : x \notin Path[tip] /\ x \in bad => x = last
  <2> SUFFICES ASSUME NEW x \in Path[last], x \notin Path[tip], x \in bad
               PROVE  x = last
    OBVIOUS
  <2>1. last \in Blocks /\ x \in Path[b] /\ x \in Blocks
    BY <1>2, <1>5, Tree
  <2>2. x \in stops
    BY <2>1, <1>2
  <2>3. nHeight[last] <= nHeight[x]
    BY <2>2, <1>4
  <2>4. x # last => nHeight[x] < nHeight[last]
    BY <2>1, Tree
  <2>5. nHeight[x] \in Nat /\ nHeight[last] \in Nat
    BY <2>1, Tree
  <2> QED
    BY <2>3, <2>4, <2>5
<1>7. /\ last \in Blocks
      /\ newTip \in Path[last]
      /\ newTip \in Blocks
      /\ Path[newTip] \subseteq Path[last]
      /\ last \in bad => last \notin Path[newTip]
      /\ Path[last] \subseteq {last} \cup Path[newTip]
      /\ last \notin bad => newTip = last
    BY <1>2, <1>5, Tree
<1> HIDE DEF newTip
<1>8. Path[last] \subseteq Path[b] /\ Path[newTip] \subseteq Path[b] /\ newTip \in Known
    BY <1>2, <1>5, <1>7, Tree
<1>9. Path[newTip] \ Path[tip] \subseteq connected
    BY <1>6, <1>7
<1>10. connected \subseteq Branch(b)
    BY <1>2, <1>8
<1>11. \A x \in connected : s.index[x] = index[x] /\ ~ Failed(index[x]) /\ index[x].haveData
    BY <1>2, <1>10 DEF Unusable
<1>12. connected \cap bad = {} /\ connected \cap Path[tip] = {} /\ connected \subseteq Path[newTip]
    BY <1>7
<1> HIDE DEF connected
<1>13. ASSUME NEW x \in Blocks
       PROVE  /\ idx[x] \in Entry
              /\ idx[x].known = s.index[x].known
              /\ idx[x].haveData = s.index[x].haveData
              /\ idx[x].nTx = s.index[x].nTx
              /\ idx[x].nChainTx = s.index[x].nChainTx
              /\ idx[x].nSequenceId = s.index[x].nSequenceId
              /\ s.index[x].failedValid => idx[x].failedValid
              /\ Failed(idx[x]) => Failed(s.index[x]) \/ idx[x].failedValid
              /\ \/ idx[x].validity = s.index[x].validity
                 \/ /\ idx[x].validity = BLOCK_VALID_SCRIPTS
                    /\ s.index[x].haveData
                    /\ x \in Path[newTip]
  <2>1. CASE x \in connected
    <3>1. idx[x] = RaiseValidity(s.index[x], BLOCK_VALID_SCRIPTS) /\ s.index[x] \in Entry
        BY <2>1
    <3>2. s.index[x].haveData /\ x \in Path[newTip]
        BY <2>1, <1>11, <1>12
    <3> HIDE DEF idx
    <3> DEFINE e == s.index[x]
    <3>3. e \in Entry /\ e.haveData /\ idx[x] = RaiseValidity(e, BLOCK_VALID_SCRIPTS)
        BY <3>1, <3>2
    <3> HIDE DEF e
    <3>4. /\ idx[x] \in Entry
          /\ idx[x].known = e.known
          /\ idx[x].haveData = e.haveData
          /\ idx[x].nTx = e.nTx
          /\ idx[x].nChainTx = e.nChainTx
          /\ idx[x].nSequenceId = e.nSequenceId
          /\ idx[x].validity \in {e.validity, BLOCK_VALID_SCRIPTS}
        BY <3>3, RaiseFacts
    <3>5. idx[x].failedValid = e.failedValid /\ idx[x].failedChild = e.failedChild
        BY ONLY <3>3, RaiseFacts
    <3> QED
        BY <3>2, <3>3, <3>4, <3>5 DEF e, Failed
  <2>2. CASE x \notin connected /\ x \in bad \cap {last}
    <3> DEFINE e == s.index[x]
    <3>1. idx[x] = [e EXCEPT !.failedValid = TRUE] /\ e \in Entry
        BY <2>2
    <3> HIDE DEF idx, e
    <3>2. /\ idx[x] \in Entry
          /\ idx[x].known = e.known
          /\ idx[x].haveData = e.haveData
          /\ idx[x].nTx = e.nTx
          /\ idx[x].nChainTx = e.nChainTx
          /\ idx[x].nSequenceId = e.nSequenceId
          /\ idx[x].validity = e.validity
          /\ idx[x].failedValid
        BY <3>1 DEF Entry
    <3> QED
        BY <3>2 DEF e
  <2>3. CASE x \notin connected /\ x \notin bad \cap {last}
    BY <2>3
  <2> QED
    BY <2>1, <2>2, <2>3
<1>14. ASSUME NEW x \in Path[newTip] \cap Path[tip]
       PROVE  idx[x] = index[x]
  <2>1. x \in Blocks /\ x \notin connected /\ x \notin bad \cap {last}
    BY <1>2, <1>7, <1>8, <1>12
  <2> QED
    BY <2>1
<1>15. ASSUME NEW x \in Path[newTip] \ Path[tip]
       PROVE  /\ x \notin bad
              /\ ~ Failed(idx[x])
              /\ idx[x].validity = BLOCK_VALID_SCRIPTS
  <2>1. x \in connected /\ x \in Blocks /\ x \notin bad
    BY <1>2, <1>8, <1>9, <1>12
  <2>2. idx[x] = RaiseValidity(s.index[x], BLOCK_VALID_SCRIPTS) /\ s.index[x] \in Entry
    BY <2>1
  <2>3. ~ Failed(s.index[x])
    BY <2>1, <1>11
  <2> HIDE DEF idx
  <2> QED
    BY <2>1, <2>2, <2>3, RaiseFacts
<1>16. idx \in [Blocks -> Entry]
  <2>1. idx = [x \in Blocks |-> idx[x]]
    OBVIOUS
  <2> HIDE DEF idx
  <2> QED
    BY <2>1, <1>13
<1> HIDE DEF idx
<1> QED
    BY <1>1, <1>3, <1>8, <1>13, <1>14, <1>15, <1>16
\* The blocks that FindMostWorkChain adds to mapBlocksUnlinked.
LEMMA WalkListed ==
    ASSUME NEW K \in SUBSET Blocks, NEW W \in SUBSET (Blocks \X K),
           NEW walk \in [1..Cardinality(W) -> W]
    PROVE  [i \in DOMAIN walk |-> walk[i][2]] \in Seq(K)
<1>1. IsFiniteSet(W)
  <2>1. IsFiniteSet(Blocks) /\ IsFiniteSet(K)
    BY BlockTreeAssumption, FS_Subset
  <2>2. IsFiniteSet(Blocks \X K)
    BY <2>1, FS_Product
  <2> QED
    BY <2>2, FS_Subset
<1>2. Cardinality(W) \in Nat
    BY <1>1, FS_CardinalityType
<1> DEFINE n == Cardinality(W)
           q == [i \in DOMAIN walk |-> walk[i][2]]
<1>3. DOMAIN walk = 1..n /\ n \in Nat /\ \A i \in 1..n : walk[i] \in Blocks \X K
    BY <1>2
<1> HIDE DEF n
<1>4. \A i \in 1..n : walk[i][2] \in K
    BY <1>3
<1>5. q \in [1..n -> K]
    BY <1>3, <1>4
<1> HIDE DEF q
<1>6. q \in Seq(K)
    BY <1>3, <1>5
<1> QED
    BY <1>6 DEF q

\* What a turn of the loop of ActivateBestChain may change.
Activation(bad) ==
    /\ tip' \in Known
    /\ candidates' \subseteq candidates
    /\ unlinked' \in Seq(Known \ {Genesis})
    /\ Range(unlinked') \subseteq Range(unlinked) \cup {x \in Blocks : index[x].haveData}
    /\ Range(unlinked) \subseteq Range(unlinked')
    /\ index' \in [Blocks -> Entry]
    /\ \A x \in Blocks :
          /\ index'[x].known = index[x].known
          /\ index'[x].haveData = index[x].haveData
          /\ index'[x].nTx = index[x].nTx
          /\ index'[x].nChainTx = index[x].nChainTx
          /\ index'[x].nSequenceId = index[x].nSequenceId
          /\ index[x].failedValid => index'[x].failedValid
          /\ Failed(index'[x]) => index'[x].failedValid \/ \E y \in Path[x] : Failed(index[y])
          /\ \/ index'[x].validity = index[x].validity
             \/ /\ index'[x].validity = BLOCK_VALID_SCRIPTS
                /\ index[x].haveData
                /\ x \in Path[tip']
    /\ \A x \in Path[tip'] \cap Path[tip] : index'[x] = index[x]
    /\ \A x \in Path[tip'] \ Path[tip] : /\ x \notin bad
                                         /\ ~ Failed(index'[x])
                                         /\ index'[x].validity = BLOCK_VALID_SCRIPTS
    /\ pc' \in [Threads -> {"idle", "find", "test"}]
    /\ mostWork' \in [Threads -> Blocks \cup {None}]
    /\ shutdown' \in BOOLEAN
    /\ UNCHANGED <<nextId, havePruned>>

LEMMA FindAndStepFacts ==
    ASSUME TypeOK, TipKnown, ValidKnown, NEW bad, Genesis \notin bad,
           NEW t \in Threads, FindAndStep(t, bad)
    PROVE  Activation(bad)
<1> DEFINE s == FindMostWorkChain
<1>1. /\ s.found \in candidates \cup {None}
      /\ s.found # None => s.found \in Known /\ Unusable(s.found) = {}
      /\ s.candidates \subseteq candidates
      /\ \A x \in Blocks : Marked(s.index[x], index[x])
      /\ s.index \in [Blocks -> Entry]
      /\ \A x \in Path[tip] : s.index[x] = index[x]
      /\ s.found # None => \A x \in Path[s.found] : s.index[x] = index[x]
      /\ s.walked \subseteq Blocks \X {x \in Known \ {Genesis} : index[x].haveData}
      /\ \A x \in Blocks : Failed(s.index[x]) => \E y \in Path[x] : Failed(index[y])
    BY FindFacts
<1>2. /\ index \in [Blocks -> Entry]
      /\ tip \in Known
      /\ tip \in Blocks
      /\ Known \subseteq Blocks
      /\ pc \in [Threads -> {"idle", "find", "test"}]
      /\ mostWork \in [Threads -> Blocks \cup {None}]
      /\ shutdown \in BOOLEAN
      /\ unlinked \in Seq(Known \ {Genesis})
    BY EntryBound DEF TypeOK, Known
<1>3. \A x \in Blocks : /\ s.index[x].known = index[x].known
                        /\ s.index[x].haveData = index[x].haveData
                        /\ s.index[x].nTx = index[x].nTx
                        /\ s.index[x].nChainTx = index[x].nChainTx
                        /\ s.index[x].nSequenceId = index[x].nSequenceId
                        /\ s.index[x].validity = index[x].validity
                        /\ s.index[x].failedValid = index[x].failedValid
    BY <1>1, <1>2, MarkedFacts
<1> HIDE DEF s
<1>4. /\ unlinked' \in Seq(Known \ {Genesis})
      /\ Range(unlinked') \subseteq Range(unlinked) \cup {x \in Blocks : index[x].haveData}
      /\ Range(unlinked) \subseteq Range(unlinked')
  <2>1. PICK walk \in Listings(s.walked, WalkedEarlier) :
            unlinked' = unlinked \o [i \in DOMAIN walk |-> walk[i][2]]
    BY DEF FindAndStep, s
  <2>2. walk \in [1..Cardinality(s.walked) -> s.walked]
    BY DEF Listings
  <2> DEFINE K == {x \in Known \ {Genesis} : index[x].haveData}
             W == s.walked
             q == [i \in DOMAIN walk |-> walk[i][2]]
  <2>3. /\ K \in SUBSET Blocks
        /\ W \in SUBSET (Blocks \X K)
        /\ walk \in [1..Cardinality(W) -> W]
        /\ K \subseteq Known \ {Genesis}
        /\ K \subseteq {x \in Blocks : index[x].haveData}
    BY <1>1, <1>2, <2>2
  <2> HIDE DEF K, W
  <2>4. q \in Seq(K)
    BY <2>3, WalkListed
  <2> HIDE DEF q
  <2>5. q \in Seq(Known \ {Genesis}) /\ Range(q) \subseteq K
    BY <2>3, <2>4, SeqOver
  <2>6. unlinked' = unlinked \o q
    BY <2>1 DEF q
  <2> DEFINE S == Known \ {Genesis}
  <2>7. unlinked \in Seq(S) /\ q \in Seq(S)
    BY <1>2, <2>5
  <2> HIDE DEF S
  <2>8. unlinked \o q \in Seq(S) /\ Range(unlinked \o q) = Range(unlinked) \cup Range(q)
    BY <2>7, ConcatRange
  <2> QED
    BY <2>3, <2>5, <2>6, <2>8 DEF S
<1>5. UNCHANGED <<nextId, havePruned>>
    BY DEF FindAndStep
\* Nothing to do, or a reorganisation that is too long.
<1>6. ASSUME index' = s.index, candidates' = s.candidates, tip' = tip,
             pc' = [pc EXCEPT ![t] = "idle"], mostWork' = mostWork, shutdown' \in BOOLEAN
      PROVE  Activation(bad)
    BY <1>1, <1>2, <1>3, <1>4, <1>5, <1>6 DEF Activation
\* A pruned block in the way.
<1>7. ASSUME index' = s.index, candidates' = s.candidates,
             Unreadable(s.found) # {},
             tip' = CHOOSE x \in Unreadable(s.found) :
                        \A y \in Unreadable(s.found) : nHeight[y] <= nHeight[x],
             pc' = [pc EXCEPT ![t] = "idle"], mostWork' = mostWork, shutdown' = TRUE
      PROVE  Activation(bad)
  <2>1. Unreadable(s.found) \in SUBSET Path[tip]
    BY DEF Unreadable, Disconnected
  <2>2. \E x \in Unreadable(s.found) : \A y \in Unreadable(s.found) : nHeight[y] <= nHeight[x]
    <3>1. IsTree(Blocks, Genesis, Parent)
        BY BlockTreeAssumption
    <3> QED
        BY <3>1, <2>1, <1>2, <1>7, PathDef, HeightDef, Highest
  <2>3. tip' \in Path[tip]
    BY <2>1, <2>2, <1>7
  <2>4. tip' \in Known /\ Path[tip'] \subseteq Path[tip]
    BY <2>3, <1>2, Tree DEF TipKnown
  <2> QED
    BY <2>4, <1>1, <1>2, <1>3, <1>4, <1>5, <1>7 DEF Activation
<1>8. ASSUME NEW r, s.found # None, r = ActivateBestChainStep(s, s.found, bad),
             index' = r.index, candidates' = r.candidates, tip' = r.tip,
             pc' = [pc EXCEPT ![t] = "test"],
             mostWork' = [mostWork EXCEPT ![t] = s.found], shutdown' = shutdown
      PROVE  Activation(bad)
  <2>1. s.found \in Known /\ Unusable(s.found) = {}
        /\ \A x \in Path[tip] \cup Path[s.found] : s.index[x] = index[x]
    BY <1>1, <1>8
  <2>2. /\ r.tip \in Known
        /\ r.candidates \subseteq s.candidates
        /\ r.index \in [Blocks -> Entry]
        /\ \A x \in Blocks :
              /\ r.index[x].known = s.index[x].known
              /\ r.index[x].haveData = s.index[x].haveData
              /\ r.index[x].nTx = s.index[x].nTx
              /\ r.index[x].nChainTx = s.index[x].nChainTx
              /\ r.index[x].nSequenceId = s.index[x].nSequenceId
              /\ s.index[x].failedValid => r.index[x].failedValid
              /\ Failed(r.index[x]) => Failed(s.index[x]) \/ r.index[x].failedValid
              /\ \/ r.index[x].validity = s.index[x].validity
                 \/ /\ r.index[x].validity = BLOCK_VALID_SCRIPTS
                    /\ s.index[x].haveData
                    /\ x \in Path[r.tip]
        /\ \A x \in Path[r.tip] \cap Path[tip] : r.index[x] = index[x]
        /\ \A x \in Path[r.tip] \ Path[tip] : /\ x \notin bad
                                              /\ ~ Failed(r.index[x])
                                              /\ r.index[x].validity = BLOCK_VALID_SCRIPTS
    BY <1>1, <1>8, <2>1, StepFacts
  <2>3. pc' \in [Threads -> {"idle", "find", "test"}]
        /\ mostWork' \in [Threads -> Blocks \cup {None}]
    BY <1>2, <1>8, <2>1
  <2>4. \A x \in Blocks :
            /\ index'[x].known = index[x].known
            /\ index'[x].haveData = index[x].haveData
            /\ index'[x].nTx = index[x].nTx
            /\ index'[x].nChainTx = index[x].nChainTx
            /\ index'[x].nSequenceId = index[x].nSequenceId
            /\ index[x].failedValid => index'[x].failedValid
            /\ Failed(index'[x]) => index'[x].failedValid \/ \E y \in Path[x] : Failed(index[y])
            /\ \/ index'[x].validity = index[x].validity
               \/ /\ index'[x].validity = BLOCK_VALID_SCRIPTS
                  /\ index[x].haveData
                  /\ x \in Path[tip']
    BY <1>1, <1>3, <1>8, <2>2
  <2>5. /\ tip' \in Known
        /\ candidates' \subseteq candidates
        /\ index' \in [Blocks -> Entry]
        /\ \A x \in Path[tip'] \cap Path[tip] : index'[x] = index[x]
        /\ \A x \in Path[tip'] \ Path[tip] : /\ x \notin bad
                                             /\ ~ Failed(index'[x])
                                             /\ index'[x].validity = BLOCK_VALID_SCRIPTS
    BY <1>1, <1>8, <2>2
  <2>6. shutdown' \in BOOLEAN
    BY <1>2, <1>8
  <2> QED
    BY <1>4, <1>5, <2>3, <2>4, <2>5, <2>6 DEF Activation
<1>9. \/ /\ index' = s.index /\ candidates' = s.candidates /\ tip' = tip
         /\ pc' = [pc EXCEPT ![t] = "idle"] /\ mostWork' = mostWork /\ shutdown' \in BOOLEAN
      \/ /\ index' = s.index /\ candidates' = s.candidates
         /\ Unreadable(s.found) # {}
         /\ tip' = CHOOSE x \in Unreadable(s.found) :
                        \A y \in Unreadable(s.found) : nHeight[y] <= nHeight[x]
         /\ pc' = [pc EXCEPT ![t] = "idle"] /\ mostWork' = mostWork /\ shutdown' = TRUE
      \/ \E r : /\ s.found # None /\ r = ActivateBestChainStep(s, s.found, bad)
                /\ index' = r.index /\ candidates' = r.candidates /\ tip' = r.tip
                /\ pc' = [pc EXCEPT ![t] = "test"]
                /\ mostWork' = [mostWork EXCEPT ![t] = s.found] /\ shutdown' = shutdown
    BY <1>2 DEF FindAndStep, s
<1> QED
    BY <1>6, <1>7, <1>8, <1>9
-----------------------------------------------------------------------------
(***************************************************************************)
(* The invariant.                                                          *)
(***************************************************************************)

\* A block that fails ContextualCheckBlock is never stored, so it cannot be
\* marked as failed once it is on the active chain.
StoredWellFormed ==
    \A b \in Blocks \ {Genesis} :
        index[b].haveData \/ index[b].validity >= BLOCK_VALID_TRANSACTIONS
        => b \notin Malformed

TreeInv ==
    /\ TypeOK
    /\ PathKnown
    /\ ValidKnown
    /\ StoredWellFormed
    /\ ActiveChainValid

\* What a header does to the index.
LEMMA HeaderFacts ==
    ASSUME TypeOK, NEW b \in Blocks \ {Genesis}, NEW idx, idx = WithHeader(b)
    PROVE  /\ idx \in [Blocks -> Entries]
           /\ \A x \in Blocks \ {b} : idx[x] = index[x]
           /\ idx[b].known
           /\ index[b].known => idx[b] = index[b]
           /\ ~ index[b].known => idx[b] = [Unknown EXCEPT !.known = TRUE,
                                                           !.validity = BLOCK_VALID_TREE]
           /\ {x \in Blocks : idx[x].known} = Known \cup {b}
<1> DEFINE new == [Unknown EXCEPT !.known = TRUE, !.validity = BLOCK_VALID_TREE]
<1>1. index \in [Blocks -> Entries] /\ MaxSequenceId \in Nat
    BY BlockTreeAssumption DEF TypeOK
<1>2. new \in Entries /\ new.known
  <2>1. Unknown \in Entries
    <3>1. 0 \in 0..MaxSequenceId
        BY <1>1
    <3> QED
        BY <3>1 DEF Entries, Unknown
  <2> QED
    BY <2>1 DEF Entries, BLOCK_VALID_TREE
<1> HIDE DEF new
<1>3. idx = IF index[b].known THEN index ELSE [index EXCEPT ![b] = new]
    BY DEF WithHeader, new
<1>4. idx \in [Blocks -> Entries] /\ \A x \in Blocks \ {b} : idx[x] = index[x]
    BY <1>1, <1>2, <1>3
<1>5. /\ idx[b].known
      /\ index[b].known => idx[b] = index[b]
      /\ ~ index[b].known => idx[b] = new
    BY <1>1, <1>2, <1>3
<1>6. {x \in Blocks : idx[x].known} = Known \cup {b}
    BY <1>4, <1>5 DEF Known
<1> QED
    BY <1>4, <1>5, <1>6 DEF new

\* A wider set of members.
LEMMA SeqGrows ==
    ASSUME NEW S, NEW T, S \subseteq T, NEW q \in Seq(S)
    PROVE  q \in Seq(T)
    BY SeqOver

\* What the arrival of the header or the data of b may change.
Arrival(b) ==
    /\ TypeOK'
    /\ ValidKnown'
    /\ tip' = tip
    /\ Known' = Known \cup {b}
    /\ \A x \in Blocks \ {b} : SameStatus(index'[x], index[x])
    /\ index[b].known /\ index[b].validity >= BLOCK_VALID_TRANSACTIONS =>
          index'[b].validity = index[b].validity
    /\ Failed(index'[b]) => b \in Malformed \/ (index[b].known /\ Failed(index[b]))
    /\ index'[b].haveData \/ index'[b].validity >= BLOCK_VALID_TRANSACTIONS =>
          \/ b \notin Malformed
          \/ index[b].haveData
          \/ index[b].validity >= BLOCK_VALID_TRANSACTIONS

LEMMA AcceptBlockHeaderFacts ==
    ASSUME TypeOK, ValidKnown, NEW b \in Announced, AcceptBlockHeader(b)
    PROVE  Arrival(b)
<1>1. b \in Blocks \ {Genesis}
    BY BlockTreeAssumption
<1>2. /\ index' = WithHeader(b)
      /\ ~ index[b].known
      /\ UNCHANGED <<candidates, unlinked, tip, nextId, havePruned, pc, mostWork, shutdown>>
    BY DEF AcceptBlockHeader
<1>3. /\ index' \in [Blocks -> Entries]
      /\ \A x \in Blocks \ {b} : index'[x] = index[x]
      /\ index'[b] = [Unknown EXCEPT !.known = TRUE, !.validity = BLOCK_VALID_TREE]
      /\ Known' = Known \cup {b}
    BY <1>1, <1>2, HeaderFacts DEF Known
<1>4. TypeOK'
  <2>1. unlinked' \in Seq(Known' \ {Genesis})
    <3>1. unlinked \in Seq(Known \ {Genesis}) /\ Known \ {Genesis} \subseteq Known' \ {Genesis}
        BY <1>3 DEF TypeOK
    <3> QED
        BY <3>1, <1>2, SeqGrows
  <2> QED
    BY <2>1, <1>2, <1>3 DEF TypeOK
<1>5. /\ index'[b].known
      /\ ~ index'[b].haveData
      /\ index'[b].validity = 2
      /\ ~ Failed(index'[b])
    BY <1>3 DEF Unknown, BLOCK_VALID_TREE, Failed
<1>6. ValidKnown'
    BY <1>3, <1>5 DEF ValidKnown
<1> QED
    BY <1>2, <1>3, <1>4, <1>5, <1>6 DEF Arrival, SameStatus, BLOCK_VALID_TRANSACTIONS

LEMMA ProcessNewBlockFacts ==
    ASSUME TypeOK, ValidKnown, NEW t \in Threads, NEW b \in Blocks \ {Genesis},
           NEW requested \in Requests, ProcessNewBlock(t, b, requested)
    PROVE  Arrival(b)
<1> DEFINE idx == WithHeader(b)
           s == ReceivedBlockTransactions(idx, b)
           stored == ~ index[b].haveData /\ Wanted(b, requested)
           start == [pc EXCEPT ![t] = "find"]
<1>1. /\ UNCHANGED <<tip, havePruned, mostWork, shutdown>>
      /\ \/ ~ stored /\ index' = idx /\ pc' = start /\ UNCHANGED <<candidates, unlinked, nextId>>
         \/ /\ stored /\ b \in Malformed
            /\ index' = [idx EXCEPT ![b].failedValid = TRUE]
            /\ UNCHANGED <<candidates, unlinked, nextId, pc>>
         \/ /\ stored /\ b \notin Malformed
            /\ index' = s.index /\ candidates' = s.candidates /\ unlinked' = s.unlinked
            /\ nextId' = s.nextId /\ pc' = start
  <2> HIDE DEF s, idx, start
  <2> QED
    BY DEF ProcessNewBlock, s, idx, start
<1> HIDE DEF stored
<1>2. /\ idx \in [Blocks -> Entries]
      /\ \A x \in Blocks \ {b} : idx[x] = index[x]
      /\ idx[b].known
      /\ index[b].known => idx[b] = index[b]
      /\ ~ index[b].known => idx[b] = [Unknown EXCEPT !.known = TRUE,
                                                      !.validity = BLOCK_VALID_TREE]
      /\ {x \in Blocks : idx[x].known} = Known \cup {b}
    BY HeaderFacts
<1> HIDE DEF idx
<1>3. \/ idx[b] = index[b] /\ index[b].known
      \/ /\ ~ index[b].known
         /\ ~ idx[b].haveData
         /\ idx[b].validity = 2
         /\ ~ Failed(idx[b])
    BY <1>2 DEF Unknown, BLOCK_VALID_TREE, Failed
<1>4. /\ Known \subseteq Blocks
      /\ start \in [Threads -> {"idle", "find", "test"}]
      /\ candidates \subseteq Known
      /\ unlinked \in Seq(Known \ {Genesis})
      /\ Range(unlinked) \subseteq Known \ {Genesis}
  <2>1. unlinked \in Seq(Known \ {Genesis})
    BY DEF TypeOK
  <2>2. Range(unlinked) \subseteq Known \ {Genesis}
    BY <2>1, SeqOver
  <2> QED
    BY <2>1, <2>2 DEF TypeOK, Known
<1>5. ASSUME \A x \in Blocks : index'[x].known = idx[x].known
      PROVE  Known' = Known \cup {b}
    BY <1>2, <1>5 DEF Known
<1>6. ASSUME index' \in [Blocks -> Entries],
             \A x \in Blocks : index'[x].known = idx[x].known,
             candidates' \subseteq Known \cup {b},
             Range(unlinked') \subseteq (Known \cup {b}) \ {Genesis},
             unlinked' \in Seq(Blocks),
             nextId' \in 1..(MaxSequenceId + 1),
             pc' \in [Threads -> {"idle", "find", "test"}]
      PROVE  TypeOK'
  <2>1. Known' = Known \cup {b}
    BY <1>5, <1>6
  <2>2. unlinked' \in Seq(Known' \ {Genesis})
    <3>1. Range(unlinked') \subseteq Known' \ {Genesis}
        BY <2>1, <1>6
    <3> QED
        BY <3>1, <1>6, SeqOver
  <2> QED
    BY <2>1, <2>2, <1>1, <1>6 DEF TypeOK
<1>7. Range(unlinked) \subseteq (Known \cup {b}) \ {Genesis} /\ unlinked \in Seq(Blocks)
      /\ nextId \in 1..(MaxSequenceId + 1) /\ pc \in [Threads -> {"idle", "find", "test"}]
  <2>1. unlinked \in Seq(Blocks)
    <3>1. Range(unlinked) \subseteq Blocks
        BY <1>4
    <3> QED
        BY <3>1, <1>4, SeqOver
  <2> QED
    BY <2>1, <1>4 DEF TypeOK
\* The data is not wanted, or it is there already.
<1>8. ASSUME index' = idx, pc' = start, UNCHANGED <<candidates, unlinked, nextId>>
      PROVE  Arrival(b)
  <2>1. TypeOK'
    BY <1>2, <1>4, <1>6, <1>7, <1>8
  <2>2. ValidKnown'
    BY <1>2, <1>8 DEF ValidKnown
  <2>3. Known' = Known \cup {b}
    BY <1>5, <1>8
  <2> QED
    BY <1>1, <1>2, <1>3, <1>8, <2>1, <2>2, <2>3
    DEF Arrival, SameStatus, BLOCK_VALID_TRANSACTIONS
\* A malformed block.
<1>9. ASSUME b \in Malformed, index' = [idx EXCEPT ![b].failedValid = TRUE],
             UNCHANGED <<candidates, unlinked, nextId, pc>>
      PROVE  Arrival(b)
  <2>1. /\ index' \in [Blocks -> Entries]
        /\ \A x \in Blocks : /\ index'[x].known = idx[x].known
                             /\ index'[x].haveData = idx[x].haveData
                             /\ index'[x].nTx = idx[x].nTx
                             /\ index'[x].validity = idx[x].validity
        /\ \A x \in Blocks \ {b} : index'[x] = index[x]
    <3> DEFINE e == [idx[b] EXCEPT !.failedValid = TRUE]
    <3>1. idx[b] \in Entries
        BY <1>2
    <3>2. /\ e \in Entries
          /\ e.known = idx[b].known
          /\ e.haveData = idx[b].haveData
          /\ e.nTx = idx[b].nTx
          /\ e.validity = idx[b].validity
        BY <3>1 DEF Entries
    <3>3. index' = [idx EXCEPT ![b] = e]
        BY <1>9
    <3> HIDE DEF e
    <3> QED
        BY <1>2, <3>2, <3>3
  <2>2. TypeOK'
    BY <1>4, <1>6, <1>7, <1>9, <2>1
  <2>3. Known' = Known \cup {b}
    BY <1>5, <2>1
  <2>4. ValidKnown'
    BY <1>2, <2>1 DEF ValidKnown
  <2> QED
    BY <1>1, <1>3, <1>9, <2>1, <2>2, <2>3, <2>4
    DEF Arrival, SameStatus, BLOCK_VALID_TRANSACTIONS
\* The data is stored.
<1>10. ASSUME b \notin Malformed, index' = s.index, candidates' = s.candidates,
              unlinked' = s.unlinked, nextId' = s.nextId, pc' = start
       PROVE  Arrival(b)
  <2>1. /\ index' \in [Blocks -> Entries]
        /\ \A x \in Blocks : SameStatus(index'[x], IF x = b THEN Filled(idx[b]) ELSE idx[x])
        /\ candidates' \subseteq candidates \cup {b} \cup Range(unlinked)
        /\ unlinked' \in Seq(Blocks)
        /\ Range(unlinked') \subseteq Range(unlinked) \cup {b}
        /\ nextId' \in 1..(MaxSequenceId + 1)
    BY <1>2, <1>10, ReceivedFacts
  <2>2. /\ Filled(idx[b]).known = idx[b].known
        /\ Filled(idx[b]).failedValid = idx[b].failedValid
        /\ Filled(idx[b]).failedChild = idx[b].failedChild
        /\ Filled(idx[b]).validity =
              IF ~ Failed(idx[b]) /\ idx[b].validity < 3 THEN 3 ELSE idx[b].validity
    <3>1. idx[b] \in Entry
        BY <1>2, EntryBound
    <3> QED
        BY <3>1, FilledFacts
  <2>3. \A x \in Blocks : index'[x].known = idx[x].known
    BY <2>1, <2>2 DEF SameStatus
  <2>4. TypeOK'
    BY <1>4, <1>6, <1>10, <2>1, <2>3
  <2>5. Known' = Known \cup {b}
    BY <1>5, <2>3
  <2>6. \A x \in Blocks \ {b} : SameStatus(index'[x], index[x])
    BY <1>2, <2>1
  <2>7. ValidKnown'
    BY <1>2, <2>3, <2>6 DEF ValidKnown, SameStatus
  <2>8. SameStatus(index'[b], Filled(idx[b]))
    BY <2>1
  <2>9. Failed(index'[b]) => index[b].known /\ Failed(index[b])
    BY <2>2, <2>8, <1>3 DEF Failed, SameStatus
  <2>10. index[b].known /\ index[b].validity >= BLOCK_VALID_TRANSACTIONS =>
            index'[b].validity = index[b].validity
    <3>1. index[b].validity \in {0, 2, 3, 5}
        BY DEF TypeOK, Entries
    <3> QED
        BY <3>1, <2>2, <2>8, <1>3 DEF SameStatus, BLOCK_VALID_TRANSACTIONS
  <2> QED
    BY <1>1, <1>10, <2>4, <2>5, <2>6, <2>7, <2>9, <2>10 DEF Arrival
<1> HIDE DEF s, start
<1> QED
    BY <1>1, <1>8, <1>9, <1>10

\* An arrival keeps the invariant.
LEMMA ArrivalInv ==
    ASSUME TreeInv, NEW b \in Blocks \ {Genesis}, HeaderAccepted(b), Arrival(b)
    PROVE  TreeInv'
<1>1. /\ TypeOK
      /\ PathKnown
      /\ StoredWellFormed
      /\ ActiveChainValid
    BY DEF TreeInv
<1>2. Path[b] \subseteq Known \cup {b}
  <2>1. CASE index[b].known
    BY <2>1, <1>1 DEF PathKnown, Known
  <2>2. CASE ~ index[b].known
    <3>1. index[Parent[b]].known /\ Parent[b] \in Blocks
        BY <2>2, Tree DEF HeaderAccepted
    <3>2. Path[Parent[b]] \subseteq Known
        BY <3>1, <1>1 DEF PathKnown, Known
    <3> QED
        BY <3>2, Tree
  <2> QED
    BY <2>1, <2>2
<1>3. PathKnown'
  <2>1. \A x \in Known \cup {b} : Path[x] \subseteq Known \cup {b}
    BY <1>1, <1>2 DEF PathKnown
  <2> QED
    BY <2>1 DEF PathKnown, Arrival
<1>4. StoredWellFormed'
    BY <1>1 DEF StoredWellFormed, Arrival, SameStatus
<1>5. ActiveChainValid'
  <2> SUFFICES ASSUME NEW x \in Path[tip] \ {Genesis}
               PROVE  /\ ~ Failed(index'[x])
                      /\ x \notin BadBlocks
                      /\ index'[x].validity >= BLOCK_VALID_SCRIPTS
    BY DEF ActiveChainValid, Arrival
  <2>1. /\ x \in Blocks
        /\ index[x].known
        /\ ~ Failed(index[x])
        /\ x \notin BadBlocks
        /\ index[x].validity >= BLOCK_VALID_SCRIPTS
    BY <1>1 DEF ActiveChainValid, TypeOK, PathKnown, Known
  <2>2. CASE x = b
    <3>1. index[b].validity >= BLOCK_VALID_TRANSACTIONS
      <4>1. index[b].validity \in {0, 2, 3, 5}
        BY <1>1 DEF TypeOK, Entries
      <4> QED
        BY <4>1, <2>1, <2>2 DEF BLOCK_VALID_TRANSACTIONS, BLOCK_VALID_SCRIPTS
    <3>2. b \notin Malformed
        BY <3>1, <1>1 DEF StoredWellFormed
    <3> QED
        BY <3>1, <3>2, <2>1, <2>2 DEF Arrival
  <2>3. CASE x # b
    BY <2>1, <2>3 DEF Arrival, SameStatus, Failed
  <2> QED
    BY <2>2, <2>3
<1> QED
    BY <1>3, <1>4, <1>5 DEF TreeInv, Arrival

LEMMA AcceptBlockHeaderInv ==
    ASSUME TreeInv, NEW b \in Announced, AcceptBlockHeader(b)
    PROVE  TreeInv'
<1>1. Arrival(b)
    BY AcceptBlockHeaderFacts DEF TreeInv
<1> QED
    BY <1>1, BlockTreeAssumption, ArrivalInv DEF AcceptBlockHeader

LEMMA ProcessNewBlockInv ==
    ASSUME TreeInv, NEW t \in Threads, NEW b \in Blocks \ {Genesis}, NEW requested \in Requests,
           ProcessNewBlock(t, b, requested)
    PROVE  TreeInv'
<1>1. Arrival(b)
    BY ProcessNewBlockFacts DEF TreeInv
<1>2. HeaderAccepted(b)
    BY DEF ProcessNewBlock
<1> QED
    BY <1>1, <1>2, ArrivalInv

\* A turn of the loop keeps the type of the state, whatever it rejects.
LEMMA ActivationType ==
    ASSUME TypeOK, NEW bad, Activation(bad)
    PROVE  TypeOK' /\ Known' = Known
<1>1. Known' = Known
    BY DEF Activation, Known
<1>2. index' \in [Blocks -> Entries]
  <2>1. ASSUME NEW x \in Blocks
        PROVE  index'[x] \in Entries
    <3>1. index'[x] \in Entry /\ index'[x].nSequenceId = index[x].nSequenceId
        BY DEF Activation
    <3>2. index[x].nSequenceId \in 0..MaxSequenceId
        BY DEF TypeOK, Entries
    <3> QED
        BY <3>1, <3>2, EntryBound
  <2>2. index' \in [Blocks -> Entry]
    BY DEF Activation
  <2> QED
    BY <2>1, <2>2
<1>3. TypeOK'
    BY <1>1, <1>2 DEF TypeOK, Activation
<1> QED
    BY <1>1, <1>3

LEMMA FindAndStepInv ==
    ASSUME TreeInv, NEW t \in Threads, FindAndStep(t, BadBlocks)
    PROVE  TreeInv'
<1>1. /\ TypeOK
      /\ PathKnown
      /\ ValidKnown
      /\ StoredWellFormed
      /\ ActiveChainValid
      /\ Genesis \notin BadBlocks
    BY BlockTreeAssumption DEF TreeInv
<1>2. Activation(BadBlocks)
  <2>1. TipKnown
    BY <1>1 DEF TipKnown, PathKnown, TypeOK
  <2> QED
    BY <1>1, <2>1, FindAndStepFacts
<1>3. TypeOK' /\ PathKnown' /\ Known' = Known
  <2>1. TypeOK' /\ Known' = Known
    BY <1>1, <1>2, ActivationType
  <2> QED
    BY <1>1, <2>1 DEF PathKnown
<1>4. StoredWellFormed'
    BY <1>1, <1>2 DEF StoredWellFormed, Activation
<1>5. ActiveChainValid'
  <2> SUFFICES ASSUME NEW x \in Path[tip'] \ {Genesis}
               PROVE  /\ ~ Failed(index'[x])
                      /\ x \notin BadBlocks
                      /\ index'[x].validity >= BLOCK_VALID_SCRIPTS
    BY DEF ActiveChainValid
  <2>1. CASE x \in Path[tip]
    <3>1. index'[x] = index[x]
        BY <2>1, <1>2 DEF Activation
    <3> QED
        BY <3>1, <2>1, <1>1 DEF ActiveChainValid
  <2>2. CASE x \notin Path[tip]
    BY <2>2, <1>2 DEF Activation, BLOCK_VALID_SCRIPTS
  <2> QED
    BY <2>1, <2>2
<1>6. ValidKnown'
    BY <1>1, <1>2 DEF ValidKnown, Activation
<1> QED
    BY <1>3, <1>4, <1>5, <1>6 DEF TreeInv

LEMMA LoopTestInv ==
    ASSUME TreeInv, NEW t \in Threads, LoopTest(t)
    PROVE  TreeInv'
<1>1. /\ UNCHANGED <<index, candidates, unlinked, tip, nextId, havePruned, shutdown>>
      /\ Known' = Known
    BY DEF LoopTest, Known
<1>2. /\ pc' \in [Threads -> {"idle", "find", "test"}]
      /\ mostWork' \in [Threads -> Blocks \cup {None}]
    BY DEF LoopTest, TreeInv, TypeOK
<1> QED
    BY <1>1, <1>2
    DEF TreeInv, TypeOK, PathKnown, ValidKnown, StoredWellFormed, ActiveChainValid

LEMMA InvalidateBlockInv ==
    ASSUME TreeInv, NEW t \in Threads, NEW b \in Invalidates, InvalidateBlock(t, b)
    PROVE  TreeInv'
<1> DEFINE above == IF b \in Path[tip] THEN Path[tip] \ Path[Parent[b]] ELSE {}
           newTip == IF b \in Path[tip] THEN Parent[b] ELSE tip
           entry(x) == [index[x] EXCEPT !.failedValid = @ \/ x = b,
                                        !.failedChild = @ \/ x \in above]
           idx == [x \in Blocks |-> entry(x)]
<1>1. /\ index' = idx
      /\ tip' = newTip
      /\ candidates' = (candidates \ (above \cup {b}))
                           \cup {x \in Eligible(idx) : ~ Worse(idx, x, newTip)}
      /\ pc' = [pc EXCEPT ![t] = "find"]
      /\ UNCHANGED <<unlinked, nextId, havePruned, mostWork, shutdown>>
  <2> HIDE DEF above, newTip
  <2> QED
    BY DEF InvalidateBlock, above, newTip
<1>2. /\ b \in Blocks \ {Genesis}
      /\ TypeOK
      /\ PathKnown
      /\ ValidKnown
      /\ StoredWellFormed
      /\ ActiveChainValid
    BY BlockTreeAssumption DEF TreeInv
<1>3. ASSUME NEW x \in Blocks
      PROVE  /\ entry(x) \in Entries
             /\ entry(x).known = index[x].known
             /\ entry(x).haveData = index[x].haveData
             /\ entry(x).nTx = index[x].nTx
             /\ entry(x).validity = index[x].validity
             /\ entry(x).nChainTx = index[x].nChainTx
             /\ x # b /\ x \notin above => (Failed(entry(x)) <=> Failed(index[x]))
  <2>1. index[x] \in Entries
    BY <1>2 DEF TypeOK
  <2> HIDE DEF above
  <2> QED
    BY <2>1 DEF Entries, Failed
<1> HIDE DEF entry
<1>4. /\ idx \in [Blocks -> Entries]
      /\ \A x \in Blocks : /\ idx[x].known = index[x].known
                           /\ idx[x].haveData = index[x].haveData
                           /\ idx[x].nTx = index[x].nTx
                           /\ idx[x].validity = index[x].validity
                           /\ x # b /\ x \notin above => (Failed(idx[x]) <=> Failed(index[x]))
    BY <1>3
<1> HIDE DEF idx
<1>5. Known' = Known /\ newTip \in Known /\ newTip \in Blocks /\ Path[newTip] \subseteq Path[tip]
  <2>1. Known' = Known
    BY <1>1, <1>4 DEF Known
  <2>2. tip \in Known /\ tip \in Blocks /\ Path[tip] \subseteq Known
    BY <1>2 DEF TypeOK, Known, PathKnown
  <2>3. newTip \in Path[tip]
    BY <1>2, <2>2, Tree
  <2> QED
    BY <2>1, <2>2, <2>3, Tree DEF Known
<1>6. Path[newTip] \cap (above \cup {b}) = {}
    BY <1>2, Tree
<1>7. Eligible(idx) \subseteq Known
  <2> SUFFICES ASSUME NEW x \in Eligible(idx)
               PROVE  x \in Known
    OBVIOUS
  <2>1. x \in Blocks /\ idx[x].validity >= 3
    BY DEF Eligible, IsValid, BLOCK_VALID_TRANSACTIONS
  <2>2. index[x].validity # 0
    BY <2>1, <1>4
  <2> QED
    BY <2>1, <2>2, <1>2 DEF ValidKnown, Known
<1>8. TypeOK'
  <2>1. candidates' \subseteq Known
    BY <1>1, <1>2, <1>7 DEF TypeOK
  <2>2. pc' \in [Threads -> {"idle", "find", "test"}]
    BY <1>1, <1>2 DEF TypeOK
  <2> QED
    BY <2>1, <2>2, <1>1, <1>2, <1>4, <1>5 DEF TypeOK
<1>9. PathKnown'
    BY <1>2, <1>5 DEF PathKnown
<1>10. ValidKnown' /\ StoredWellFormed'
    BY <1>1, <1>2, <1>4 DEF ValidKnown, StoredWellFormed
<1>11. ActiveChainValid'
  <2> SUFFICES ASSUME NEW x \in Path[newTip] \ {Genesis}
               PROVE  /\ ~ Failed(idx[x])
                      /\ x \notin BadBlocks
                      /\ idx[x].validity >= BLOCK_VALID_SCRIPTS
    BY <1>1 DEF ActiveChainValid
  <2>1. x \in Blocks /\ x \in Path[tip] /\ x # b /\ x \notin above
    BY <1>5, <1>6, Tree
  <2> QED
    BY <2>1, <1>2, <1>4 DEF ActiveChainValid
<1> QED
    BY <1>8, <1>9, <1>10, <1>11 DEF TreeInv

LEMMA ReconsiderBlockInv ==
    ASSUME TreeInv, NEW t \in Threads, NEW b \in Reconsiders, ReconsiderBlock(t, b)
    PROVE  TreeInv'
<1> DEFINE below == {x \in Blocks : /\ b \in Path[x] /\ index[x].known
                                    /\ ~ IsValid(index[x], BLOCK_VALID_TRANSACTIONS)}
           entry(x) == IF x \in below \cup Path[b]
                       THEN [index[x] EXCEPT !.failedValid = FALSE, !.failedChild = FALSE]
                       ELSE index[x]
           idx == [x \in Blocks |-> entry(x)]
<1>1. /\ index' = idx
      /\ candidates' = candidates \cup {x \in below \cap Eligible(idx) : Worse(idx, tip, x)}
      /\ pc' = [pc EXCEPT ![t] = "find"]
      /\ UNCHANGED <<unlinked, tip, nextId, havePruned, mostWork, shutdown>>
    BY DEF ReconsiderBlock
<1>2. TypeOK /\ PathKnown /\ ValidKnown /\ StoredWellFormed /\ ActiveChainValid
    BY DEF TreeInv
<1>3. below \subseteq Known
    BY DEF Known
<1> HIDE DEF below
<1>4. ASSUME NEW x \in Blocks
      PROVE  /\ entry(x) \in Entries
             /\ entry(x).known = index[x].known
             /\ entry(x).haveData = index[x].haveData
             /\ entry(x).nTx = index[x].nTx
             /\ entry(x).validity = index[x].validity
             /\ Failed(entry(x)) => Failed(index[x])
  <2>1. index[x] \in Entries
    BY <1>2 DEF TypeOK
  <2>2. CASE x \in below \cup Path[b]
    BY <2>1, <2>2 DEF Entries, Failed
  <2>3. CASE x \notin below \cup Path[b]
    BY <2>1, <2>3
  <2> QED
    BY <2>2, <2>3
<1> HIDE DEF entry
<1>5. /\ idx \in [Blocks -> Entries]
      /\ \A x \in Blocks : /\ idx[x].known = index[x].known
                           /\ idx[x].haveData = index[x].haveData
                           /\ idx[x].nTx = index[x].nTx
                           /\ idx[x].validity = index[x].validity
                           /\ Failed(idx[x]) => Failed(index[x])
    BY <1>4
<1> HIDE DEF idx
<1>6. Known' = Known
    BY <1>1, <1>5 DEF Known
<1>7. TypeOK'
  <2>1. candidates' \subseteq Known
    BY <1>1, <1>2, <1>3 DEF TypeOK
  <2>2. pc' \in [Threads -> {"idle", "find", "test"}]
    BY <1>1, <1>2 DEF TypeOK
  <2> QED
    BY <2>1, <2>2, <1>1, <1>2, <1>5, <1>6 DEF TypeOK
<1>8. PathKnown' /\ ValidKnown' /\ StoredWellFormed'
    BY <1>1, <1>2, <1>5, <1>6 DEF PathKnown, ValidKnown, StoredWellFormed
<1>9. ActiveChainValid'
  <2>1. Path[tip] \subseteq Blocks
    BY <1>2, Tree DEF TypeOK, Known
  <2> QED
    BY <2>1, <1>1, <1>2, <1>5 DEF ActiveChainValid
<1> QED
    BY <1>7, <1>8, <1>9 DEF TreeInv

\* Pruning changes BLOCK_HAVE_DATA of one block, and mapBlocksUnlinked.
LEMMA PruneFacts ==
    ASSUME TypeOK, NEW b \in Blocks, PruneOneBlockFile(b)
    PROVE  /\ TypeOK'
           /\ Known' = Known
           /\ tip' = tip
           /\ \A x \in Blocks : /\ index'[x].known = index[x].known
                                /\ index'[x].validity = index[x].validity
                                /\ index'[x].nTx = index[x].nTx
                                /\ index'[x].failedValid = index[x].failedValid
                                /\ index'[x].failedChild = index[x].failedChild
                                /\ index'[x].haveData = (index[x].haveData /\ x # b)
<1> DEFINE e == [index[b] EXCEPT !.haveData = FALSE]
<1>1. /\ index' = [index EXCEPT ![b] = e]
      /\ unlinked' = Only(unlinked, Blocks \ {b})
      /\ havePruned' = TRUE
      /\ UNCHANGED <<candidates, tip, nextId, pc, mostWork, shutdown>>
    BY DEF PruneOneBlockFile
<1>2. index \in [Blocks -> Entries] /\ index[b] \in Entries
    BY DEF TypeOK
<1>3. /\ e \in Entries
      /\ e.known = index[b].known
      /\ e.validity = index[b].validity
      /\ e.nTx = index[b].nTx
      /\ e.failedValid = index[b].failedValid
      /\ e.failedChild = index[b].failedChild
      /\ e.haveData = FALSE
    BY <1>2 DEF Entries
<1> HIDE DEF e
<1>4. /\ index' \in [Blocks -> Entries]
      /\ \A x \in Blocks : /\ index'[x].known = index[x].known
                           /\ index'[x].validity = index[x].validity
                           /\ index'[x].nTx = index[x].nTx
                           /\ index'[x].failedValid = index[x].failedValid
                           /\ index'[x].failedChild = index[x].failedChild
  <2>1. index' \in [Blocks -> Entries] /\ \A x \in Blocks : index'[x] = IF x = b THEN e ELSE index[x]
    BY <1>1, <1>2, <1>3
  <2> QED
    BY <2>1, <1>3
<1>5. \A x \in Blocks : index'[x].haveData = (index[x].haveData /\ x # b)
  <2> SUFFICES ASSUME NEW x \in Blocks
               PROVE  index'[x].haveData = (index[x].haveData /\ x # b)
    OBVIOUS
  <2>1. index[x].haveData \in BOOLEAN
    BY <1>2 DEF Entries
  <2>2. CASE x = b
    BY <2>2, <1>1, <1>2, <1>3
  <2>3. CASE x # b
    BY <2>1, <2>3, <1>1, <1>2
  <2> QED
    BY <2>2, <2>3
<1>6. Known' = Known
    BY <1>4 DEF Known
<1>7. unlinked' \in Seq(Known' \ {Genesis})
  <2>1. unlinked \in Seq(Known \ {Genesis})
    BY DEF TypeOK
  <2> QED
    BY <2>1, <1>1, <1>6, OnlyFacts
<1>8. TypeOK'
    BY <1>1, <1>4, <1>6, <1>7 DEF TypeOK
<1> QED
    BY <1>1, <1>4, <1>5, <1>6, <1>8

LEMMA PruneOneBlockFileInv ==
    ASSUME TreeInv, NEW b \in Blocks, PruneOneBlockFile(b)
    PROVE  TreeInv'
<1>1. TypeOK /\ PathKnown /\ ValidKnown /\ StoredWellFormed /\ ActiveChainValid
    BY DEF TreeInv
<1>2. /\ TypeOK'
      /\ Known' = Known
      /\ tip' = tip
      /\ \A x \in Blocks : /\ index'[x].known = index[x].known
                           /\ index'[x].validity = index[x].validity
                           /\ index'[x].nTx = index[x].nTx
                           /\ index'[x].failedValid = index[x].failedValid
                           /\ index'[x].failedChild = index[x].failedChild
                           /\ index'[x].haveData => index[x].haveData
    BY <1>1, PruneFacts
<1>3. PathKnown' /\ ValidKnown' /\ StoredWellFormed'
    BY <1>1, <1>2 DEF PathKnown, ValidKnown, StoredWellFormed
<1>4. ActiveChainValid'
  <2>1. Path[tip] \subseteq Blocks
    BY <1>1, Tree DEF TypeOK, Known
  <2> QED
    BY <2>1, <1>1, <1>2 DEF ActiveChainValid, Failed
<1> QED
    BY <1>2, <1>3, <1>4 DEF TreeInv

LEMMA InitInv ==
    ASSUME Init
    PROVE  TreeInv
<1>1. MaxSequenceId \in Nat /\ Genesis \in Blocks
    BY BlockTreeAssumption, Tree
<1>2. Unknown \in Entries /\ GenesisEntry \in Entries
  <2>1. 0 \in 0..MaxSequenceId
    BY <1>1
  <2>2. Unknown \in Entries
    BY <2>1 DEF Entries, Unknown
  <2> QED
    BY <2>2 DEF Entries, GenesisEntry, BLOCK_VALID_TRANSACTIONS
<1>3. /\ GenesisEntry.known
      /\ ~ Unknown.known
      /\ ~ Unknown.haveData
      /\ ~ Unknown.nTx
      /\ Unknown.validity = 0
    BY DEF GenesisEntry, Unknown
<1>4. \A b \in Blocks : index[b] = IF b = Genesis THEN GenesisEntry ELSE Unknown
    BY DEF Init
<1>5. Known = {Genesis}
    BY <1>1, <1>3, <1>4 DEF Known
<1>6. TypeOK
  <2>1. index \in [Blocks -> Entries]
    BY <1>2 DEF Init
  <2>2. nextId \in 1..(MaxSequenceId + 1)
    BY <1>1 DEF Init
  <2>3. unlinked \in Seq(Known \ {Genesis})
    BY DEF Init
  <2> QED
    BY <2>1, <2>2, <2>3, <1>5 DEF Init, TypeOK
<1>7. PathKnown
    BY <1>5, Tree DEF PathKnown
<1>8. ValidKnown /\ StoredWellFormed
    BY <1>3, <1>4 DEF ValidKnown, StoredWellFormed, BLOCK_VALID_TRANSACTIONS
<1>9. ActiveChainValid
    BY Tree DEF ActiveChainValid, Init
<1> QED
    BY <1>6, <1>7, <1>8, <1>9 DEF TreeInv

LEMMA NextInv ==
    ASSUME TreeInv, [Next]_vars
    PROVE  TreeInv'
<1>1. CASE Next
    BY <1>1, AcceptBlockHeaderInv, ProcessNewBlockInv, FindAndStepInv, LoopTestInv,
       InvalidateBlockInv, ReconsiderBlockInv, PruneOneBlockFileInv DEF Next, Step
<1>2. CASE UNCHANGED vars
    BY <1>2 DEF vars, TreeInv, TypeOK, Known, PathKnown, ValidKnown, StoredWellFormed,
                ActiveChainValid
<1> QED
    BY <1>1, <1>2

\* The type of the block index, the candidates and mapBlocksUnlinked is kept by
\* every handler, and no block of the active chain is one that failed or that
\* ConnectBlock rejects: for every tree of blocks and every interleaving.
THEOREM AlwaysActiveChainValid == Spec => [](TypeOK /\ ActiveChainValid)
<1>1. Spec => []TreeInv
    BY InitInv, NextInv, PTL DEF Spec
<1>2. TreeInv => TypeOK /\ ActiveChainValid
    BY DEF TreeInv
<1> QED
    BY <1>1, <1>2, PTL
-----------------------------------------------------------------------------
(***************************************************************************)
(* The second invariant: nTx, nChainTx, sequence ids and validity agree.   *)
(***************************************************************************)

\* The entry of a block agrees with itself and with those of its ancestors.
EntrySound(b) ==
    /\ index[b].haveData => index[b].nTx
    /\ ~ havePruned /\ index[b].nTx => index[b].haveData
    /\ index[b].validity >= BLOCK_VALID_TRANSACTIONS <=> index[b].nTx
    /\ index[b].nChainTx => index[b].nTx /\ \A x \in Path[b] : index[x].nChainTx
    /\ ~ index[b].nChainTx => index[b].nSequenceId = 0
    /\ index[b].known => index[b].validity >= BLOCK_VALID_TREE

\* SCRIPTS validity is inherited.
ScriptsInherited ==
    \A b \in Blocks :
        index[b].validity >= BLOCK_VALID_SCRIPTS =>
            \A x \in Path[b] \ {Genesis} : index[x].validity >= BLOCK_VALID_SCRIPTS

\* The blocks that wait for a parent were processed; the candidates are linked
\* and so is the genesis block.
ListsSound ==
    /\ index[Genesis].nChainTx
    /\ \A x \in Range(unlinked) : index[x].nTx
    /\ \A x \in candidates : index[x].nChainTx

LinkInv ==
    /\ \A b \in Blocks : EntrySound(b)
    /\ ScriptsInherited
    /\ ListsSound

\* What leaves nTx, nChainTx and the sequence ids alone keeps the invariant, if
\* validity grows along the active chain only, and data is lost by pruning only.
Quiet ==
    /\ \A x \in Blocks :
          /\ index'[x].nTx = index[x].nTx
          /\ index'[x].nChainTx = index[x].nChainTx
          /\ index'[x].nSequenceId = index[x].nSequenceId
          /\ index'[x].haveData => index[x].haveData
          /\ havePruned' \/ (index[x].haveData => index'[x].haveData)
          /\ index'[x].known => index[x].known \/ index'[x].validity >= 2
          /\ \/ index'[x].validity = index[x].validity
             \/ index[x].validity <= index'[x].validity /\ index'[x].validity < 3
             \/ index'[x].validity = 5 /\ index[x].haveData /\ x \in Path[tip']
    /\ havePruned => havePruned'
    /\ Range(unlinked') \subseteq Range(unlinked) \cup {x \in Blocks : index[x].haveData}
    /\ \/ Range(unlinked) \subseteq Range(unlinked')
       \/ \E b \in Range(unlinked) : PruneOneBlockFile(b)
    /\ candidates' \subseteq candidates \cup {x \in Blocks : index[x].nChainTx}

LEMMA QuietInv ==
    ASSUME TreeInv, TreeInv', LinkInv, Quiet
    PROVE  LinkInv'
<1>1. /\ \A b \in Blocks : EntrySound(b)
      /\ ScriptsInherited
      /\ ListsSound
    BY DEF LinkInv
<1>2. /\ \A b \in Blocks : index[b].validity \in {0, 2, 3, 5} /\ index'[b].validity \in {0, 2, 3, 5}
      /\ tip' \in Blocks
      /\ Range(unlinked) \subseteq Blocks
      /\ candidates \subseteq Blocks
  <2>1. TypeOK /\ TypeOK'
    BY DEF TreeInv
  <2>2. /\ index \in [Blocks -> Entries]
        /\ index' \in [Blocks -> Entries]
        /\ tip' \in Blocks
        /\ candidates \subseteq Blocks
        /\ unlinked \in Seq(Known \ {Genesis})
        /\ Known \subseteq Blocks
    BY <2>1 DEF TypeOK, Known
  <2>3. Range(unlinked) \subseteq Known \ {Genesis}
    BY <2>2, SeqOver
  <2> QED
    BY <2>2, <2>3 DEF Entries
<1>3. ASSUME NEW b \in Blocks
      PROVE  EntrySound(b)'
  <2>1. EntrySound(b) /\ Path[b] \subseteq Blocks
    BY <1>1, Tree
  <2>2. index'[b].validity >= 3 <=> index'[b].nTx
    BY <2>1, <1>2 DEF EntrySound, Quiet, BLOCK_VALID_TRANSACTIONS
  <2>3. index'[b].haveData => index'[b].nTx
    BY <2>1 DEF EntrySound, Quiet
  <2>4. ~ havePruned' /\ index'[b].nTx => index'[b].haveData
    BY <2>1 DEF EntrySound, Quiet
  <2>5. index'[b].nChainTx => index'[b].nTx /\ \A x \in Path[b] : index'[x].nChainTx
    BY <2>1 DEF EntrySound, Quiet
  <2>6. ~ index'[b].nChainTx => index'[b].nSequenceId = 0
    BY <2>1 DEF EntrySound, Quiet
  <2>7. index'[b].known => index'[b].validity >= 2
    BY <2>1, <1>2 DEF EntrySound, Quiet, BLOCK_VALID_TREE
  <2> QED
    BY <2>2, <2>3, <2>4, <2>5, <2>6, <2>7 DEF EntrySound, BLOCK_VALID_TRANSACTIONS, BLOCK_VALID_TREE
<1>4. ScriptsInherited'
  <2> SUFFICES ASSUME NEW b \in Blocks, index'[b].validity >= 5,
                      NEW x \in Path[b] \ {Genesis}
               PROVE  index'[x].validity >= 5
    BY DEF ScriptsInherited, BLOCK_VALID_SCRIPTS
  <2>1. x \in Blocks
    BY Tree
  <2>2. CASE index[b].validity >= 5
    <3>1. index[x].validity >= 5
        BY <2>2, <1>1 DEF ScriptsInherited, BLOCK_VALID_SCRIPTS
    <3> QED
        BY <3>1, <2>1, <1>2 DEF Quiet
  <2>3. CASE ~ (index[b].validity >= 5)
    <3>1. b \in Path[tip']
        BY <2>3, <1>2 DEF Quiet
    <3>2. x \in Path[tip']
        BY <3>1, <1>2, Tree
    <3> QED
        BY <3>2 DEF TreeInv, ActiveChainValid, BLOCK_VALID_SCRIPTS
  <2> QED
    BY <2>2, <2>3
<1>5. ListsSound'
  <2>1. \A x \in Blocks : index[x].haveData => index[x].nTx
    BY <1>1 DEF EntrySound
  <2> QED
    BY <2>1, <1>1, <1>2, Tree DEF ListsSound, Quiet
<1> QED
    BY <1>3, <1>4, <1>5 DEF LinkInv

\* A header changes nothing that the invariant is about.
LEMMA HeaderQuiet ==
    ASSUME TreeInv, LinkInv, NEW b \in Blocks \ {Genesis}, NEW idx, idx = WithHeader(b)
    PROVE  \A x \in Blocks :
              /\ idx[x].nTx = index[x].nTx
              /\ idx[x].nChainTx = index[x].nChainTx
              /\ idx[x].nSequenceId = index[x].nSequenceId
              /\ idx[x].haveData = index[x].haveData
              /\ \/ idx[x].validity = index[x].validity
                 \/ index[x].validity <= idx[x].validity /\ idx[x].validity < 3
              /\ idx[x].known => index[x].known \/ idx[x].validity >= 2
<1>1. /\ \A x \in Blocks \ {b} : idx[x] = index[x]
      /\ index[b].known => idx[b] = index[b]
      /\ ~ index[b].known => idx[b] = [Unknown EXCEPT !.known = TRUE,
                                                      !.validity = BLOCK_VALID_TREE]
    BY HeaderFacts DEF TreeInv
<1>2. CASE index[b].known
    BY <1>1, <1>2
<1>3. CASE ~ index[b].known
  <2>1. /\ ~ index[b].haveData
        /\ ~ index[b].nTx
        /\ index[b].validity = 0
        /\ index[b] \in Entries
        /\ EntrySound(b)
    BY <1>3 DEF TreeInv, TypeOK, ValidKnown, LinkInv
  <2>2. /\ index[b].haveData = FALSE
        /\ index[b].nTx = FALSE
        /\ index[b].nChainTx = FALSE
    BY <2>1 DEF EntrySound, Entries
  <2>3. index[b].nSequenceId = 0
    BY <2>1, <2>2 DEF EntrySound
  <2>4. /\ idx[b].nTx = FALSE
        /\ idx[b].nChainTx = FALSE
        /\ idx[b].nSequenceId = 0
        /\ idx[b].haveData = FALSE
        /\ idx[b].validity = 2
    BY <1>1, <1>3 DEF Unknown, BLOCK_VALID_TREE
  <2>5. index[b].validity <= idx[b].validity /\ idx[b].validity < 3 /\ idx[b].validity >= 2
    BY <2>1, <2>4
  <2>6. ASSUME NEW x \in Blocks, x # b
        PROVE  idx[x] = index[x]
    BY <2>6, <1>1
  <2> QED
    BY <2>2, <2>3, <2>4, <2>5, <2>6
<1> QED
    BY <1>2, <1>3


LEMMA AcceptBlockHeaderQuiet ==
    ASSUME TreeInv, LinkInv, NEW b \in Announced, AcceptBlockHeader(b)
    PROVE  Quiet
<1>1. b \in Blocks \ {Genesis}
    BY BlockTreeAssumption
<1>2. /\ index' = WithHeader(b)
      /\ UNCHANGED <<candidates, unlinked, tip, nextId, havePruned>>
    BY DEF AcceptBlockHeader
<1> QED
    BY <1>1, <1>2, HeaderQuiet DEF Quiet

LEMMA LoopTestQuiet ==
    ASSUME TreeInv, LinkInv, NEW t \in Threads, LoopTest(t)
    PROVE  Quiet
    BY DEF LoopTest, Quiet

LEMMA FindAndStepQuiet ==
    ASSUME TreeInv, LinkInv, NEW t \in Threads, FindAndStep(t, BadBlocks)
    PROVE  Quiet
<1>1. TypeOK /\ ValidKnown /\ TipKnown /\ Genesis \notin BadBlocks
    BY BlockTreeAssumption DEF TreeInv, TipKnown, PathKnown, TypeOK
<1>2. Activation(BadBlocks)
    BY <1>1, FindAndStepFacts
<1> QED
    BY <1>2 DEF Activation, Quiet, BLOCK_VALID_SCRIPTS

LEMMA InvalidateBlockQuiet ==
    ASSUME TreeInv, LinkInv, NEW t \in Threads, NEW b \in Invalidates, InvalidateBlock(t, b)
    PROVE  Quiet
<1> DEFINE above == IF b \in Path[tip] THEN Path[tip] \ Path[Parent[b]] ELSE {}
           newTip == IF b \in Path[tip] THEN Parent[b] ELSE tip
           entry(x) == [index[x] EXCEPT !.failedValid = @ \/ x = b,
                                        !.failedChild = @ \/ x \in above]
           idx == [x \in Blocks |-> entry(x)]
<1>1. /\ index' = idx
      /\ candidates' = (candidates \ (above \cup {b}))
                           \cup {x \in Eligible(idx) : ~ Worse(idx, x, newTip)}
      /\ UNCHANGED <<unlinked, havePruned>>
  <2> HIDE DEF above, newTip
  <2> QED
    BY DEF InvalidateBlock, above, newTip
<1> HIDE DEF above, newTip
<1>2. ASSUME NEW x \in Blocks
      PROVE  /\ idx[x].haveData = index[x].haveData
             /\ idx[x].nTx = index[x].nTx
             /\ idx[x].validity = index[x].validity
             /\ idx[x].nChainTx = index[x].nChainTx
             /\ idx[x].known = index[x].known
             /\ idx[x].nSequenceId = index[x].nSequenceId
  <2>1. index[x] \in Entries /\ idx[x] = entry(x)
    BY DEF TreeInv, TypeOK
  <2> HIDE DEF idx
  <2> QED
    BY <2>1 DEF Entries
<1> HIDE DEF idx
<1>3. Eligible(idx) \subseteq {x \in Blocks : index[x].nChainTx}
    BY <1>2 DEF Eligible
<1> QED
    BY <1>1, <1>2, <1>3 DEF Quiet

LEMMA ReconsiderBlockQuiet ==
    ASSUME TreeInv, LinkInv, NEW t \in Threads, NEW b \in Reconsiders, ReconsiderBlock(t, b)
    PROVE  Quiet
<1> DEFINE below == {x \in Blocks : /\ b \in Path[x] /\ index[x].known
                                    /\ ~ IsValid(index[x], BLOCK_VALID_TRANSACTIONS)}
           entry(x) == IF x \in below \cup Path[b]
                       THEN [index[x] EXCEPT !.failedValid = FALSE, !.failedChild = FALSE]
                       ELSE index[x]
           idx == [x \in Blocks |-> entry(x)]
<1>1. /\ index' = idx
      /\ candidates' = candidates \cup {x \in below \cap Eligible(idx) : Worse(idx, tip, x)}
      /\ UNCHANGED <<unlinked, tip, havePruned>>
    BY DEF ReconsiderBlock
<1> HIDE DEF below
<1>2. ASSUME NEW x \in Blocks
      PROVE  /\ idx[x].haveData = index[x].haveData
             /\ idx[x].nTx = index[x].nTx
             /\ idx[x].validity = index[x].validity
             /\ idx[x].nChainTx = index[x].nChainTx
             /\ idx[x].known = index[x].known
             /\ idx[x].nSequenceId = index[x].nSequenceId
  <2>1. index[x] \in Entries /\ idx[x] = entry(x)
    BY DEF TreeInv, TypeOK
  <2> HIDE DEF idx
  <2>2. CASE x \in below \cup Path[b]
    BY <2>1, <2>2 DEF Entries
  <2>3. CASE x \notin below \cup Path[b]
    BY <2>1, <2>3
  <2> QED
    BY <2>2, <2>3
<1> HIDE DEF idx
<1>3. Eligible(idx) \subseteq {x \in Blocks : index[x].nChainTx}
    BY <1>2 DEF Eligible
<1> QED
    BY <1>1, <1>2, <1>3 DEF Quiet

LEMMA PruneOneBlockFileQuiet ==
    ASSUME TreeInv, LinkInv, NEW b \in Blocks, PruneOneBlockFile(b)
    PROVE  Quiet
<1> DEFINE e == [index[b] EXCEPT !.haveData = FALSE]
<1>1. /\ index' = [index EXCEPT ![b] = e]
      /\ unlinked' = Only(unlinked, Blocks \ {b})
      /\ havePruned' = TRUE
      /\ UNCHANGED <<candidates, tip>>
    BY DEF PruneOneBlockFile
<1>2. /\ index \in [Blocks -> Entries]
      /\ index[b] \in Entries
      /\ unlinked \in Seq(Known \ {Genesis})
    BY DEF TreeInv, TypeOK
<1>3. /\ e.haveData = FALSE
      /\ e.nTx = index[b].nTx
      /\ e.validity = index[b].validity
      /\ e.nChainTx = index[b].nChainTx
      /\ e.nSequenceId = index[b].nSequenceId
      /\ e.known = index[b].known
    BY <1>2 DEF Entries
<1> HIDE DEF e
<1>4. /\ Range(unlinked') \subseteq Range(unlinked)
      /\ b \notin Range(unlinked) => Range(unlinked) \subseteq Range(unlinked')
  <2>1. Range(unlinked') = Range(unlinked) \cap (Blocks \ {b})
    BY <1>1, <1>2, OnlyFacts
  <2>2. Range(unlinked) \subseteq Blocks
    <3>1. Range(unlinked) \subseteq Known \ {Genesis}
        BY <1>2, SeqOver
    <3> QED
        BY <3>1 DEF Known
  <2> QED
    BY <2>1, <2>2
<1>5. \A x \in Blocks : index'[x] = IF x = b THEN e ELSE index[x]
    BY <1>1, <1>2
<1> QED
    BY <1>1, <1>3, <1>4, <1>5 DEF Quiet

\* The data of b was stored: the last case of ProcessNewBlock.
Stored(b) ==
    /\ HeaderAccepted(b)
    /\ \E idx, s :
          /\ idx = WithHeader(b)
          /\ s = ReceivedBlockTransactions(idx, b)
          /\ s.queue = << >>
          /\ index' = s.index
          /\ candidates' = s.candidates
          /\ unlinked' = s.unlinked
    /\ havePruned' = havePruned

\* Then b is linked, with the blocks that waited for it, or waits itself.
LEMMA StoredInv ==
    ASSUME TreeInv, LinkInv, NEW b \in Blocks \ {Genesis}, Stored(b)
    PROVE  LinkInv'
<1> PICK idx, s : /\ idx = WithHeader(b)
                  /\ s = ReceivedBlockTransactions(idx, b)
                  /\ s.queue = << >>
                  /\ index' = s.index
                  /\ candidates' = s.candidates
                  /\ unlinked' = s.unlinked
    BY DEF Stored
<1> HeaderAccepted(b) /\ havePruned' = havePruned
    BY DEF Stored
<1>1. /\ TypeOK
      /\ \A x \in Blocks : EntrySound(x)
      /\ ScriptsInherited
      /\ ListsSound
    BY DEF TreeInv, LinkInv
<1>2. /\ idx \in [Blocks -> Entries]
      /\ \A x \in Blocks \ {b} : idx[x] = index[x]
      /\ index[b].known => idx[b] = index[b]
      /\ ~ index[b].known => idx[b] = [Unknown EXCEPT !.known = TRUE,
                                                      !.validity = BLOCK_VALID_TREE]
    BY <1>1, HeaderFacts
<1>3. \A x \in Blocks :
          /\ idx[x].nTx = index[x].nTx
          /\ idx[x].nChainTx = index[x].nChainTx
          /\ idx[x].nSequenceId = index[x].nSequenceId
          /\ idx[x].haveData = index[x].haveData
          /\ \/ idx[x].validity = index[x].validity
             \/ index[x].validity <= idx[x].validity /\ idx[x].validity < 3
          /\ idx[x].known => index[x].known \/ idx[x].validity >= 2
    BY HeaderQuiet
<1>4. ~ Failed(idx[b])
    BY <1>2 DEF HeaderAccepted, Failed, Unknown
<1> DEFINE f == Filled(idx[b])
<1>5. /\ f \in Entry
      /\ f.validity = IF idx[b].validity < 3 THEN 3 ELSE idx[b].validity
      /\ f.haveData
      /\ f.nTx
      /\ f.nChainTx = FALSE
      /\ f.nSequenceId = idx[b].nSequenceId
  <2>1. idx[b] \in Entry
    BY <1>2, EntryBound
  <2> QED
    BY <2>1, <1>4, FilledFacts
<1>6. /\ s.index \in [Blocks -> Entries]
      /\ \A x \in Blocks : SameStatus(s.index[x], IF x = b THEN f ELSE idx[x])
      /\ Range(s.unlinked) \subseteq Range(unlinked) \cup {b}
      /\ idx[Parent[b]].nChainTx /\ LinkSound(LinkStart(idx, b), b) => LinkSound(s, b)
      /\ ~ idx[Parent[b]].nChainTx => s.index = [idx EXCEPT ![b] = f] /\ s.candidates = candidates
  <2>1. TypeOK /\ idx \in [Blocks -> Entries]
    BY <1>1, <1>2
  <2> QED
    BY ONLY <2>1, b \in Blocks \ {Genesis}, s = ReceivedBlockTransactions(idx, b), ReceivedFacts
<1> HIDE DEF f
<1>7. /\ \A x \in Blocks : index[x].validity \in {0, 2, 3, 5} /\ idx[x].validity \in {0, 2, 3, 5}
      /\ candidates \subseteq Blocks
      /\ Range(unlinked) \subseteq Blocks \ {Genesis}
      /\ Parent[b] \in Blocks
      /\ Path[b] = {b} \cup Path[Parent[b]]
      /\ b \in Path[b]
      /\ Parent[b] \in Path[Parent[b]]
  <2>1. /\ index \in [Blocks -> Entries]
        /\ candidates \subseteq Blocks
        /\ unlinked \in Seq(Known \ {Genesis})
        /\ Known \subseteq Blocks
    BY <1>1 DEF TypeOK, Known
  <2>2. Range(unlinked) \subseteq Known \ {Genesis}
    BY <2>1, SeqOver
  <2> QED
    BY <2>1, <2>2, <1>2, Tree DEF Entries
<1>8. /\ \A x \in Blocks \ {b} : /\ index'[x].nTx = index[x].nTx
                                 /\ index'[x].haveData = index[x].haveData
                                 /\ index'[x].validity = index[x].validity
                                 /\ index'[x].known = index[x].known
      /\ index'[b].nTx
      /\ index'[b].haveData
      /\ index'[b].validity = IF idx[b].validity < 3 THEN 3 ELSE idx[b].validity
  <2>1. SameStatus(index'[b], f)
    BY <1>6
  <2>2. ASSUME NEW x \in Blocks \ {b}
        PROVE  SameStatus(index'[x], index[x])
    <3>1. SameStatus(index'[x], IF x = b THEN f ELSE idx[x])
        BY <1>6
    <3> QED
        BY <3>1, <1>2
  <2> QED
    BY <2>1, <2>2, <1>5 DEF SameStatus
\* What is linked in the end.
<1>9. /\ \A x \in Blocks : index'[x].nChainTx =>
             index'[x].nTx /\ \A y \in Path[x] : index'[y].nChainTx
      /\ \A x \in Blocks : ~ index'[x].nChainTx => index'[x].nSequenceId = 0
      /\ \A x \in candidates' : index'[x].nChainTx
      /\ index'[Genesis].nChainTx
  <2>1. CASE idx[Parent[b]].nChainTx
    <3> DEFINE start == LinkStart(idx, b)
               L == {x \in Blocks : index[x].nChainTx} \cup {b}
    <3>1. /\ start.index = [idx EXCEPT ![b] = f]
          /\ start.candidates = candidates
          /\ start.unlinked = unlinked
          /\ start.queue = <<b>>
        BY DEF LinkStart, f
    <3> HIDE DEF start
    <3>2. \A x \in Blocks : start.index[x] = IF x = b THEN f ELSE idx[x]
        BY <3>1, <1>2
    <3>3. Range(<<b>>) = {b}
      <4>1. DOMAIN <<b>> = {1} /\ <<b>>[1] = b
        OBVIOUS
      <4> QED
        BY <4>1 DEF Range
    <3>4. LinkedBlocks(start, b) = L
        BY <3>2, <1>3 DEF LinkedBlocks
    <3>5. \A x \in Blocks : index[x].nTx \/ x = b => start.index[x].nTx
        BY <3>2, <1>3, <1>5
    <3>6. Path[b] \subseteq L
      <4>1. EntrySound(Parent[b]) /\ index[Parent[b]].nChainTx /\ Path[Parent[b]] \subseteq Blocks
        BY <2>1, <1>1, <1>3, <1>7, Tree
      <4> QED
        BY <4>1, <1>7 DEF EntrySound
    <3>7. ASSUME NEW x \in L
          PROVE  start.index[x].nTx /\ Path[x] \subseteq L
      <4>1. CASE x = b
        BY <4>1, <3>5, <3>6
      <4>2. CASE x # b
        <5>1. x \in Blocks /\ index[x].nChainTx /\ EntrySound(x) /\ Path[x] \subseteq Blocks
            BY <4>2, <1>1, Tree
        <5> QED
            BY <5>1, <3>5 DEF EntrySound
      <4> QED
        BY <4>1, <4>2
    <3>8. \A x \in Blocks \ L : start.index[x].nSequenceId = 0
      <4> SUFFICES ASSUME NEW x \in Blocks \ L
                   PROVE  start.index[x].nSequenceId = 0
        OBVIOUS
      <4>1. x # b /\ ~ index[x].nChainTx /\ EntrySound(x)
        BY <1>1
      <4> QED
        BY <4>1, <3>2, <1>3 DEF EntrySound
    <3>9. Parent[b] \in L
        BY <3>6, <1>7
    <3>10. \A x \in Range(unlinked) : x \in Blocks \ {Genesis} /\ start.index[x].nTx
        BY <1>1, <1>7, <3>5 DEF ListsSound
    <3>11. candidates \subseteq L
        BY <1>1, <1>7 DEF ListsSound
    <3> HIDE DEF L
    <3>12. LinkSound(start, b)
        BY <3>1, <3>3, <3>4, <3>5, <3>7, <3>8, <3>9, <3>10, <3>11 DEF LinkSound
    <3>13. LinkSound(s, b)
        BY <2>1, <3>12, <1>6 DEF start
    <3>14. Range(s.queue) = {}
        BY DEF Range
    <3>15. s.index[b].nChainTx
        BY <3>13, <3>14 DEF LinkSound
    <3>16. LinkedBlocks(s, b) = {x \in Blocks : s.index[x].nChainTx}
        BY <3>15 DEF LinkedBlocks
    <3>17. Genesis \in Path[b]
        BY Tree
    <3> QED
        BY <3>13, <3>15, <3>16, <3>17 DEF LinkSound
  <2>2. CASE ~ idx[Parent[b]].nChainTx
    <3>1. \A x \in Blocks : index'[x] = IF x = b THEN f ELSE idx[x]
        BY <2>2, <1>2, <1>6
    <3>2. index[b].nChainTx = FALSE
      <4>1. index[b].nChainTx \in BOOLEAN
        BY <1>1 DEF TypeOK, Entries
      <4>2. EntrySound(b) /\ ~ index[Parent[b]].nChainTx
        BY <2>2, <1>1, <1>3, <1>7
      <4> QED
        BY <4>1, <4>2, <1>7 DEF EntrySound
    <3>3. index[b].nSequenceId = 0
        BY <3>2, <1>1 DEF EntrySound
    <3>4. \A x \in Blocks : /\ index'[x].nChainTx = index[x].nChainTx
                            /\ index'[x].nSequenceId = index[x].nSequenceId
      <4>1. ASSUME NEW x \in Blocks, x # b
            PROVE  /\ index'[x].nChainTx = index[x].nChainTx
                   /\ index'[x].nSequenceId = index[x].nSequenceId
        BY <4>1, <3>1, <1>2
      <4>2. /\ index'[b].nChainTx = index[b].nChainTx
            /\ index'[b].nSequenceId = index[b].nSequenceId
        <5>1. index'[b] = f
            BY <3>1
        <5> QED
            BY <5>1, <3>2, <1>3, <1>5
      <4> QED
        BY <4>1, <4>2
    <3>5. \A x \in Blocks : index[x].nTx => index'[x].nTx
        BY <1>8
    <3>6. \A x \in Blocks : Path[x] \subseteq Blocks
        BY Tree
    <3>7. candidates' = candidates
        BY <2>2, <1>6
    <3> QED
        BY <3>4, <3>5, <3>6, <3>7, <1>1, <1>7, Tree DEF EntrySound, ListsSound
  <2> QED
    BY <2>1, <2>2
<1>10. ASSUME NEW x \in Blocks
       PROVE  EntrySound(x)'
  <2>1. EntrySound(x)
    BY <1>1
  <2>2. /\ index'[x].haveData => index'[x].nTx
        /\ ~ havePruned /\ index'[x].nTx => index'[x].haveData
    BY <2>1, <1>8 DEF EntrySound
  <2>3. index'[x].validity >= 3 <=> index'[x].nTx
    <3>1. CASE x = b
      <4>1. index'[b].validity >= 3
        BY <1>7, <1>8
      <4> QED
        BY <3>1, <4>1, <1>8
    <3>2. CASE x # b
        BY <3>2, <2>1, <1>8 DEF EntrySound, BLOCK_VALID_TRANSACTIONS
    <3> QED
        BY <3>1, <3>2
  <2>4. index'[x].known => index'[x].validity >= 2
    <3>1. CASE x = b
        BY <3>1, <1>7, <1>8
    <3>2. CASE x # b
        BY <3>2, <2>1, <1>8 DEF EntrySound, BLOCK_VALID_TREE
    <3> QED
        BY <3>1, <3>2
  <2> QED
    BY <2>2, <2>3, <2>4, <1>9 DEF EntrySound, BLOCK_VALID_TRANSACTIONS, BLOCK_VALID_TREE
<1>11. \A x \in Blocks : index'[x].validity >= 5 <=> index[x].validity >= 5
  <2> SUFFICES ASSUME NEW x \in Blocks
               PROVE  index'[x].validity >= 5 <=> index[x].validity >= 5
    OBVIOUS
  <2>1. CASE x = b
    BY <2>1, <1>3, <1>7, <1>8
  <2>2. CASE x # b
    BY <2>2, <1>8
  <2> QED
    BY <2>1, <2>2
<1>12. ScriptsInherited'
  <2>1. \A x \in Blocks : Path[x] \subseteq Blocks
    BY Tree
  <2> QED
    BY <2>1, <1>1, <1>11 DEF ScriptsInherited, BLOCK_VALID_SCRIPTS
<1>13. ListsSound'
    BY <1>1, <1>6, <1>7, <1>8, <1>9 DEF ListsSound
<1> QED
    BY <1>10, <1>12, <1>13 DEF LinkInv

LEMMA ProcessNewBlockCases ==
    ASSUME TreeInv, LinkInv, NEW t \in Threads, NEW b \in Blocks \ {Genesis},
           NEW requested \in Requests, ProcessNewBlock(t, b, requested)
    PROVE  Quiet \/ Stored(b)
<1> DEFINE idx == WithHeader(b)
           s == ReceivedBlockTransactions(idx, b)
<1>1. /\ HeaderAccepted(b)
      /\ UNCHANGED <<tip, havePruned>>
      /\ \/ index' = idx /\ UNCHANGED <<candidates, unlinked>>
         \/ /\ index' = [idx EXCEPT ![b].failedValid = TRUE]
            /\ UNCHANGED <<candidates, unlinked>>
         \/ /\ s.queue = << >>
            /\ index' = s.index /\ candidates' = s.candidates /\ unlinked' = s.unlinked
  <2> HIDE DEF s, idx
  <2> QED
    BY DEF ProcessNewBlock, s, idx
<1>2. \A x \in Blocks :
          /\ idx[x].nTx = index[x].nTx
          /\ idx[x].nChainTx = index[x].nChainTx
          /\ idx[x].nSequenceId = index[x].nSequenceId
          /\ idx[x].haveData = index[x].haveData
          /\ \/ idx[x].validity = index[x].validity
             \/ index[x].validity <= idx[x].validity /\ idx[x].validity < 3
          /\ idx[x].known => index[x].known \/ idx[x].validity >= 2
    BY HeaderQuiet
<1>3. idx \in [Blocks -> Entries]
    BY HeaderFacts DEF TreeInv
<1>4. CASE index' = idx /\ UNCHANGED <<candidates, unlinked>>
  <2> HIDE DEF idx
  <2> QED
    BY <1>1, <1>2, <1>4 DEF Quiet
<1>5. CASE index' = [idx EXCEPT ![b].failedValid = TRUE] /\ UNCHANGED <<candidates, unlinked>>
  <2> DEFINE e == [idx[b] EXCEPT !.failedValid = TRUE]
  <2>1. idx[b] \in Entries
    BY <1>3
  <2> HIDE DEF idx
  <2>2. /\ e.nTx = idx[b].nTx
        /\ e.nChainTx = idx[b].nChainTx
        /\ e.nSequenceId = idx[b].nSequenceId
        /\ e.haveData = idx[b].haveData
        /\ e.validity = idx[b].validity
        /\ e.known = idx[b].known
    BY <2>1 DEF Entries
  <2>3. \A x \in Blocks : index'[x] = IF x = b THEN e ELSE idx[x]
    BY <1>3, <1>5
  <2> HIDE DEF e
  <2> QED
    BY <1>1, <1>2, <1>5, <2>2, <2>3 DEF Quiet
<1>6. CASE /\ s.queue = << >>
           /\ index' = s.index /\ candidates' = s.candidates /\ unlinked' = s.unlinked
  <2>1. PICK i, r : i = idx /\ r = s
    OBVIOUS
  <2> HIDE DEF idx, s
  <2>2. i = WithHeader(b) /\ r = ReceivedBlockTransactions(i, b)
    BY <2>1 DEF idx, s
  <2> QED
    BY <1>1, <1>6, <2>1, <2>2 DEF Stored
<1> HIDE DEF idx, s
<1> QED
    BY <1>1, <1>4, <1>5, <1>6

LEMMA ProcessNewBlockLinkInv ==
    ASSUME TreeInv, TreeInv', LinkInv, NEW t \in Threads, NEW b \in Blocks \ {Genesis},
           NEW requested \in Requests, ProcessNewBlock(t, b, requested)
    PROVE  LinkInv'
    BY ProcessNewBlockCases, QuietInv, StoredInv

LEMMA InitLinkInv ==
    ASSUME Init
    PROVE  LinkInv
<1>1. /\ \A b \in Blocks : index[b] = IF b = Genesis THEN GenesisEntry ELSE Unknown
      /\ candidates = {Genesis}
      /\ unlinked = << >>
      /\ Range(unlinked) = {}
    BY DEF Init, Range
<1>2. Unknown \in Entry
    BY DEF Entry, Unknown
<1>3. /\ GenesisEntry.haveData /\ GenesisEntry.nTx /\ GenesisEntry.nChainTx
      /\ GenesisEntry.validity = 3
      /\ ~ Unknown.known
    BY <1>2 DEF GenesisEntry, Entry, BLOCK_VALID_TRANSACTIONS, Unknown
<1>4. /\ ~ Unknown.haveData /\ ~ Unknown.nTx /\ ~ Unknown.nChainTx
      /\ Unknown.validity = 0 /\ Unknown.nSequenceId = 0
    BY DEF Unknown
<1>5. \A b \in Blocks : EntrySound(b)
    BY <1>1, <1>3, <1>4, Tree DEF EntrySound, BLOCK_VALID_TRANSACTIONS, BLOCK_VALID_TREE
<1>6. ScriptsInherited
    BY <1>1, <1>3, <1>4 DEF ScriptsInherited, BLOCK_VALID_SCRIPTS
<1>7. ListsSound
    BY <1>1, <1>3, Tree DEF ListsSound
<1> QED
    BY <1>5, <1>6, <1>7 DEF LinkInv

LEMMA NextLinkInv ==
    ASSUME TreeInv, LinkInv, [Next]_vars
    PROVE  TreeInv' /\ LinkInv'
<1>1. TreeInv'
    BY NextInv
<1>2. ASSUME NEW t \in Threads, NEW b \in Blocks \ {Genesis}, NEW requested \in Requests,
             ProcessNewBlock(t, b, requested)
      PROVE  LinkInv'
    BY <1>1, <1>2, ProcessNewBlockLinkInv
<1>3. CASE UNCHANGED vars
  <2>1. Quiet
    BY <1>3 DEF vars, Quiet
  <2> QED
    BY <2>1, <1>1, QuietInv
<1>4. CASE Next
  <2>1. \/ \E t \in Threads, b \in Blocks \ {Genesis}, requested \in Requests :
              ProcessNewBlock(t, b, requested)
        \/ Quiet
    BY <1>4, AcceptBlockHeaderQuiet, FindAndStepQuiet, LoopTestQuiet, InvalidateBlockQuiet,
       ReconsiderBlockQuiet, PruneOneBlockFileQuiet DEF Next, Step
  <2> QED
    BY <2>1, <1>1, <1>2, QuietInv
<1> QED
    BY <1>1, <1>3, <1>4

\* The status of every index entry agrees with what is known of its ancestors
\* and no candidate lacks a processed ancestor, so FindMostWorkChain's assertion
\* on nChainTx holds: for every tree of blocks, and whatever is received in
\* whatever order, pruned, received again, invalidated and reconsidered.
THEOREM AlwaysIndexSound == Spec => [](IndexSound /\ CandidatesProcessed)
<1>1. Init => TreeInv /\ LinkInv
    BY InitInv, InitLinkInv
<1>2. TreeInv /\ LinkInv /\ [Next]_vars => TreeInv' /\ LinkInv'
    BY NextLinkInv
<1>3. TreeInv /\ LinkInv => IndexSound /\ CandidatesProcessed
  <2> SUFFICES ASSUME TreeInv, LinkInv
               PROVE  IndexSound /\ CandidatesProcessed
    OBVIOUS
  <2>1. /\ \A b \in Blocks : EntrySound(b)
        /\ \A b \in Blocks : Path[b] \subseteq Blocks
        /\ index \in [Blocks -> Entries]
        /\ candidates \subseteq Blocks
    BY Tree DEF LinkInv, TreeInv, TypeOK, Known
  <2>2. \A b \in Blocks : index[b].nChainTx => AllProcessed(b)
    BY <2>1 DEF EntrySound, AllProcessed
  <2>3. ASSUME NEW b \in Blocks
        PROVE  /\ ~ index[b].nChainTx => index[b].nSequenceId = 0
               /\ index[b].haveData => index[b].nTx
               /\ ~ havePruned => index[b].haveData = index[b].nTx
               /\ (index[b].validity >= BLOCK_VALID_TRANSACTIONS) = index[b].nTx
    <3>1. EntrySound(b) /\ index[b].haveData \in BOOLEAN /\ index[b].nTx \in BOOLEAN
          /\ index[b].validity \in {0, 2, 3, 5}
        BY <2>1 DEF Entries
    <3> QED
        BY <3>1 DEF EntrySound, BLOCK_VALID_TRANSACTIONS
  <2>4. IndexSound
    <3>1. ScriptsInherited /\ Known \subseteq Blocks
        BY DEF LinkInv, Known
    <3> QED
        BY <3>1, <2>2, <2>3 DEF IndexSound, ScriptsInherited
  <2>5. CandidatesProcessed
    BY <2>1, <2>2 DEF CandidatesProcessed, LinkInv, ListsSound
  <2> QED
    BY <2>4, <2>5
<1> QED
    BY <1>1, <1>2, <1>3, PTL DEF Spec
-----------------------------------------------------------------------------
(***************************************************************************)
(* Failure flags.  ReconsiderBlock clears the ancestors of its block, but  *)
(* not their other descendants, so the claim is for an operator who        *)
(* reconsiders no block below another one that was found invalid.          *)
(***************************************************************************)

RootReconsidered ==
    \A t \in Threads, b \in Reconsiders :
        ReconsiderBlock(t, b) => \A x \in Path[b] \ {b} : ~ index[x].failedValid

\* Invalid blocks stay invalid, and a block fails only if it is found invalid or
\* one of its ancestors has failed.
CausesKept ==
    \A x \in Blocks :
        /\ index[x].known /\ index[x].failedValid => index'[x].failedValid
        /\ index'[x].known /\ Failed(index'[x]) =>
              \E y \in Path[x] : \/ index'[y].failedValid
                                 \/ index[y].known /\ Failed(index[y])

LEMMA CausesKeptInv ==
    ASSUME TreeInv, FailureHasCause, CausesKept
    PROVE  FailureHasCause'
<1> SUFFICES ASSUME NEW b \in Blocks, index'[b].known, Failed(index'[b])
             PROVE  \E x \in Path[b] : index'[x].failedValid
    BY DEF FailureHasCause, Known, InvalidAncestor
<1>1. PICK y \in Path[b] : index'[y].failedValid \/ (index[y].known /\ Failed(index[y]))
    BY DEF CausesKept
<1>2. y \in Blocks /\ Path[y] \subseteq Path[b] /\ Path[b] \subseteq Blocks
    BY Tree
<1>3. CASE index[y].known /\ Failed(index[y])
  <2>1. y \in Known
    BY <1>2, <1>3 DEF Known
  <2>2. PICK x \in Path[y] : index[x].failedValid
    BY <1>3, <2>1 DEF FailureHasCause, InvalidAncestor
  <2>3. x \in Blocks /\ index[x].known
    BY <2>1, <2>2 DEF TreeInv, PathKnown, Known
  <2> QED
    BY <2>2, <2>3, <1>2 DEF CausesKept
<1> QED
    BY <1>1, <1>3

\* A header brings no flag.
LEMMA HeaderCauses ==
    ASSUME TreeInv, NEW b \in Blocks \ {Genesis}, NEW idx, idx = WithHeader(b)
    PROVE  \A x \in Blocks :
              /\ index[x].known /\ index[x].failedValid => idx[x].failedValid
              /\ Failed(idx[x]) => idx[x] = index[x] /\ (idx[x].known => index[x].known)
<1>1. /\ \A x \in Blocks \ {b} : idx[x] = index[x]
      /\ index[b].known => idx[b] = index[b]
      /\ ~ index[b].known => idx[b] = [Unknown EXCEPT !.known = TRUE,
                                                      !.validity = BLOCK_VALID_TREE]
    BY HeaderFacts DEF TreeInv
<1>2. ~ index[b].known => ~ Failed(idx[b])
    BY <1>1 DEF Unknown, Failed
<1> HIDE DEF WithHeader
<1> QED
    BY <1>1, <1>2

LEMMA AcceptBlockHeaderCauses ==
    ASSUME TreeInv, NEW b \in Announced, AcceptBlockHeader(b)
    PROVE  CausesKept
<1>1. b \in Blocks \ {Genesis} /\ index' = WithHeader(b) /\ \A x \in Blocks : x \in Path[x]
    BY BlockTreeAssumption, Tree DEF AcceptBlockHeader
<1>2. \A x \in Blocks :
         /\ index[x].known /\ index[x].failedValid => index'[x].failedValid
         /\ Failed(index'[x]) => index'[x] = index[x] /\ (index'[x].known => index[x].known)
    BY <1>1, HeaderCauses
<1> QED
    BY <1>1, <1>2 DEF CausesKept

LEMMA ProcessNewBlockCauses ==
    ASSUME TreeInv, NEW t \in Threads, NEW b \in Blocks \ {Genesis}, NEW requested \in Requests,
           ProcessNewBlock(t, b, requested)
    PROVE  CausesKept
<1>1. PICK idx : idx = WithHeader(b)
    OBVIOUS
<1>2. PICK s : s = ReceivedBlockTransactions(idx, b)
    OBVIOUS
<1>3. \/ index' = idx
      \/ index' = [idx EXCEPT ![b].failedValid = TRUE]
      \/ index' = s.index
    BY <1>1, <1>2 DEF ProcessNewBlock
<1>4. \A x \in Blocks :
         /\ index[x].known /\ index[x].failedValid => idx[x].failedValid
         /\ Failed(idx[x]) => idx[x] = index[x] /\ (idx[x].known => index[x].known)
    BY <1>1, HeaderCauses
<1>5. TypeOK /\ idx \in [Blocks -> Entries] /\ \A x \in Blocks : x \in Path[x]
    BY <1>1, HeaderFacts, Tree DEF TreeInv
<1>6. CASE index' = idx
    BY <1>4, <1>5, <1>6 DEF CausesKept
<1>7. CASE index' = [idx EXCEPT ![b].failedValid = TRUE]
  <2>1. /\ index'[b].failedValid
        /\ \A x \in Blocks \ {b} : index'[x] = idx[x]
    BY <1>5, <1>7 DEF Entries
  <2> SUFFICES ASSUME NEW x \in Blocks
               PROVE  /\ index[x].known /\ index[x].failedValid => index'[x].failedValid
                      /\ index'[x].known /\ Failed(index'[x]) =>
                            \E y \in Path[x] : \/ index'[y].failedValid
                                               \/ index[y].known /\ Failed(index[y])
    BY DEF CausesKept
  <2>2. CASE x = b
    BY <2>1, <2>2, <1>5
  <2>3. CASE x # b
    BY <2>1, <2>3, <1>4, <1>5
  <2> QED
    BY <2>2, <2>3
<1>8. CASE index' = s.index
  <2>1. \A x \in Blocks : SameStatus(s.index[x], IF x = b THEN Filled(idx[b]) ELSE idx[x])
    BY ONLY <1>2, <1>5, b \in Blocks \ {Genesis}, ReceivedFacts
  <2>2. /\ Filled(idx[b]).known = idx[b].known
        /\ Filled(idx[b]).failedValid = idx[b].failedValid
        /\ Filled(idx[b]).failedChild = idx[b].failedChild
    <3>1. idx[b] \in Entry
        BY <1>5, EntryBound
    <3> QED
        BY <3>1, FilledFacts
  <2>3. ASSUME NEW x \in Blocks
        PROVE  /\ index'[x].known = idx[x].known
               /\ index'[x].failedValid = idx[x].failedValid
               /\ index'[x].failedChild = idx[x].failedChild
    <3>1. SameStatus(index'[x], IF x = b THEN Filled(idx[b]) ELSE idx[x])
        BY <2>1, <1>8
    <3>2. CASE x = b
        BY <3>1, <3>2, <2>2 DEF SameStatus
    <3>3. CASE x # b
        BY <3>1, <3>3 DEF SameStatus
    <3> QED
        BY <3>2, <3>3
  <2> QED
    BY <2>3, <1>4, <1>5 DEF CausesKept, Failed
<1> QED
    BY <1>3, <1>6, <1>7, <1>8

LEMMA FindAndStepCauses ==
    ASSUME TreeInv, NEW t \in Threads, FindAndStep(t, BadBlocks)
    PROVE  CausesKept
<1>1. TypeOK /\ ValidKnown /\ TipKnown /\ Genesis \notin BadBlocks
    BY BlockTreeAssumption DEF TreeInv, TipKnown, PathKnown, TypeOK
<1>2. Activation(BadBlocks)
    BY <1>1, FindAndStepFacts
<1>3. \A x \in Blocks : /\ x \in Path[x]
                        /\ index[x].known => \A y \in Path[x] : index[y].known
    BY Tree DEF TreeInv, PathKnown, Known
<1> QED
    BY <1>2, <1>3 DEF Activation, CausesKept

LEMMA InvalidateBlockCauses ==
    ASSUME TreeInv, NEW t \in Threads, NEW b \in Invalidates, InvalidateBlock(t, b)
    PROVE  CausesKept
<1> DEFINE above == IF b \in Path[tip] THEN Path[tip] \ Path[Parent[b]] ELSE {}
           entry(x) == [index[x] EXCEPT !.failedValid = @ \/ x = b,
                                        !.failedChild = @ \/ x \in above]
<1>1. index' = [x \in Blocks |-> entry(x)]
  <2> HIDE DEF above
  <2> QED
    BY DEF InvalidateBlock, above
<1>2. b \in Blocks \ {Genesis} /\ tip \in Blocks /\ \A x \in Blocks : x \in Path[x]
    BY BlockTreeAssumption, Tree DEF TreeInv, TypeOK, Known
\* The disconnected blocks are those above b.
<1>3. \A x \in above : b \in Path[x]
  <2> SUFFICES ASSUME b \in Path[tip], NEW x \in Path[tip], x \notin Path[Parent[b]]
               PROVE  b \in Path[x]
    OBVIOUS
  <2>1. b \in Path[x] \/ x \in Path[b]
    BY <1>2, Tree
  <2>2. Path[b] = {b} \cup Path[Parent[b]]
    BY <1>2, Tree
  <2> QED
    BY <2>1, <2>2, <1>2
<1> HIDE DEF above
<1>4. ASSUME NEW x \in Blocks
      PROVE  /\ index'[x].known = index[x].known
             /\ index'[x].failedValid <=> index[x].failedValid \/ x = b
             /\ index'[x].failedChild <=> index[x].failedChild \/ x \in above
  <2>1. index[x] \in Entries /\ index'[x] = entry(x)
    BY <1>1 DEF TreeInv, TypeOK
  <2> QED
    BY <2>1 DEF Entries
<1> HIDE DEF entry
<1> QED
    BY <1>2, <1>3, <1>4 DEF CausesKept, Failed

LEMMA ReconsiderBlockCauses ==
    ASSUME TreeInv, FailureHasCause, RootReconsidered, NEW t \in Threads, NEW b \in Reconsiders,
           ReconsiderBlock(t, b)
    PROVE  FailureHasCause'
<1> DEFINE below == {x \in Blocks : /\ b \in Path[x] /\ index[x].known
                                    /\ ~ IsValid(index[x], BLOCK_VALID_TRANSACTIONS)}
           entry(x) == IF x \in below \cup Path[b]
                       THEN [index[x] EXCEPT !.failedValid = FALSE, !.failedChild = FALSE]
                       ELSE index[x]
<1>1. index' = [x \in Blocks |-> entry(x)]
    BY DEF ReconsiderBlock
<1>2. b \in Blocks /\ \A x \in Path[b] \ {b} : ~ index[x].failedValid
    BY BlockTreeAssumption DEF RootReconsidered
<1>3. \A x \in below : b \in Path[x]
    OBVIOUS
<1>4. \A x \in Blocks : b \in Path[x] /\ index[x].known /\ Failed(index[x]) => x \in below
    BY DEF IsValid
<1> HIDE DEF below
<1> SUFFICES ASSUME NEW x \in Blocks, index'[x].known, Failed(index'[x])
             PROVE  \E y \in Path[x] : index'[y].failedValid
    BY DEF FailureHasCause, Known, InvalidAncestor
<1>5. index[x] \in Entries /\ index'[x] = entry(x)
    BY <1>1 DEF TreeInv, TypeOK
<1>6. x \notin below \cup Path[b] /\ index[x].known /\ Failed(index[x])
  <2>1. CASE x \in below \cup Path[b]
    <3>1. index'[x] = [index[x] EXCEPT !.failedValid = FALSE, !.failedChild = FALSE]
        BY <2>1, <1>5
    <3>2. ~ Failed(index'[x])
        BY <3>1, <1>5 DEF Entries, Failed
    <3> QED
        BY <3>2
  <2>2. CASE x \notin below \cup Path[b]
    BY <2>2, <1>5
  <2> QED
    BY <2>1, <2>2
<1>7. b \notin Path[x]
    BY <1>4, <1>6
<1>8. PICK y \in Path[x] : index[y].failedValid
    BY <1>6 DEF FailureHasCause, Known, InvalidAncestor
<1>9. y \in Blocks /\ b \notin Path[y] /\ y \in Path[y]
    BY <1>7, <1>8, Tree
<1>10. y \notin below \cup Path[b]
    BY <1>2, <1>3, <1>8, <1>9
<1>11. index'[y] = index[y]
    BY <1>1, <1>9, <1>10
<1> QED
    BY <1>8, <1>11

LEMMA PruneOneBlockFileCauses ==
    ASSUME TreeInv, NEW b \in Blocks, PruneOneBlockFile(b)
    PROVE  CausesKept
<1>1. TypeOK /\ \A x \in Blocks : x \in Path[x]
    BY Tree DEF TreeInv
<1>2. \A x \in Blocks : /\ index'[x].known = index[x].known
                        /\ index'[x].failedValid = index[x].failedValid
                        /\ index'[x].failedChild = index[x].failedChild
    BY <1>1, PruneFacts
<1> QED
    BY <1>1, <1>2 DEF CausesKept, Failed

LEMMA NextCauses ==
    ASSUME TreeInv, FailureHasCause, [Next]_vars, [RootReconsidered]_vars
    PROVE  FailureHasCause'
<1>1. CASE UNCHANGED vars
    BY <1>1 DEF vars, FailureHasCause, Known, InvalidAncestor
<1>2. CASE Next /\ ~ UNCHANGED vars
  <2>1. RootReconsidered
    BY <1>2
  <2>2. ASSUME NEW t \in Threads, LoopTest(t)
        PROVE  FailureHasCause'
    BY <2>2 DEF LoopTest, FailureHasCause, Known, InvalidAncestor
  <2>3. ASSUME NEW t \in Threads, NEW b \in Reconsiders, ReconsiderBlock(t, b)
        PROVE  FailureHasCause'
    BY <2>1, <2>3, ReconsiderBlockCauses
  <2>4. \/ CausesKept
        \/ \E t \in Threads : LoopTest(t)
        \/ \E t \in Threads, b \in Reconsiders : ReconsiderBlock(t, b)
    BY <1>2, AcceptBlockHeaderCauses, ProcessNewBlockCauses, FindAndStepCauses,
       InvalidateBlockCauses, PruneOneBlockFileCauses DEF Next, Step
  <2> QED
    BY <2>2, <2>3, <2>4, CausesKeptInv
<1> QED
    BY <1>1, <1>2

\* A failure flag always has a cause, a block on the path that was found invalid,
\* as CheckBlockIndex asserts: for every tree, interleaving and order of arrival,
\* as long as no block below another invalid one is reconsidered.
THEOREM AlwaysFailureHasCause == Spec /\ [][RootReconsidered]_vars => []FailureHasCause
<1>1. Init => FailureHasCause
  <2> SUFFICES ASSUME Init
               PROVE  FailureHasCause
    OBVIOUS
  <2>1. \A b \in Blocks : index[b] = IF b = Genesis THEN GenesisEntry ELSE Unknown
    BY DEF Init
  <2>2. ~ Failed(Unknown) /\ ~ Failed(GenesisEntry)
    BY DEF Unknown, GenesisEntry, Failed
  <2> QED
    BY <2>1, <2>2 DEF FailureHasCause, Known
<1>2. Init => TreeInv
    BY InitInv
<1>3. TreeInv /\ [Next]_vars => TreeInv'
    BY NextInv
<1>4. TreeInv /\ FailureHasCause /\ [Next]_vars /\ [RootReconsidered]_vars => FailureHasCause'
    BY NextCauses
<1> QED
    BY <1>1, <1>2, <1>3, <1>4, PTL DEF Spec
-----------------------------------------------------------------------------
(***************************************************************************)
(* Linking.  Two things can leave a block unlinked for good: its file is   *)
(* pruned while it waits, or its data arrives while its parent counts as   *)
(* failed and is not linked itself.  Otherwise nothing that was processed  *)
(* is left behind.                                                         *)
(***************************************************************************)

NothingLost ==
    /\ \A b \in Range(unlinked) : ~ PruneOneBlockFile(b)
    /\ \A t \in Threads, b \in Blocks \ {Genesis}, requested \in Requests :
          ProcessNewBlock(t, b, requested) =>
              index[Parent[b]].nChainTx \/ ~ Failed(index[Parent[b]])

\* A processed block that is not linked waits for a parent that is not linked.
WaitInv ==
    \A x \in Blocks \ {Genesis} :
        index[x].nTx /\ ~ index[x].nChainTx =>
            x \in Range(unlinked) /\ ~ index[Parent[x]].nChainTx

LEMMA QuietWaits ==
    ASSUME WaitInv, Quiet, NothingLost
    PROVE  WaitInv'
<1>1. Range(unlinked) \subseteq Range(unlinked')
    BY DEF Quiet, NothingLost
<1> QED
    BY <1>1, Tree DEF WaitInv, Quiet

\* The block whose data was stored is linked, with all that waited for it, or
\* waits itself.
LEMMA StoredWaits ==
    ASSUME TreeInv, LinkInv, WaitInv, NEW b \in Blocks \ {Genesis}, Stored(b),
           index[Parent[b]].nChainTx \/ ~ Failed(index[Parent[b]])
    PROVE  WaitInv'
<1>1. PICK idx, s : /\ idx = WithHeader(b)
                    /\ s = ReceivedBlockTransactions(idx, b)
                    /\ s.queue = << >>
                    /\ index' = s.index
                    /\ unlinked' = s.unlinked
    BY DEF Stored
<1>2. /\ TypeOK
      /\ idx \in [Blocks -> Entries]
      /\ \A x \in Blocks \ {b} : idx[x] = index[x]
      /\ Parent[b] \in Blocks \ {b}
      /\ idx[Parent[b]] = index[Parent[b]]
    BY <1>1, HeaderFacts, Tree DEF TreeInv
<1> DEFINE f == Filled(idx[b])
<1>3. f.nChainTx = FALSE
  <2>1. idx[b] \in Entry
    BY <1>2, EntryBound
  <2> QED
    BY <2>1, FilledFacts
<1>4. /\ idx[Parent[b]].nChainTx /\ LinkComplete(LinkStart(idx, b)) => LinkComplete(s)
      /\ ~ idx[Parent[b]].nChainTx =>
            /\ s.index = [idx EXCEPT ![b] = f]
            /\ Range(unlinked) \subseteq Range(s.unlinked)
            /\ IsValid(idx[Parent[b]], BLOCK_VALID_TREE) => b \in Range(s.unlinked)
  <2>1. TypeOK /\ idx \in [Blocks -> Entries] /\ s = ReceivedBlockTransactions(idx, b)
    BY <1>1, <1>2
  <2> QED
    BY ONLY <2>1, b \in Blocks \ {Genesis}, ReceivedFacts
<1> HIDE DEF f
<1>5. CASE index[Parent[b]].nChainTx
  <2> DEFINE start == LinkStart(idx, b)
  <2>1. /\ start.index = [idx EXCEPT ![b] = f]
        /\ start.unlinked = unlinked
        /\ start.queue = <<b>>
    BY DEF LinkStart, f
  <2> HIDE DEF start
  <2>2. \A x \in Blocks : start.index[x] = IF x = b THEN f ELSE index[x]
    BY <2>1, <1>2
  <2>3. b \in Range(<<b>>)
    <3>1. 1 \in DOMAIN <<b>> /\ <<b>>[1] = b
        OBVIOUS
    <3> QED
        BY <3>1 DEF Range
  <2>4. LinkComplete(start)
    <3> SUFFICES ASSUME NEW x \in Blocks \ {Genesis},
                        start.index[x].nTx, ~ start.index[x].nChainTx, x # b
                 PROVE  x \in Range(unlinked) /\ ~ start.index[Parent[x]].nChainTx
        BY <2>1, <2>3 DEF LinkComplete
    <3>1. Parent[x] \in Blocks /\ start.index[x] = index[x]
        BY <2>2, Tree
    <3>2. x \in Range(unlinked) /\ ~ index[Parent[x]].nChainTx
        BY <3>1 DEF WaitInv
    <3>3. start.index[Parent[x]] = IF Parent[x] = b THEN f ELSE index[Parent[x]]
        BY <2>2, <3>1
    <3> QED
        BY <3>2, <3>3, <1>3
  <2>5. LinkComplete(s)
    BY <2>4, <1>2, <1>4, <1>5 DEF start
  <2>6. Range(s.queue) = {}
    BY <1>1 DEF Range
  <2> QED
    BY <2>5, <2>6, <1>1 DEF LinkComplete, WaitInv
<1>6. CASE ~ index[Parent[b]].nChainTx
  <2>1. \A x \in Blocks : index'[x] = IF x = b THEN f ELSE index[x]
    BY <1>1, <1>2, <1>4, <1>6
  <2>2. IsValid(idx[Parent[b]], BLOCK_VALID_TREE)
    <3>1. index[Parent[b]].known
      <4>1. CASE index[b].known
        <5>1. Path[b] \subseteq Known
            BY <4>1 DEF TreeInv, PathKnown, Known
        <5> QED
            BY <5>1, <1>2, Tree DEF Known
      <4>2. CASE ~ index[b].known
        BY <4>2 DEF Stored, HeaderAccepted
      <4> QED
        BY <4>1, <4>2
    <3>2. index[Parent[b]].validity >= BLOCK_VALID_TREE
        BY <3>1, <1>2 DEF LinkInv, EntrySound
    <3> QED
        BY <3>2, <1>2, <1>6 DEF IsValid
  <2>3. /\ Range(unlinked) \subseteq Range(unlinked')
        /\ b \in Range(unlinked')
    BY <2>2, <1>1, <1>2, <1>4, <1>6
  <2> QED
    BY <2>1, <2>3, <1>2, <1>3, <1>6, Tree DEF WaitInv
<1> QED
    BY <1>5, <1>6

LEMMA NextWaits ==
    ASSUME TreeInv, LinkInv, WaitInv, [Next]_vars, [NothingLost]_vars
    PROVE  WaitInv'
<1>1. CASE UNCHANGED vars
    BY <1>1 DEF vars, WaitInv
<1>2. CASE Next /\ ~ UNCHANGED vars
  <2>1. NothingLost
    BY <1>2
  <2>2. ASSUME NEW t \in Threads, NEW b \in Blocks \ {Genesis}, NEW requested \in Requests,
               ProcessNewBlock(t, b, requested)
        PROVE  WaitInv'
    <3>1. index[Parent[b]].nChainTx \/ ~ Failed(index[Parent[b]])
        BY <2>1, <2>2 DEF NothingLost
    <3>2. Quiet \/ Stored(b)
        BY <2>2, ProcessNewBlockCases
    <3> QED
        BY <3>1, <3>2, <2>1, QuietWaits, StoredWaits
  <2>3. \/ \E t \in Threads, b \in Blocks \ {Genesis}, requested \in Requests :
              ProcessNewBlock(t, b, requested)
        \/ Quiet
    BY <1>2, AcceptBlockHeaderQuiet, FindAndStepQuiet, LoopTestQuiet, InvalidateBlockQuiet,
       ReconsiderBlockQuiet, PruneOneBlockFileQuiet DEF Next, Step
  <2> QED
    BY <2>1, <2>2, <2>3, QuietWaits
<1> QED
    BY <1>1, <1>2

\* No block is left unlinked once its ancestors were processed, in whatever order
\* their data came: for every tree and interleaving in which nothing is lost.
THEOREM AlwaysLinkedOnceProcessed == Spec /\ [][NothingLost]_vars => []LinkedOnceProcessed
<1>1. Init => TreeInv /\ LinkInv
    BY InitInv, InitLinkInv
<1>2. Init => WaitInv
  <2> SUFFICES ASSUME Init
               PROVE  WaitInv
    OBVIOUS
  <2>1. \A b \in Blocks \ {Genesis} : index[b] = Unknown
    BY DEF Init
  <2>2. ~ Unknown.nTx
    BY DEF Unknown
  <2> QED
    BY <2>1, <2>2 DEF WaitInv
<1>3. TreeInv /\ LinkInv /\ [Next]_vars => TreeInv' /\ LinkInv'
    BY NextLinkInv
<1>4. TreeInv /\ LinkInv /\ WaitInv /\ [Next]_vars /\ [NothingLost]_vars => WaitInv'
    BY NextWaits
<1>5. LinkInv /\ WaitInv => LinkedOnceProcessed
  <2> SUFFICES ASSUME LinkInv, WaitInv
               PROVE  LinkedOnceProcessed
    OBVIOUS
  <2> DEFINE S == {x \in Blocks : AllProcessed(x) => index[x].nChainTx}
  <2>1. Genesis \in S
    BY Tree DEF LinkInv, ListsSound
  <2>2. ASSUME NEW b \in Blocks \ {Genesis}, Parent[b] \in S
        PROVE  b \in S
    <3>1. ASSUME AllProcessed(b)
          PROVE  index[b].nChainTx
      <4>1. /\ index[b].nTx
            /\ AllProcessed(Parent[b])
        BY <3>1, Tree DEF AllProcessed
      <4> QED
        BY <4>1, <2>2 DEF WaitInv
    <3> QED
        BY <3>1
  <2>3. S = Blocks
    <3>1. S \in SUBSET Blocks
        OBVIOUS
    <3> HIDE DEF S
    <3> QED
        BY <3>1, <2>1, <2>2, BlockTreeAssumption DEF IsTree
  <2> QED
    BY <2>3 DEF LinkedOnceProcessed, Known
<1> QED
    BY <1>1, <1>2, <1>3, <1>4, <1>5, PTL DEF Spec

(***************************************************************************)
(* ChainRestart.                                                           *)
(***************************************************************************)

(***************************************************************************)
(* The invariant.                                                          *)
(***************************************************************************)

\* The entry d on disk says of a block what the entry e in memory says.
Agrees(d, e) ==
    /\ d.known = e.known
    /\ d.validity = e.validity
    /\ d.haveData = e.haveData

\* The fields of what is on disk.
Fields == {"index", "branch", "files", "tip", "havePruned"}

\* The block index on disk is one that LoadBlockIndexDB can read.
DiskReadable ==
    /\ DOMAIN disk = Fields
    /\ disk.index \in [Blocks -> Entries]
    /\ disk.tip \in Blocks
    /\ disk.havePruned \in BOOLEAN
    /\ disk.index[Genesis].known
    /\ \A b \in Blocks :
          disk.index[b].haveData \/ disk.index[b].nTx \/ disk.index[b].validity # 0
          => disk.index[b].known

\* The blocks up to b were validated, as far as the memory knows.
ValidatedTo(b) ==
    \A x \in Path[b] \ {Genesis} :
        index[x].known /\ index[x].validity = BLOCK_VALID_SCRIPTS

\* An entry that is not dirty is on disk as it is in memory.
CleanAgrees == \A b \in Blocks \ dirty : Agrees(disk.index[b], index[b])

\* Whatever is in memory is on disk, or is dirty and will be written before the
\* chain state that needs it.
Running ==
    /\ TypeOK
    /\ ValidKnown
    /\ TipKnown
    /\ ValidatedTo(tip)
    /\ CleanAgrees
    /\ phase # "erased" => ValidatedTo(disk.tip)

\* Where a flush stands.
FlushOrder ==
    /\ phase \notin {"up", "write", "writeall"} => dirty = {}
    /\ doomed # {} => phase \in {"writeall", "unlink"}
    /\ \A b \in doomed : ~ index[b].haveData
    /\ phase \in {"write", "writeall"} =>
          \A b \in Blocks : index[b].haveData => b \in disk.files

\* Memory before it is loaded.
Fresh ==
    /\ nextId = 1
    /\ pc \in [Threads -> {"idle", "find", "test"}]
    /\ mostWork \in [Threads -> Blocks \cup {None}]
    /\ shutdown \in BOOLEAN

RestartInv ==
    /\ activation \in Activations
    /\ DiskReadable
    /\ DiskConsistent
    /\ FlushOrder
    /\ phase # "down" => Running
    /\ phase = "down" => Fresh

-----------------------------------------------------------------------------
(***************************************************************************)
(* What is written.                                                        *)
(***************************************************************************)

LEMMA OnDiskFacts ==
    ASSUME NEW e \in Entries
    PROVE  /\ OnDisk(e) \in Entries
           /\ OnDisk(e).known = e.known
           /\ OnDisk(e).validity = e.validity
           /\ OnDisk(e).haveData = e.haveData
           /\ OnDisk(e).nTx = e.nTx
<1>1. 0 \in 0..MaxSequenceId
    BY BlockTreeAssumption
<1> QED
    BY <1>1 DEF Entries, OnDisk

\* w is d with the entries that idx gives to the blocks of set.
IsWritten(d, set, idx, w) ==
    /\ DOMAIN w = Fields
    /\ w.index \in [Blocks -> Entries]
    /\ w.files = d.files
    /\ w.tip = d.tip
    /\ w.havePruned = d.havePruned
    /\ \A b \in Blocks \ set : w.index[b] = d.index[b]
    /\ \A b \in Blocks \cap set : /\ w.index[b].known = idx[b].known
                                  /\ w.index[b].validity = idx[b].validity
                                  /\ w.index[b].haveData = idx[b].haveData
                                  /\ w.index[b].nTx = idx[b].nTx

LEMMA WrittenFacts ==
    ASSUME NEW d, DOMAIN d = Fields, d.index \in [Blocks -> Entries],
           NEW set, NEW idx \in [Blocks -> Entries], NEW ids, NEW flags
    PROVE  IsWritten(d, set, idx, Written(d, set, idx, ids, flags))
<1> DEFINE new == [b \in Blocks |-> IF b \in set THEN OnDisk(idx[b]) ELSE d.index[b]]
           brs == [b \in Blocks |->
                      IF b \in set THEN IF b \in flags THEN ids[b] ELSE None ELSE d.branch[b]]
           w == Written(d, set, idx, ids, flags)
<1>1. w = [d EXCEPT !.index = new, !.branch = brs]
    BY DEF Written
<1>2. new \in [Blocks -> Entries]
    BY OnDiskFacts
<1>3. \A b \in Blocks \ set : new[b] = d.index[b]
    OBVIOUS
<1>4. \A b \in Blocks \cap set : /\ new[b].known = idx[b].known
                                 /\ new[b].validity = idx[b].validity
                                 /\ new[b].haveData = idx[b].haveData
                                 /\ new[b].nTx = idx[b].nTx
    BY OnDiskFacts
<1> HIDE DEF new, brs, w
<1>5. DOMAIN w = Fields
    BY <1>1
<1>6. w.index = new
    BY <1>1 DEF Fields
<1>7. w.files = d.files /\ w.tip = d.tip /\ w.havePruned = d.havePruned
    BY <1>1 DEF Fields
<1> QED
    BY <1>2, <1>3, <1>4, <1>5, <1>6, <1>7 DEF IsWritten, w

\* The other fields are set one at a time.
LEMMA FieldFacts ==
    ASSUME NEW d, DOMAIN d = Fields, NEW f, NEW x, NEW h
    PROVE  /\ LET w == [d EXCEPT !.files = f]
              IN  /\ DOMAIN w = Fields
                  /\ w.index = d.index
                  /\ w.files = f
                  /\ w.tip = d.tip
                  /\ w.havePruned = d.havePruned
           /\ LET w == [d EXCEPT !.tip = x]
              IN  /\ DOMAIN w = Fields
                  /\ w.index = d.index
                  /\ w.files = d.files
                  /\ w.tip = x
                  /\ w.havePruned = d.havePruned
           /\ LET w == [d EXCEPT !.files = f, !.tip = x]
              IN  /\ DOMAIN w = Fields
                  /\ w.index = d.index
                  /\ w.files = f
                  /\ w.tip = x
                  /\ w.havePruned = d.havePruned
           /\ LET w == [d EXCEPT !.files = f, !.havePruned = h]
              IN  /\ DOMAIN w = Fields
                  /\ w.index = d.index
                  /\ w.files = f
                  /\ w.tip = d.tip
                  /\ w.havePruned = h
    BY DEF Fields

\* ConnectBlock accepts the genesis block, whatever software runs.
LEMMA GenesisAccepted ==
    ASSUME activation \in Activations
    PROVE  Genesis \notin Rejected
<1>1. nHeight[Genesis] = 0
  <2>1. Genesis \in Blocks
    BY Tree
  <2> QED
    BY <2>1, HeightDef DEF IsHeight
<1>2. CurrentEpochBranchId(0) = 0
    BY RestartAssumption DEF CurrentEpochBranchId
<1>3. Genesis \notin BadBlocks /\ Epoch[Genesis] = 0
    BY BlockTreeAssumption, RestartAssumption
<1> QED
    BY <1>1, <1>2, <1>3 DEF Rejected

-----------------------------------------------------------------------------
(***************************************************************************)
(* The running node.                                                       *)
(***************************************************************************)

\* A block whose scripts were verified stays one.
ScriptsKept ==
    \A x \in Blocks : index[x].known /\ index[x].validity = BLOCK_VALID_SCRIPTS
                      => index'[x].known /\ index'[x].validity = BLOCK_VALID_SCRIPTS

LEMMA ValidatedKept ==
    ASSUME ScriptsKept, NEW b \in Blocks, ValidatedTo(b)
    PROVE  \A x \in Path[b] \ {Genesis} :
               index'[x].known /\ index'[x].validity = BLOCK_VALID_SCRIPTS
    BY Tree DEF ValidatedTo, ScriptsKept

\* The part of the invariant that does not look at the memory.
LEMMA DiskUnchanged ==
    ASSUME RestartInv, UNCHANGED <<disk, activation>>
    PROVE  activation' \in Activations /\ DiskReadable' /\ FilesPresent'
    BY DEF RestartInv, DiskReadable, DiskConsistent, FilesPresent

LEMMA ArriveInv ==
    ASSUME RestartInv, Arrive
    PROVE  RestartInv'
<1>1. /\ phase = "up"
      /\ dirty' = dirty \cup {b \in Blocks : OnDisk(index'[b]) # OnDisk(index[b])}
      /\ UNCHANGED <<phase, activation, doomed, disk>>
      /\ Running
      /\ DurableTipIndexed
    BY DEF Arrive, RestartInv, DiskConsistent
<1>2. PICK b \in Blocks \ {Genesis} : Arrival(b)
    BY <1>1, AcceptBlockHeaderFacts, ProcessNewBlockFacts, BlockTreeAssumption
    DEF Arrive, Running
<1>3. TypeOK' /\ ValidKnown' /\ tip' = tip /\ Known' = Known \cup {b}
    BY <1>2 DEF Arrival
<1>4. ScriptsKept
  <2> SUFFICES ASSUME NEW x \in Blocks, index[x].known, index[x].validity = BLOCK_VALID_SCRIPTS
               PROVE  index'[x].known /\ index'[x].validity = BLOCK_VALID_SCRIPTS
    BY DEF ScriptsKept
  <2>1. index'[x].known
    BY <1>3 DEF Known
  <2> QED
    BY <2>1, <1>2 DEF Arrival, SameStatus, BLOCK_VALID_SCRIPTS, BLOCK_VALID_TRANSACTIONS
<1>5. Running'
  <2>1. TipKnown'
    BY <1>1, <1>3 DEF Running, TipKnown
  <2>2. tip \in Blocks /\ disk.tip \in Blocks
    BY <1>1 DEF Running, TypeOK, Known, RestartInv, DiskReadable
  <2>3. ValidatedTo(tip)'
    BY <1>1, <1>3, <1>4, <2>2, ValidatedKept DEF Running, ValidatedTo
  <2>4. ValidatedTo(disk.tip)'
    BY <1>1, <1>4, <2>2, ValidatedKept DEF Running, ValidatedTo
  <2>5. CleanAgrees'
    <3> SUFFICES ASSUME NEW x \in Blocks \ dirty'
                 PROVE  Agrees(disk.index[x], index'[x])
        BY <1>1 DEF CleanAgrees
    <3>1. OnDisk(index'[x]) = OnDisk(index[x]) /\ Agrees(disk.index[x], index[x])
        BY <1>1 DEF Running, CleanAgrees
    <3>2. index[x] \in Entries /\ index'[x] \in Entries
        BY <1>1, <1>3 DEF Running, TypeOK
    <3> QED
        BY <3>1, <3>2, OnDiskFacts DEF Agrees
  <2> QED
    BY <1>3, <2>1, <2>3, <2>4, <2>5 DEF Running
<1>6. FlushOrder'
    BY <1>1 DEF FlushOrder, RestartInv
<1>7. DiskConsistent'
    BY <1>1, DiskUnchanged DEF DiskConsistent, DurableTipIndexed
<1> QED
    BY <1>1, <1>5, <1>6, <1>7, DiskUnchanged DEF RestartInv

\* What a turn of the loop, in any software, may change.
Activated ==
    /\ TypeOK'
    /\ ValidKnown'
    /\ TipKnown'
    /\ \A x \in Blocks : /\ index'[x].known = index[x].known
                         /\ index'[x].haveData = index[x].haveData
                         /\ index'[x].nTx = index[x].nTx
                         /\ \/ index'[x].validity = index[x].validity
                            \/ index'[x].validity = BLOCK_VALID_SCRIPTS
    /\ \A x \in Path[tip'] \ {Genesis} :
          index'[x].known /\ index'[x].validity = BLOCK_VALID_SCRIPTS

LEMMA ActivateAndCacheFacts ==
    ASSUME RestartInv, NEW t \in Threads, ActivateAndCache(t)
    PROVE  /\ Activated
           /\ phase = "up"
           /\ UNCHANGED <<phase, activation, doomed>>
<1>1. /\ phase = "up"
      /\ UNCHANGED <<phase, activation, doomed>>
      /\ FindAndStep(t, Rejected) \/ LoopTest(t)
    BY DEF ActivateAndCache
<1>2. Running /\ TypeOK /\ ValidKnown /\ TipKnown /\ ValidatedTo(tip)
    BY <1>1 DEF RestartInv, Running
<1>3. CASE FindAndStep(t, Rejected)
  <2>1. Genesis \notin Rejected
    BY GenesisAccepted DEF RestartInv
  <2>2. Activation(Rejected)
    <3> HIDE DEF Rejected
    <3> QED
        BY <1>2, <1>3, <2>1, FindAndStepFacts
  <2>3. TypeOK' /\ Known' = Known
    <3> HIDE DEF Rejected
    <3> QED
        BY <1>2, <2>2, ActivationType
  <2>4. \A x \in Blocks : /\ index'[x].known = index[x].known
                          /\ index'[x].haveData = index[x].haveData
                          /\ index'[x].nTx = index[x].nTx
                          /\ \/ index'[x].validity = index[x].validity
                             \/ /\ index'[x].validity = BLOCK_VALID_SCRIPTS
                                /\ index[x].haveData
    BY <2>2 DEF Activation
  <2>5. ValidKnown'
    BY <1>2, <2>4 DEF ValidKnown
  <2>6. ASSUME NEW x \in Path[tip'] \ {Genesis}
        PROVE  index'[x].known /\ index'[x].validity = BLOCK_VALID_SCRIPTS
    <3>1. x \in Blocks
        BY <2>3, Tree DEF TypeOK, Known
    <3>2. CASE x \in Path[tip]
      <4>1. index'[x] = index[x]
        BY <2>2, <3>2 DEF Activation
      <4> QED
        BY <3>2, <4>1, <1>2 DEF ValidatedTo
    <3>3. CASE x \notin Path[tip]
      <4>1. index'[x].validity = BLOCK_VALID_SCRIPTS
        BY <2>2, <3>3 DEF Activation
      <4> QED
        BY <4>1, <3>1, <2>5 DEF ValidKnown, BLOCK_VALID_SCRIPTS
    <3> QED
        BY <3>2, <3>3
  <2>7. TipKnown'
    <3>1. Path[tip'] \subseteq Blocks /\ Genesis \in Blocks /\ Genesis \in Path[tip]
        BY <1>2, <2>3, Tree DEF TypeOK, Known
    <3>2. Genesis \in Known'
        BY <3>1, <2>3, <1>2 DEF TipKnown
    <3> QED
        BY <3>1, <3>2, <2>6 DEF TipKnown, Known
  <2> QED
    BY <1>1, <2>3, <2>4, <2>5, <2>6, <2>7 DEF Activated
<1>4. CASE LoopTest(t)
  <2>1. UNCHANGED <<index, candidates, unlinked, tip, nextId, havePruned, shutdown>>
    BY <1>4 DEF LoopTest
  <2>2. /\ pc' \in [Threads -> {"idle", "find", "test"}]
        /\ mostWork' \in [Threads -> Blocks \cup {None}]
    BY <1>2, <1>4 DEF LoopTest, TypeOK
  <2>3. Known' = Known
    BY <2>1 DEF Known
  <2>4. TypeOK'
    BY <1>2, <2>1, <2>2, <2>3 DEF TypeOK
  <2> QED
    BY <1>1, <1>2, <2>1, <2>3, <2>4 DEF Activated, ValidKnown, TipKnown, ValidatedTo
<1> QED
    BY <1>1, <1>3, <1>4

LEMMA ActivateInv ==
    ASSUME RestartInv, NEW t \in Threads, Activate(t)
    PROVE  RestartInv'
<1>1. /\ Activated
      /\ phase = "up"
      /\ UNCHANGED <<phase, activation, doomed, disk>>
      /\ dirty' = dirty \cup Validated \cup FoundInvalid
    BY ActivateAndCacheFacts DEF Activate
<1>2. Running /\ DurableTipIndexed
    BY <1>1 DEF RestartInv, DiskConsistent
<1>3. ScriptsKept
    BY <1>1 DEF Activated, ScriptsKept
<1>4. Running'
  <2>1. disk.tip \in Blocks
    BY DEF RestartInv, DiskReadable
  <2>2. ValidatedTo(tip)'
    BY <1>1 DEF Activated, ValidatedTo
  <2>3. ValidatedTo(disk.tip)'
    BY <1>1, <1>2, <1>3, <2>1, ValidatedKept DEF Running, ValidatedTo
  <2>4. CleanAgrees'
    <3> SUFFICES ASSUME NEW x \in Blocks \ dirty'
                 PROVE  Agrees(disk.index[x], index'[x])
        BY <1>1 DEF CleanAgrees
    <3>1. index'[x].validity = index[x].validity /\ Agrees(disk.index[x], index[x])
        BY <1>1, <1>2 DEF Running, CleanAgrees, Validated
    <3> QED
        BY <3>1, <1>1 DEF Activated, Agrees
  <2> QED
    BY <1>1, <2>2, <2>3, <2>4 DEF Running, Activated
<1>5. FlushOrder'
    BY <1>1 DEF FlushOrder, RestartInv
<1>6. DiskConsistent'
    BY <1>1, <1>2, DiskUnchanged DEF DiskConsistent, DurableTipIndexed
<1> QED
    BY <1>1, <1>4, <1>5, <1>6, DiskUnchanged DEF RestartInv

-----------------------------------------------------------------------------
(***************************************************************************)
(* FlushStateToDisk.                                                       *)
(***************************************************************************)

\* The flush within a step: the entries of the blocks up to x are written as
\* the step leaves them, so the chain state may be written at x.
LEMMA StepAndFlushInv ==
    ASSUME RestartInv, NEW t \in Threads, StepAndFlush(t)
    PROVE  RestartInv'
<1> DEFINE stops == {Parent[b] : b \in Path[tip] \ Path[tip']} \cup (Path[tip'] \ Path[tip])
           entry(x, b) == [index'[b] EXCEPT !.validity = index[b].validity,
                                            !.failedValid = index[b].failedValid]
           mid(x) == [b \in Blocks |-> IF b \in Path[x] THEN index'[b] ELSE entry(x, b)]
           flags(x) == activates' \cap (activates \cup Path[x])
           set(x) == dirty \cup (Validated \cap Path[x])
<1>1. PICK x \in stops :
          /\ disk' = [Written(disk, set(x), mid(x), branch', flags(x))
                         EXCEPT !.files = Synced(index), !.tip = x]
          /\ dirty' = (Validated \ Path[x]) \cup FoundInvalid
    BY DEF StepAndFlush
<1>2. /\ Activated
      /\ phase = "up"
      /\ UNCHANGED <<phase, activation, doomed>>
    BY ActivateAndCacheFacts DEF StepAndFlush
<1>3. Running /\ FilesPresent /\ DiskReadable
    BY <1>2 DEF RestartInv, DiskConsistent
<1>4. /\ tip \in Blocks
      /\ tip' \in Blocks
      /\ index \in [Blocks -> Entries]
      /\ index' \in [Blocks -> Entries]
    BY <1>2, <1>3 DEF Activated, Running, TypeOK, Known
<1>5. x \in Path[tip] \cup Path[tip']
  <2>1. ASSUME NEW b \in Path[tip] \ Path[tip']
        PROVE  Parent[b] \in Path[tip]
    <3>1. b \in Blocks /\ b # Genesis
        BY <1>4, Tree
    <3>2. Parent[b] \in Path[b] /\ Path[b] \subseteq Path[tip]
        BY <3>1, <1>4, Tree
    <3> QED
        BY <3>2
  <2> QED
    BY <2>1
<1> HIDE DEF stops
<1>6. x \in Blocks /\ (Path[x] \subseteq Path[tip] \/ Path[x] \subseteq Path[tip'])
    BY <1>4, <1>5, Tree
\* The blocks up to x are validated once the step is over.
<1>7. \A y \in Path[x] \ {Genesis} :
          /\ y \in Blocks
          /\ index'[y].known
          /\ index'[y].validity = BLOCK_VALID_SCRIPTS
  <2>1. ScriptsKept
    BY <1>2 DEF Activated, ScriptsKept
  <2>2. \A y \in Path[tip] \ {Genesis} :
            index'[y].known /\ index'[y].validity = BLOCK_VALID_SCRIPTS
    BY <1>3, <1>4, <2>1, ValidatedKept DEF Running
  <2> QED
    BY <1>2, <1>6, <2>2, Tree DEF Activated
<1>8. /\ mid(x) \in [Blocks -> Entries]
      /\ \A b \in Blocks :
            /\ mid(x)[b].known = index[b].known
            /\ mid(x)[b].haveData = index[b].haveData
            /\ mid(x)[b].nTx = index[b].nTx
            /\ mid(x)[b].validity = IF b \in Path[x] THEN index'[b].validity
                                                     ELSE index[b].validity
  <2>1. ASSUME NEW b \in Blocks
        PROVE  /\ entry(x, b) \in Entries
               /\ entry(x, b).known = index'[b].known
               /\ entry(x, b).haveData = index'[b].haveData
               /\ entry(x, b).nTx = index'[b].nTx
               /\ entry(x, b).validity = index[b].validity
    <3>1. index'[b] \in Entries /\ index[b] \in Entries
        BY <1>4
    <3> DEFINE v == index[b].validity
               f == index[b].failedValid
    <3>2. v \in {0, 2, 3, 5} /\ f \in BOOLEAN
        BY <3>1 DEF Entries
    <3> HIDE DEF v, f
    <3>3. /\ [index'[b] EXCEPT !.validity = v, !.failedValid = f] \in Entries
          /\ [index'[b] EXCEPT !.validity = v, !.failedValid = f].known = index'[b].known
          /\ [index'[b] EXCEPT !.validity = v, !.failedValid = f].haveData = index'[b].haveData
          /\ [index'[b] EXCEPT !.validity = v, !.failedValid = f].nTx = index'[b].nTx
          /\ [index'[b] EXCEPT !.validity = v, !.failedValid = f].validity = v
        BY <3>1, <3>2 DEF Entries
    <3> QED
        BY <3>3 DEF v, f
  <2> HIDE DEF entry
  <2>2. \A b \in Blocks : /\ index'[b].known = index[b].known
                          /\ index'[b].haveData = index[b].haveData
                          /\ index'[b].nTx = index[b].nTx
    BY <1>2 DEF Activated
  <2>3. mid(x) \in [Blocks -> Entries]
    BY <1>4, <2>1
  <2>4. \A b \in Blocks : mid(x)[b] = IF b \in Path[x] THEN index'[b] ELSE entry(x, b)
    OBVIOUS
  <2> HIDE DEF mid
  <2> QED
    BY <2>1, <2>2, <2>3, <2>4
<1> HIDE DEF mid
<1>9. /\ DOMAIN disk' = Fields
      /\ disk'.index \in [Blocks -> Entries]
      /\ disk'.files = Synced(index)
      /\ disk'.tip = x
      /\ disk'.havePruned = disk.havePruned
      /\ \A b \in Blocks \ set(x) : disk'.index[b] = disk.index[b]
      /\ \A b \in Blocks \cap set(x) : /\ disk'.index[b].known = mid(x)[b].known
                                       /\ disk'.index[b].validity = mid(x)[b].validity
                                       /\ disk'.index[b].haveData = mid(x)[b].haveData
                                       /\ disk'.index[b].nTx = mid(x)[b].nTx
  <2> DEFINE w == Written(disk, set(x), mid(x), branch', flags(x))
             idx == mid(x)
             wr == set(x)
             fl == flags(x)
             ids == branch'
             d == disk
  <2>1. DOMAIN d = Fields /\ d.index \in [Blocks -> Entries] /\ idx \in [Blocks -> Entries]
    BY <1>3, <1>8 DEF DiskReadable
  <2>2. w = Written(d, wr, idx, ids, fl)
    OBVIOUS
  <2> HIDE DEF idx, wr, fl, ids, d, w, set
  <2>3. IsWritten(d, wr, idx, w)
    BY ONLY <2>1, <2>2, WrittenFacts
  <2>4. disk' = [w EXCEPT !.files = Synced(index), !.tip = x]
    BY <1>1 DEF w
  <2>5. /\ DOMAIN disk' = Fields
        /\ disk'.index = w.index
        /\ disk'.files = Synced(index)
        /\ disk'.tip = x
        /\ disk'.havePruned = w.havePruned
    BY <2>3, <2>4, FieldFacts DEF IsWritten
  <2> QED
    BY <2>3, <2>5 DEF idx, wr, d, IsWritten
\* What is not dirty afterwards is on disk as it is in memory.
<1>10. ASSUME NEW b \in Blocks \ (Validated \ Path[x])
       PROVE  Agrees(disk'.index[b], index'[b])
  <2>1. /\ index'[b].known = index[b].known
        /\ index'[b].haveData = index[b].haveData
    BY <1>2 DEF Activated
  <2>2. b \notin Path[x] => index'[b].validity = index[b].validity
    BY DEF Validated
  <2>3. CASE b \in set(x)
    BY <2>1, <2>2, <2>3, <1>8, <1>9 DEF Agrees
  <2>4. CASE b \notin set(x)
    <3>1. index'[b].validity = index[b].validity /\ b \notin dirty
        BY <2>4 DEF Validated
    <3> QED
        BY <3>1, <2>1, <2>4, <1>3, <1>9 DEF Running, CleanAgrees, Agrees
  <2> QED
    BY <2>3, <2>4
<1>11. DiskReadable'
  <2>1. ASSUME NEW b \in Blocks,
               disk'.index[b].haveData \/ disk'.index[b].nTx \/ disk'.index[b].validity # 0
        PROVE  disk'.index[b].known
    <3>1. CASE b \in set(x)
      <4>1. index[b].haveData \/ index[b].nTx \/ index[b].validity # 0 => index[b].known
        BY <1>3 DEF Running, ValidKnown
      <4>2. b \in Path[x] /\ b # Genesis => index[b].known
        BY <1>2, <1>7 DEF Activated
      <4>3. b = Genesis => index[b].known
        BY <1>3, <1>4, Tree DEF Running, TipKnown, Known
      <4> QED
        BY <4>1, <4>2, <4>3, <3>1, <2>1, <1>8, <1>9
    <3>2. CASE b \notin set(x)
        BY <2>1, <3>2, <1>3, <1>9 DEF DiskReadable
    <3> QED
        BY <3>1, <3>2
  <2>2. disk'.index[Genesis].known
    <3>1. Genesis \in Blocks /\ index[Genesis].known /\ disk.index[Genesis].known
        BY <1>3, <1>4, Tree DEF Running, TipKnown, Known, DiskReadable
    <3> QED
        BY <3>1, <1>8, <1>9
  <2> QED
    BY <2>1, <2>2, <1>3, <1>6, <1>9 DEF DiskReadable
<1>12. DurableTipIndexed'
  <2> SUFFICES ASSUME NEW y \in Path[x] \ {Genesis}
               PROVE  disk'.index[y].known /\ disk'.index[y].validity = BLOCK_VALID_SCRIPTS
    BY <1>9 DEF DurableTipIndexed
  <2> QED
    BY <1>7, <1>10 DEF Agrees
<1>13. FilesPresent'
  <2> SUFFICES ASSUME NEW b \in Blocks, disk'.index[b].haveData
               PROVE  b \in Synced(index)
    BY <1>9 DEF FilesPresent
  <2>1. CASE b \in set(x)
    BY <2>1, <1>8, <1>9 DEF Synced
  <2>2. CASE b \notin set(x)
    BY <2>2, <1>3, <1>9 DEF Synced, FilesPresent
  <2> QED
    BY <2>1, <2>2
<1>14. Running'
  <2>1. CleanAgrees'
    BY <1>1, <1>10 DEF CleanAgrees
  <2>2. ValidatedTo(tip)'
    BY <1>2 DEF Activated, ValidatedTo
  <2>3. ValidatedTo(disk.tip)'
    BY <1>7, <1>9 DEF ValidatedTo
  <2> QED
    BY <1>2, <2>1, <2>2, <2>3 DEF Running, Activated
<1>15. FlushOrder'
    BY <1>2 DEF FlushOrder, RestartInv
<1> QED
    BY <1>2, <1>11, <1>12, <1>13, <1>14, <1>15 DEF RestartInv, DiskConsistent

LEMMA StartFlushInv ==
    ASSUME RestartInv, NEW full \in BOOLEAN, StartFlush(full)
    PROVE  RestartInv'
<1>1. /\ phase = "up"
      /\ phase' \in {"write", "writeall"}
      /\ disk' = [disk EXCEPT !.files = Synced(index)]
      /\ UNCHANGED <<index, candidates, unlinked, tip, nextId, havePruned, pc, mostWork, shutdown,
                     activation, dirty, doomed>>
    BY DEF StartFlush, vars
<1>2. Running /\ FilesPresent /\ DiskReadable /\ DurableTipIndexed
    BY <1>1 DEF RestartInv, DiskConsistent
<1>3. /\ DOMAIN disk' = Fields
      /\ disk'.index = disk.index
      /\ disk'.files = Synced(index)
      /\ disk'.tip = disk.tip
      /\ disk'.havePruned = disk.havePruned
    BY <1>1, <1>2, FieldFacts DEF DiskReadable
<1>4. DiskReadable'
    BY <1>2, <1>3 DEF DiskReadable
<1>5. DurableTipIndexed' /\ FilesPresent'
    BY <1>1, <1>2, <1>3 DEF DurableTipIndexed, FilesPresent, Synced
<1>6. doomed = {}
    BY <1>1 DEF RestartInv, FlushOrder
<1>7. FlushOrder'
    BY <1>1, <1>3, <1>6 DEF FlushOrder, Synced
<1>8. Running'
    BY <1>1, <1>2, <1>3
    DEF Running, TypeOK, Known, ValidKnown, TipKnown, ValidatedTo, CleanAgrees
<1> QED
    BY <1>1, <1>4, <1>5, <1>7, <1>8 DEF RestartInv, DiskConsistent

LEMMA StartPruneInv ==
    ASSUME RestartInv, NEW b \in Prunable, StartPrune(b)
    PROVE  RestartInv'
<1>1. /\ phase = "up"
      /\ PruneOneBlockFile(b)
      /\ phase' = "writeall"
      /\ dirty' = dirty \cup {b}
      /\ doomed' = {b}
      /\ disk' = [disk EXCEPT !.files = Synced(index'), !.havePruned = TRUE]
      /\ UNCHANGED activation
      /\ b \in Blocks
    BY RestartAssumption DEF StartPrune
<1>2. Running /\ FilesPresent /\ DiskReadable /\ DurableTipIndexed
    BY <1>1 DEF RestartInv, DiskConsistent
<1>3. /\ TypeOK'
      /\ Known' = Known
      /\ tip' = tip
      /\ \A x \in Blocks : /\ index'[x].known = index[x].known
                           /\ index'[x].validity = index[x].validity
                           /\ index'[x].nTx = index[x].nTx
                           /\ index'[x].haveData = (index[x].haveData /\ x # b)
    BY <1>1, <1>2, PruneFacts DEF Running
<1>4. /\ DOMAIN disk' = Fields
      /\ disk'.index = disk.index
      /\ disk'.tip = disk.tip
      /\ disk'.havePruned = TRUE
    BY <1>1, <1>2, FieldFacts DEF DiskReadable
<1>5. disk'.files = disk.files \cup {x \in Blocks : index'[x].haveData}
    BY <1>1, <1>2, FieldFacts DEF DiskReadable, Synced
<1>6. DiskReadable'
    BY <1>2, <1>4 DEF DiskReadable
<1>7. DurableTipIndexed' /\ FilesPresent'
    BY <1>1, <1>2, <1>4, <1>5 DEF DurableTipIndexed, FilesPresent
<1>8. FlushOrder'
    BY <1>1, <1>3, <1>5 DEF FlushOrder
<1>9. Running'
  <2>1. ValidKnown' /\ TipKnown'
    BY <1>2, <1>3 DEF Running, ValidKnown, TipKnown
  <2>2. ScriptsKept
    BY <1>3 DEF ScriptsKept
  <2>3. tip \in Blocks /\ disk.tip \in Blocks
    BY <1>2 DEF Running, TypeOK, Known, DiskReadable
  <2>4. ValidatedTo(tip)'
    BY <1>2, <1>3, <2>2, <2>3, ValidatedKept DEF Running, ValidatedTo
  <2>5. ValidatedTo(disk.tip)'
    BY <1>1, <1>2, <1>4, <2>2, <2>3, ValidatedKept DEF Running, ValidatedTo
  <2>6. CleanAgrees'
    <3> SUFFICES ASSUME NEW x \in Blocks \ dirty'
                 PROVE  Agrees(disk.index[x], index'[x])
        BY <1>4 DEF CleanAgrees
    <3>1. x # b /\ Agrees(disk.index[x], index[x])
        BY <1>1, <1>2 DEF Running, CleanAgrees
    <3>2. index'[x].haveData = index[x].haveData
      <4>1. index[x].haveData \in BOOLEAN
        BY <1>2 DEF Running, TypeOK, Entries
      <4> QED
        BY <4>1, <3>1, <1>3
    <3> QED
        BY <3>1, <3>2, <1>3 DEF Agrees
  <2> QED
    BY <1>3, <2>1, <2>4, <2>5, <2>6 DEF Running
<1> QED
    BY <1>1, <1>6, <1>7, <1>8, <1>9 DEF RestartInv, DiskConsistent

LEMMA WriteBlockIndexInv ==
    ASSUME RestartInv, WriteBlockIndex
    PROVE  RestartInv'
<1>1. /\ phase \in {"write", "writeall"}
      /\ disk' = Written(disk, dirty, index, branch, activates)
      /\ dirty' = {}
      /\ phase' = IF phase = "write" THEN "up" ELSE IF doomed = {} THEN "coins" ELSE "unlink"
      /\ UNCHANGED <<index, candidates, unlinked, tip, nextId, havePruned, pc, mostWork, shutdown,
                     activation, doomed>>
    BY DEF WriteBlockIndex, vars
<1>2. /\ Running
      /\ FilesPresent
      /\ DiskReadable
      /\ DurableTipIndexed
      /\ \A b \in Blocks : index[b].haveData => b \in disk.files
    BY <1>1 DEF RestartInv, DiskConsistent, FlushOrder
<1>3. IsWritten(disk, dirty, index, disk')
    BY <1>1, <1>2, WrittenFacts DEF DiskReadable, Running, TypeOK
<1>4. /\ DOMAIN disk' = Fields
      /\ disk'.index \in [Blocks -> Entries]
      /\ disk'.files = disk.files
      /\ disk'.tip = disk.tip
      /\ disk'.havePruned = disk.havePruned
      /\ \A b \in Blocks : Agrees(disk'.index[b], index[b])
    BY <1>2, <1>3 DEF IsWritten, Agrees, Running, CleanAgrees
<1>5. DiskReadable'
  <2>1. ASSUME NEW b \in Blocks,
               disk'.index[b].haveData \/ disk'.index[b].nTx \/ disk'.index[b].validity # 0
        PROVE  disk'.index[b].known
    <3>1. CASE b \in dirty
        BY <3>1, <2>1, <1>2, <1>3 DEF IsWritten, Running, ValidKnown
    <3>2. CASE b \notin dirty
        BY <3>2, <2>1, <1>2, <1>3 DEF IsWritten, DiskReadable
    <3> QED
        BY <3>1, <3>2
  <2>2. disk'.index[Genesis].known
    <3>1. Genesis \in Blocks /\ index[Genesis].known
        BY <1>2, Tree DEF Running, TypeOK, TipKnown, Known
    <3> QED
        BY <3>1, <1>4 DEF Agrees
  <2> QED
    BY <2>1, <2>2, <1>2, <1>4 DEF DiskReadable
<1>6. DurableTipIndexed'
  <2> SUFFICES ASSUME NEW x \in Path[disk.tip] \ {Genesis}
               PROVE  disk'.index[x].known /\ disk'.index[x].validity = BLOCK_VALID_SCRIPTS
    BY <1>4 DEF DurableTipIndexed
  <2>1. /\ x \in Blocks
        /\ index[x].known
        /\ index[x].validity = BLOCK_VALID_SCRIPTS
    BY <1>1, <1>2, Tree DEF Running, ValidatedTo, DiskReadable
  <2> QED
    BY <2>1, <1>4 DEF Agrees
<1>7. FilesPresent'
    BY <1>2, <1>4 DEF FilesPresent, Agrees
<1>8. FlushOrder'
    BY <1>1 DEF RestartInv, FlushOrder
<1>9. Running'
  <2>1. CleanAgrees'
    BY <1>1, <1>4 DEF CleanAgrees
  <2>2. TypeOK' /\ ValidKnown' /\ TipKnown' /\ ValidatedTo(tip)'
    BY <1>1, <1>2 DEF Running, TypeOK, Known, ValidKnown, TipKnown, ValidatedTo
  <2>3. ValidatedTo(disk.tip)'
    BY <1>1, <1>2, <1>4 DEF Running, ValidatedTo
  <2> QED
    BY <2>1, <2>2, <2>3 DEF Running
<1> QED
    BY <1>1, <1>5, <1>6, <1>7, <1>8, <1>9 DEF RestartInv, DiskConsistent

LEMMA UnlinkPrunedFilesInv ==
    ASSUME RestartInv, UnlinkPrunedFiles
    PROVE  RestartInv'
<1>1. /\ phase = "unlink"
      /\ disk' = [disk EXCEPT !.files = disk.files \ doomed]
      /\ doomed' = {}
      /\ phase' = "coins"
      /\ UNCHANGED <<index, candidates, unlinked, tip, nextId, havePruned, pc, mostWork, shutdown,
                     activation, dirty>>
    BY DEF UnlinkPrunedFiles, vars
<1>2. /\ Running
      /\ FilesPresent
      /\ DiskReadable
      /\ DurableTipIndexed
      /\ dirty = {}
      /\ \A b \in doomed : ~ index[b].haveData
    BY <1>1 DEF RestartInv, DiskConsistent, FlushOrder
<1>3. /\ DOMAIN disk' = Fields
      /\ disk'.index = disk.index
      /\ disk'.files = disk.files \ doomed
      /\ disk'.tip = disk.tip
      /\ disk'.havePruned = disk.havePruned
    BY <1>1, <1>2, FieldFacts DEF DiskReadable
<1>4. DiskReadable' /\ DurableTipIndexed'
    BY <1>1, <1>2, <1>3 DEF DiskReadable, DurableTipIndexed
<1>5. FilesPresent'
    BY <1>2, <1>3 DEF FilesPresent, Running, CleanAgrees, Agrees
<1>6. FlushOrder'
    BY <1>1, <1>2 DEF FlushOrder
<1>7. Running'
    BY <1>1, <1>2, <1>3
    DEF Running, TypeOK, Known, ValidKnown, TipKnown, ValidatedTo, CleanAgrees
<1> QED
    BY <1>1, <1>4, <1>5, <1>6, <1>7 DEF RestartInv, DiskConsistent

\* With nothing dirty, the chain state may be written at the tip.
LEMMA TipWritten ==
    ASSUME RestartInv, phase \notin {"down", "up", "write", "writeall"},
           disk' = [disk EXCEPT !.tip = tip],
           phase' # "down", phase' # "write", phase' # "writeall",
           doomed = {},
           UNCHANGED <<index, candidates, unlinked, tip, nextId, havePruned, mostWork, shutdown,
                       activation, dirty, doomed>>,
           pc' \in [Threads -> {"idle", "find", "test"}]
    PROVE  RestartInv'
<1>1. Running /\ FilesPresent /\ DiskReadable /\ dirty = {}
    BY DEF RestartInv, DiskConsistent, FlushOrder
<1>2. /\ DOMAIN disk' = Fields
      /\ disk'.index = disk.index
      /\ disk'.files = disk.files
      /\ disk'.tip = tip
      /\ disk'.havePruned = disk.havePruned
    BY <1>1, FieldFacts DEF DiskReadable
<1>3. tip \in Blocks
    BY <1>1 DEF Running, TypeOK, Known
<1>4. DiskReadable' /\ FilesPresent'
    BY <1>1, <1>2, <1>3 DEF DiskReadable, FilesPresent
<1>5. DurableTipIndexed'
    BY <1>1, <1>2, <1>3, Tree DEF DurableTipIndexed, Running, ValidatedTo, CleanAgrees, Agrees
<1>6. FlushOrder'
    BY <1>1 DEF FlushOrder
<1>7. Running'
    BY <1>1, <1>2
    DEF Running, TypeOK, Known, ValidKnown, TipKnown, ValidatedTo, CleanAgrees
<1> QED
    BY <1>4, <1>5, <1>6, <1>7 DEF RestartInv, DiskConsistent

LEMMA FlushCoinsInv ==
    ASSUME RestartInv, FlushCoins
    PROVE  RestartInv'
<1>1. /\ phase = "coins"
      /\ disk' = [disk EXCEPT !.tip = tip]
      /\ phase' = "up"
      /\ UNCHANGED <<index, candidates, unlinked, tip, nextId, havePruned, pc, mostWork, shutdown,
                     activation, dirty, doomed>>
    BY DEF FlushCoins, vars
<1>2. doomed = {} /\ pc \in [Threads -> {"idle", "find", "test"}]
    BY <1>1 DEF RestartInv, FlushOrder, Running, TypeOK
<1> QED
    BY <1>1, <1>2, TipWritten

-----------------------------------------------------------------------------
(***************************************************************************)
(* Crash and start.                                                        *)
(***************************************************************************)

LEMMA ResetInv ==
    ASSUME RestartInv, phase # "erased", Reset
    PROVE  RestartInv'
<1>1. /\ index' = Nothing
      /\ phase' = "down"
      /\ dirty' = {}
      /\ doomed' = {}
      /\ UNCHANGED <<activation, disk>>
    BY DEF Reset
<1>2. Fresh'
    BY DEF Reset, Fresh
<1>3. DiskConsistent'
    BY <1>1 DEF RestartInv, DiskConsistent, DurableTipIndexed, FilesPresent
<1>4. FlushOrder'
    BY <1>1 DEF FlushOrder
<1> QED
    BY <1>1, <1>2, <1>3, <1>4, DiskUnchanged DEF RestartInv

\* LoadBlockIndexDB computes nChainTx of every entry.
LEMMA ChainTxBoolean ==
    ASSUME disk.index \in [Blocks -> Entries]
    PROVE  LET chainTx[b \in Blocks] ==
                   disk.index[b].nTx /\ (b = Genesis \/ chainTx[Parent[b]])
           IN  /\ chainTx \in [Blocks -> BOOLEAN]
               /\ chainTx[Genesis] = disk.index[Genesis].nTx
<1> DEFINE Eq(f) == f = [b \in Blocks |-> disk.index[b].nTx /\ (b = Genesis \/ f[Parent[b]])]
           chainTx == CHOOSE f : Eq(f)
           nTx == [b \in Blocks |-> disk.index[b].nTx]
           F == [b \in Blocks \ {Genesis} |-> [v \in BOOLEAN |-> nTx[b] /\ v]]
<1>1. nTx \in [Blocks -> BOOLEAN] /\ Genesis \in Blocks
    BY Tree DEF Entries
<1>2. F \in [Blocks \ {Genesis} -> [BOOLEAN -> BOOLEAN]]
    BY <1>1
<1>3. PICK f : IsTreeFold(Blocks, Genesis, Parent, BOOLEAN, nTx[Genesis], F, f)
  <2> DEFINE x0 == nTx[Genesis]
             X == BOOLEAN
  <2>1. x0 \in X /\ F \in [Blocks \ {Genesis} -> [X -> X]]
    BY <1>1, <1>2
  <2>2. IsTree(Blocks, Genesis, Parent)
    BY BlockTreeAssumption
  <2> HIDE DEF F, x0, X, nTx
  <2>3. \E f : IsTreeFold(Blocks, Genesis, Parent, X, x0, F, f)
    BY <2>1, <2>2, TreeFoldExists
  <2> QED
    BY <2>3 DEF x0, X
<1>4. /\ f \in [Blocks -> BOOLEAN]
      /\ f[Genesis] = nTx[Genesis]
      /\ \A b \in Blocks \ {Genesis} : f[b] = F[b][f[Parent[b]]]
  <2> HIDE DEF F, nTx
  <2> QED
    BY <1>3 DEF IsTreeFold
<1>5. \A b \in Blocks \ {Genesis} : f[b] = (nTx[b] /\ f[Parent[b]])
  <2>1. \A b \in Blocks \ {Genesis} : f[Parent[b]] \in BOOLEAN
    BY <1>4, Tree
  <2> HIDE DEF nTx
  <2> QED
    BY <1>4, <2>1
<1>6. Eq(f)
  <2>1. \A b \in Blocks : f[b] = (disk.index[b].nTx /\ (b = Genesis \/ f[Parent[b]]))
    <3> SUFFICES ASSUME NEW b \in Blocks
                 PROVE  f[b] = (disk.index[b].nTx /\ (b = Genesis \/ f[Parent[b]]))
        OBVIOUS
    <3>1. nTx[b] = disk.index[b].nTx /\ nTx[b] \in BOOLEAN
        BY <1>1
    <3> HIDE DEF nTx, F
    <3>2. CASE b = Genesis
        BY <3>1, <3>2, <1>4
    <3>3. CASE b # Genesis
        BY <3>1, <3>3, <1>5
    <3> QED
        BY <3>2, <3>3
  <2>2. f = [b \in Blocks |-> f[b]]
    BY <1>4
  <2> QED
    BY <2>1, <2>2
<1>7. Eq(chainTx)
  <2> HIDE DEF Eq
  <2> QED
    BY <1>6
<1> HIDE DEF chainTx
<1>8. chainTx \in [Blocks -> BOOLEAN]
  <2>1. \A b \in Blocks : (disk.index[b].nTx /\ (b = Genesis \/ chainTx[Parent[b]])) \in BOOLEAN
    OBVIOUS
  <2> QED
    BY <2>1, <1>7
<1>9. chainTx[Genesis] = disk.index[Genesis].nTx
  <2>1. disk.index[Genesis].nTx \in BOOLEAN
    BY <1>1 DEF Entries
  <2>2. chainTx[Genesis] = (disk.index[Genesis].nTx /\ TRUE)
    BY <1>1, <1>7
  <2> QED
    BY <2>1, <2>2
<1> QED
    BY <1>8, <1>9 DEF chainTx

\* A listing is a sequence of its members.
LEMMA ListingSeq ==
    ASSUME NEW S \in SUBSET Blocks, NEW s \in [1..Cardinality(S) -> S]
    PROVE  s \in Seq(S)
<1>1. Cardinality(S) \in Nat
    BY BlockTreeAssumption, FS_Subset, FS_CardinalityType
<1> QED
    BY <1>1

LEMMA LoadBlockIndexDBInv ==
    ASSUME RestartInv, NEW height \in Activations, LoadBlockIndexDB(height)
    PROVE  RestartInv'
<1> DEFINE chainTx == CHOOSE f : f = [b \in Blocks |-> disk.index[b].nTx
                                                       /\ (b = Genesis \/ f[Parent[b]])]
           entry(b) == [disk.index[b] EXCEPT !.nChainTx = chainTx[b]]
           idx == [b \in Blocks |-> entry(b)]
           waiting == {b \in Blocks : idx[b].nTx /\ ~ chainTx[b]}
           complete == {b \in Blocks : /\ IsValid(idx[b], BLOCK_VALID_TRANSACTIONS)
                                       /\ idx[b].nChainTx}
<1>1. /\ phase = "down"
      /\ activation' = height
      /\ index' = idx
      /\ unlinked' \in [1..Cardinality(waiting) -> waiting]
      /\ tip' = disk.tip
      /\ candidates' = PruneBlockIndexCandidates(idx, complete, disk.tip)
      /\ havePruned' = disk.havePruned
      /\ phase' = "rewind"
      /\ UNCHANGED <<nextId, pc, mostWork, shutdown, dirty, doomed, disk>>
    BY DEF LoadBlockIndexDB, Listings
<1>2. Fresh /\ DiskReadable /\ DurableTipIndexed /\ FilesPresent /\ dirty = {} /\ doomed = {}
    BY <1>1 DEF RestartInv, DiskConsistent, FlushOrder
<1>3. chainTx \in [Blocks -> BOOLEAN] /\ chainTx[Genesis] = disk.index[Genesis].nTx
    BY <1>2, ChainTxBoolean DEF DiskReadable
<1> HIDE DEF chainTx
<1>4. ASSUME NEW b \in Blocks
      PROVE  /\ entry(b) \in Entries
             /\ entry(b).known = disk.index[b].known
             /\ entry(b).haveData = disk.index[b].haveData
             /\ entry(b).nTx = disk.index[b].nTx
             /\ entry(b).validity = disk.index[b].validity
  <2> DEFINE v == chainTx[b]
             e == disk.index[b]
  <2>1. v \in BOOLEAN /\ e \in Entries
    BY <1>2, <1>3 DEF DiskReadable
  <2> HIDE DEF v, e
  <2>2. /\ [e EXCEPT !.nChainTx = v] \in Entries
        /\ [e EXCEPT !.nChainTx = v].known = e.known
        /\ [e EXCEPT !.nChainTx = v].haveData = e.haveData
        /\ [e EXCEPT !.nChainTx = v].nTx = e.nTx
        /\ [e EXCEPT !.nChainTx = v].validity = e.validity
    BY <2>1 DEF Entries
  <2> QED
    BY <2>2 DEF v, e
<1> HIDE DEF entry
<1>5. /\ idx \in [Blocks -> Entries]
      /\ \A b \in Blocks : /\ idx[b].known = disk.index[b].known
                           /\ idx[b].haveData = disk.index[b].haveData
                           /\ idx[b].nTx = disk.index[b].nTx
                           /\ idx[b].validity = disk.index[b].validity
    BY <1>4
<1> HIDE DEF idx
<1>6. ValidKnown'
    BY <1>1, <1>2, <1>5 DEF ValidKnown, DiskReadable
<1>7. Path[disk.tip] \subseteq Blocks /\ disk.tip \in Blocks /\ Genesis \in Blocks
    BY <1>2, Tree DEF DiskReadable
<1>8. \A x \in Path[disk.tip] \ {Genesis} :
          idx[x].known /\ idx[x].validity = BLOCK_VALID_SCRIPTS
    BY <1>1, <1>2, <1>5, <1>7 DEF DurableTipIndexed
<1>9. TipKnown'
    BY <1>1, <1>2, <1>5, <1>7, <1>8 DEF TipKnown, Known, DiskReadable
<1>10. TypeOK'
  <2>1. waiting \subseteq Known' \ {Genesis}
    <3>1. \A b \in waiting : b \in Blocks /\ idx[b].nTx /\ ~ chainTx[b]
        OBVIOUS
    <3>2. Genesis \notin waiting
        BY <3>1, <1>3, <1>5, <1>7
    <3> QED
        BY <3>1, <3>2, <1>1, <1>6 DEF ValidKnown, Known
  <2>2. unlinked' \in Seq(Known' \ {Genesis})
    <3>1. waiting \in SUBSET Blocks
        OBVIOUS
    <3> HIDE DEF waiting
    <3>2. unlinked' \in Seq(waiting)
        BY <3>1, <1>1, ListingSeq
    <3> DEFINE K == Known' \ {Genesis}
               q == unlinked'
    <3>3. q \in Seq(waiting) /\ waiting \subseteq K
        BY <2>1, <3>2
    <3> HIDE DEF K, q
    <3>4. q \in Seq(K)
        BY <3>3, SeqGrows
    <3> QED
        BY <3>4 DEF K, q
  <2>3. candidates' \subseteq Known'
    <3> SUFFICES ASSUME NEW b \in complete
                 PROVE  b \in Known'
        BY <1>1 DEF PruneBlockIndexCandidates
    <3>1. b \in Blocks /\ idx[b].validity >= 3
        BY DEF IsValid, BLOCK_VALID_TRANSACTIONS
    <3>2. idx[b].validity # 0
        BY <3>1
    <3> QED
        BY <3>1, <3>2, <1>1, <1>6 DEF ValidKnown, Known
  <2>4. tip' \in Known'
    BY <1>1, <1>7, <1>9, Tree DEF TipKnown
  <2>5. nextId' \in 1..(MaxSequenceId + 1)
    BY <1>1, <1>2, BlockTreeAssumption DEF Fresh
  <2> QED
    BY <1>1, <1>2, <1>5, <2>2, <2>3, <2>4, <2>5 DEF TypeOK, Fresh, DiskReadable
<1>11. Running'
  <2>1. ValidatedTo(tip)' /\ ValidatedTo(disk.tip)'
    BY <1>1, <1>8 DEF ValidatedTo
  <2>2. CleanAgrees'
    BY <1>1, <1>5 DEF CleanAgrees, Agrees
  <2> QED
    BY <1>6, <1>9, <1>10, <2>1, <2>2 DEF Running
<1>12. DiskReadable' /\ FilesPresent' /\ DurableTipIndexed'
    BY <1>1, <1>2 DEF DiskReadable, FilesPresent, DurableTipIndexed
<1>13. FlushOrder'
    BY <1>1, <1>2 DEF FlushOrder
<1> QED
    BY <1>1, <1>11, <1>12, <1>13 DEF RestartInv, DiskConsistent

LEMMA RewindTipInv ==
    ASSUME RestartInv, RewindTip
    PROVE  RestartInv'
<1>1. /\ phase = "rewind"
      /\ ToRewind # {}
      /\ tip' = Parent[tip]
      /\ disk' \in {disk, [disk EXCEPT !.tip = Parent[tip]]}
      /\ UNCHANGED <<index, candidates, unlinked, nextId, havePruned, pc, mostWork, shutdown,
                     phase, activation, dirty, doomed>>
    BY DEF RewindTip
<1>2. Running /\ DiskReadable /\ DurableTipIndexed /\ FilesPresent /\ dirty = {}
    BY <1>1 DEF RestartInv, DiskConsistent, FlushOrder
<1>3. tip \in Blocks \ {Genesis}
  <2>1. PICK b \in Path[tip] : \E x \in Path[b] \ {Genesis} : ~ SufficientlyValidated(x)
    BY <1>1 DEF ToRewind
  <2>2. tip \in Blocks
    BY <1>2 DEF Running, TypeOK, Known
  <2> QED
    BY <2>1, <2>2, Tree
<1>4. Parent[tip] \in Path[tip] /\ Path[Parent[tip]] \subseteq Path[tip] /\ Parent[tip] \in Blocks
    BY <1>3, Tree
<1>5. /\ DOMAIN disk' = Fields
      /\ disk'.index = disk.index
      /\ disk'.files = disk.files
      /\ disk'.tip \in {disk.tip, Parent[tip]}
      /\ disk'.havePruned = disk.havePruned
  <2>1. CASE disk' = disk
    BY <2>1, <1>2 DEF DiskReadable
  <2>2. CASE disk' = [disk EXCEPT !.tip = Parent[tip]]
    BY <2>2, <1>2, FieldFacts DEF DiskReadable
  <2> QED
    BY <2>1, <2>2, <1>1
<1>6. DiskReadable' /\ FilesPresent'
    BY <1>2, <1>4, <1>5 DEF DiskReadable, FilesPresent
<1>7. \A x \in Path[Parent[tip]] \ {Genesis} :
          /\ x \in Blocks
          /\ index[x].known
          /\ index[x].validity = BLOCK_VALID_SCRIPTS
    BY <1>2, <1>4, Tree DEF Running, ValidatedTo
<1>8. DurableTipIndexed'
  <2>1. \A x \in Path[Parent[tip]] \ {Genesis} :
            disk.index[x].known /\ disk.index[x].validity = BLOCK_VALID_SCRIPTS
    BY <1>2, <1>7 DEF Running, CleanAgrees, Agrees
  <2>2. \A x \in Path[disk.tip] \ {Genesis} :
            disk.index[x].known /\ disk.index[x].validity = BLOCK_VALID_SCRIPTS
    BY <1>1, <1>2 DEF DurableTipIndexed
  <2> QED
    BY <2>1, <2>2, <1>5 DEF DurableTipIndexed
<1>9. Running'
  <2>1. Known' = Known
    BY <1>1 DEF Known
  <2>2. TypeOK' /\ ValidKnown' /\ TipKnown'
    BY <1>1, <1>2, <1>4, <2>1 DEF Running, TypeOK, ValidKnown, TipKnown
  <2>3. ValidatedTo(tip)'
    BY <1>1, <1>7 DEF ValidatedTo
  <2>4. ValidatedTo(disk.tip)'
    BY <1>1, <1>2, <1>5, <1>7 DEF Running, ValidatedTo
  <2>5. CleanAgrees'
    BY <1>1, <1>2, <1>5 DEF Running, CleanAgrees
  <2> QED
    BY <2>2, <2>3, <2>4, <2>5 DEF Running
<1>10. FlushOrder'
    BY <1>1 DEF RestartInv, FlushOrder
<1> QED
    BY <1>1, <1>6, <1>8, <1>9, <1>10 DEF RestartInv, DiskConsistent

LEMMA EraseInsufficientInv ==
    ASSUME RestartInv, EraseInsufficient
    PROVE  RestartInv'
<1> DEFINE idx == [b \in Blocks |-> IF b \in Insufficient THEN Unknown ELSE index[b]]
           kept == (candidates \ Insufficient) \cup Resumable
<1>1. /\ phase = "rewind"
      /\ index' = idx
      /\ candidates' = PruneBlockIndexCandidates(idx, kept, tip)
      /\ unlinked' = Only(unlinked, Blocks \ Insufficient)
      /\ disk' = Written(disk, Insufficient, idx, branch, {})
      /\ phase' = "erased"
      /\ UNCHANGED <<tip, nextId, havePruned, pc, mostWork, shutdown, activation, dirty, doomed>>
    BY DEF EraseInsufficient
<1>2. Running /\ DiskReadable /\ FilesPresent /\ dirty = {} /\ doomed = {}
    BY <1>1 DEF RestartInv, DiskConsistent, FlushOrder
<1>3. /\ Insufficient \subseteq Known
      /\ Insufficient \cap Path[tip] = {}
      /\ Resumable \subseteq Known \ Insufficient
    BY DEF Insufficient, Resumable
<1> HIDE DEF Insufficient, Resumable
<1>4. /\ Unknown \in Entries
      /\ ~ Unknown.known
      /\ ~ Unknown.haveData
      /\ ~ Unknown.nTx
      /\ Unknown.validity = 0
  <2>1. 0 \in 0..MaxSequenceId
    BY BlockTreeAssumption
  <2> QED
    BY <2>1 DEF Unknown, Entries
<1> HIDE DEF Unknown
<1>5. /\ idx \in [Blocks -> Entries]
      /\ \A b \in Blocks \cap Insufficient : idx[b] = Unknown
      /\ \A b \in Blocks \ Insufficient : idx[b] = index[b]
    BY <1>2, <1>4 DEF Running, TypeOK
<1> HIDE DEF idx
<1>6. Known' = Known \ Insufficient
    BY <1>1, <1>4, <1>5 DEF Known
<1>7. tip \in Blocks /\ Path[tip] \subseteq Blocks /\ tip \in Path[tip] /\ Genesis \in Path[tip]
    BY <1>2, Tree DEF Running, TypeOK, Known
<1>8. TypeOK'
  <2>1. candidates' \subseteq Known'
    BY <1>1, <1>2, <1>3, <1>6 DEF PruneBlockIndexCandidates, Running, TypeOK
  <2>2. unlinked' \in Seq(Known' \ {Genesis})
    <3> DEFINE K == Known \ {Genesis}
               T == Blocks \ Insufficient
               q == Only(unlinked, T)
    <3>1. unlinked \in Seq(K) /\ K \subseteq Blocks
        BY <1>2 DEF Running, TypeOK, Known
    <3> HIDE DEF K, T
    <3>2. q \in Seq(K) /\ Range(q) = Range(unlinked) \cap T
        BY <3>1, OnlyFacts
    <3>3. Range(q) \subseteq K
      <4> HIDE DEF q
      <4> QED
        BY <3>2, SeqOver
    <3>4. Range(q) \subseteq Known' \ {Genesis}
        BY <3>2, <3>3, <1>6 DEF K, T
    <3>5. q \in Seq(Known' \ {Genesis})
      <4> DEFINE L == Known' \ {Genesis}
      <4>1. Range(q) \subseteq L
        BY <3>4
      <4> HIDE DEF q, L
      <4>2. q \in Seq(L)
        BY <3>2, <4>1, SeqOver
      <4> QED
        BY <4>2 DEF L
    <3> QED
        BY <3>5, <1>1 DEF T
  <2>3. tip' \in Known'
    BY <1>1, <1>2, <1>3, <1>6, <1>7 DEF Running, TipKnown
  <2> QED
    BY <1>1, <1>2, <1>5, <2>1, <2>2, <2>3 DEF Running, TypeOK
<1>9. IsWritten(disk, Insufficient, idx, disk')
  <2> DEFINE none == {}
             d == disk
             ids == branch
  <2>1. DOMAIN d = Fields /\ d.index \in [Blocks -> Entries]
        /\ disk' = Written(d, Insufficient, idx, ids, none)
    BY <1>1, <1>2 DEF DiskReadable
  <2> HIDE DEF none, d, ids
  <2>2. IsWritten(d, Insufficient, idx, Written(d, Insufficient, idx, ids, none))
    BY <2>1, <1>5, WrittenFacts
  <2> QED
    BY <2>1, <2>2 DEF d
<1>10. \A b \in Blocks : Agrees(disk'.index[b], index'[b])
    BY <1>1, <1>2, <1>5, <1>9 DEF IsWritten, Agrees, Running, CleanAgrees
<1>11. DiskReadable'
  <2>1. ASSUME NEW b \in Blocks,
               disk'.index[b].haveData \/ disk'.index[b].nTx \/ disk'.index[b].validity # 0
        PROVE  disk'.index[b].known
    <3>1. CASE b \in Insufficient
        BY <3>1, <2>1, <1>4, <1>5, <1>9 DEF IsWritten
    <3>2. CASE b \notin Insufficient
        BY <3>2, <2>1, <1>2, <1>9 DEF IsWritten, DiskReadable
    <3> QED
        BY <3>1, <3>2
  <2>2. disk'.index[Genesis].known
    <3>1. Genesis \in Blocks \ Insufficient
        BY <1>3, <1>7
    <3> QED
        BY <3>1, <1>2, <1>9 DEF IsWritten, DiskReadable
  <2> QED
    BY <2>1, <2>2, <1>2, <1>9 DEF IsWritten, DiskReadable
<1>12. DurableTipIndexed'
    BY <1>1 DEF DurableTipIndexed
<1>13. FilesPresent'
    BY <1>2, <1>4, <1>5, <1>9 DEF FilesPresent, IsWritten
<1>14. Running'
  <2>1. \A x \in Path[tip] : x \in Blocks /\ idx[x] = index[x]
    BY <1>3, <1>5, <1>7
  <2>2. ValidatedTo(tip)'
    BY <1>1, <1>2, <2>1 DEF Running, ValidatedTo
  <2>3. TipKnown'
    BY <1>1, <1>2, <1>3, <1>6 DEF Running, TipKnown
  <2>4. ValidKnown'
    BY <1>1, <1>2, <1>4, <1>5 DEF Running, ValidKnown
  <2>5. CleanAgrees'
    BY <1>10 DEF CleanAgrees
  <2> QED
    BY <1>1, <1>8, <2>2, <2>3, <2>4, <2>5 DEF Running
<1>15. FlushOrder'
    BY <1>1, <1>2 DEF FlushOrder
<1> QED
    BY <1>1, <1>11, <1>12, <1>13, <1>14, <1>15 DEF RestartInv, DiskConsistent

LEMMA FinishStartInv ==
    ASSUME RestartInv, NEW t \in Threads, FinishStart(t)
    PROVE  RestartInv'
<1>1. /\ phase = "erased"
      /\ disk' = [disk EXCEPT !.tip = tip]
      /\ phase' \in {"up", "dangling"}
      /\ pc' = [pc EXCEPT ![t] = "find"]
      /\ UNCHANGED <<index, candidates, unlinked, tip, nextId, havePruned, mostWork, shutdown,
                     activation, dirty, doomed>>
    BY DEF FinishStart
<1>2. doomed = {} /\ pc \in [Threads -> {"idle", "find", "test"}]
    BY <1>1 DEF RestartInv, FlushOrder, Running, TypeOK
<1>3. pc' \in [Threads -> {"idle", "find", "test"}]
    BY <1>1, <1>2
<1> QED
    BY <1>1, <1>2, <1>3, TipWritten

LEMMA RestartInitInv ==
    ASSUME RestartInit
    PROVE  RestartInv
<1>1. /\ Init
      /\ phase = "up"
      /\ activation = FirstActivation
      /\ dirty = {}
      /\ doomed = {}
      /\ disk = [index |-> [Nothing EXCEPT ![Genesis] = OnDisk(GenesisEntry)],
                 branch |-> [b \in Blocks |-> None],
                 files |-> {Genesis}, tip |-> Genesis, havePruned |-> FALSE]
    BY DEF RestartInit
<1>2. TypeOK /\ ValidKnown /\ PathKnown /\ tip = Genesis
    BY <1>1, InitInv DEF TreeInv, Init
<1>3. Genesis \in Blocks /\ Path[Genesis] = {Genesis}
    BY Tree
<1>4. index = [b \in Blocks |-> IF b = Genesis THEN GenesisEntry ELSE Unknown]
    BY <1>1 DEF Init
<1>5. GenesisEntry \in Entries /\ Unknown \in Entries
    BY <1>2, <1>3, <1>4, BlockTreeAssumption DEF TypeOK, Unknown, Entries
<1>6. GenesisEntry.known /\ ~ Unknown.known /\ ~ Unknown.haveData /\ ~ Unknown.nTx
      /\ Unknown.validity = 0
    BY DEF GenesisEntry, Unknown
<1> DEFINE first == [Nothing EXCEPT ![Genesis] = OnDisk(GenesisEntry)]
<1>7. /\ DOMAIN disk = Fields
      /\ disk.index = first
      /\ disk.files = {Genesis}
      /\ disk.tip = Genesis
      /\ disk.havePruned = FALSE
  <2> HIDE DEF first
  <2> QED
    BY <1>1 DEF Fields, first
<1>8. /\ first \in [Blocks -> Entries]
      /\ first[Genesis] = OnDisk(GenesisEntry)
      /\ \A b \in Blocks \ {Genesis} : first[b] = Unknown
    BY <1>3, <1>5, OnDiskFacts DEF Nothing
<1> HIDE DEF first
<1>9. \A b \in Blocks : /\ Agrees(disk.index[b], index[b])
                        /\ disk.index[b].nTx = index[b].nTx
    BY <1>3, <1>4, <1>5, <1>7, <1>8, OnDiskFacts DEF Agrees
<1>10. DiskReadable
  <2>1. disk.index[Genesis].known
    BY <1>3, <1>4, <1>6, <1>9 DEF Agrees
  <2>2. \A b \in Blocks :
          disk.index[b].haveData \/ disk.index[b].nTx \/ disk.index[b].validity # 0
          => disk.index[b].known
    BY <1>2, <1>9 DEF ValidKnown, Agrees
  <2> QED
    BY <2>1, <2>2, <1>3, <1>7, <1>8 DEF DiskReadable
<1>11. DiskConsistent
  <2>1. DurableTipIndexed
    BY <1>3, <1>7 DEF DurableTipIndexed
  <2>2. FilesPresent
    BY <1>6, <1>7, <1>8 DEF FilesPresent
  <2> QED
    BY <2>1, <2>2 DEF DiskConsistent
<1>12. FlushOrder
    BY <1>1 DEF FlushOrder
<1>13. Running
  <2>1. TipKnown
    BY <1>2 DEF TipKnown, PathKnown, TypeOK
  <2>2. ValidatedTo(tip) /\ ValidatedTo(disk.tip)
    BY <1>2, <1>3, <1>7 DEF ValidatedTo
  <2>3. CleanAgrees
    BY <1>9 DEF CleanAgrees
  <2> QED
    BY <1>2, <2>1, <2>2, <2>3 DEF Running
<1> QED
    BY <1>1, <1>10, <1>11, <1>12, <1>13, RestartAssumption DEF RestartInv

LEMMA RestartNextInv ==
    ASSUME RestartInv, [RestartNext]_allVars
    PROVE  RestartInv'
<1>1. CASE RestartNext
  <2>1. Crash => RestartInv'
    BY ResetInv DEF Crash
  <2>2. RefuseRewind => RestartInv'
    BY ResetInv DEF RefuseRewind
  <2> QED
    BY <1>1, <2>1, <2>2, ArriveInv, ActivateInv, StepAndFlushInv, FinishStartInv, StartFlushInv,
       StartPruneInv, WriteBlockIndexInv, UnlinkPrunedFilesInv, FlushCoinsInv,
       LoadBlockIndexDBInv, RewindTipInv, EraseInsufficientInv DEF RestartNext
<1>2. CASE UNCHANGED allVars
    BY <1>2 DEF allVars, vars, restartVars, RestartInv, DiskReadable, DiskConsistent,
       DurableTipIndexed, FilesPresent, FlushOrder, Running, TypeOK, Known, ValidKnown, TipKnown,
       ValidatedTo, CleanAgrees, Fresh
<1> QED
    BY <1>1, <1>2

\* Wherever FlushStateToDisk, a step of ActivateBestChain or a start is
\* interrupted, the block index on disk holds the chain state's best block and
\* all its ancestors as validated blocks, and every stored block has its file:
\* for every tree of blocks, any activation heights and any number of restarts.
THEOREM AlwaysDiskConsistent == RestartSpec => []DiskConsistent
<1>1. RestartSpec => []RestartInv
    BY RestartInitInv, RestartNextInv, PTL DEF RestartSpec
<1>2. RestartInv => DiskConsistent
    BY DEF RestartInv
<1> QED
    BY <1>1, <1>2, PTL

=============================================================================
