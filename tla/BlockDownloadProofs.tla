------------------------ MODULE BlockDownloadProofs ------------------------
(***************************************************************************)
(* Proofs about BlockDownload, for every block tree, set of peers, window  *)
(* and limit per peer.                                                     *)
(*                                                                         *)
(* The invariant is DownloadInv: the chain's tip stands on stored blocks,  *)
(* the requests and the queues agree (NetOK), the peers' states name known *)
(* blocks and stay within their limits (PeersOK), the counters count.  The *)
(* functions that change the requests are first shown to keep NetOK:       *)
(* MarkBlockAsReceived, MarkBlockAsInFlight and, by induction over the     *)
(* list of blocks, AskFor.  FindFacts is about the walk that chooses the   *)
(* blocks to ask for.  Then there is one lemma for each action.            *)
(***************************************************************************)
EXTENDS BlockDownload, TreeTheorems, SequenceTheorems

-----------------------------------------------------------------------------
(* The tree *)

LEMMA AncestryDef == IsPath(Block, Genesis, Parent, Ancestry)
<1>1. \E f : f = [b \in Block |-> {b} \cup IF b = Genesis THEN {} ELSE f[Parent[b]]]
    BY BlockDownloadAssumption, PathExists DEF IsPath
<1> QED
    BY <1>1 DEF Ancestry, IsPath

LEMMA DepthDef == IsHeight(Block, Genesis, Parent, Depth)
<1>1. \E h : h = [b \in Block |-> IF b = Genesis THEN 0 ELSE h[Parent[b]] + 1]
    BY BlockDownloadAssumption, HeightExists DEF IsHeight
<1> QED
    BY <1>1 DEF Depth, IsHeight

\* The facts about ancestors and depths that the proofs use.
LEMMA BlockTreeFacts ==
    /\ Genesis \in Block
    /\ \A b \in Block \ {Genesis} : Parent[b] \in Block
    /\ Ancestry[Genesis] = {Genesis}
    /\ \A b \in Block \ {Genesis} : Ancestry[b] = {b} \cup Ancestry[Parent[b]]
    /\ \A b \in Block : b \in Ancestry[b] /\ Genesis \in Ancestry[b]
    /\ \A b \in Block : Ancestry[b] \subseteq Block
    /\ \A b \in Block : \A x \in Ancestry[b] : Ancestry[x] \subseteq Ancestry[b]
    /\ Depth \in [Block -> Nat]
    /\ Depth[Genesis] = 0
    /\ \A b \in Block \ {Genesis} : Depth[b] = Depth[Parent[b]] + 1
<1> USE BlockDownloadAssumption
<1>1. IsTree(Block, Genesis, Parent)
    OBVIOUS
<1>2. /\ Genesis \in Block
      /\ \A b \in Block \ {Genesis} : Parent[b] \in Block
      /\ Ancestry[Genesis] = {Genesis}
      /\ \A b \in Block \ {Genesis} : Ancestry[b] = {b} \cup Ancestry[Parent[b]]
      /\ \A b \in Block : b \in Ancestry[b]
    BY ONLY <1>1, AncestryDef, PathEquation
<1>3. \A b \in Block : /\ Ancestry[b] \subseteq Block
                       /\ Genesis \in Ancestry[b]
                       /\ \A x \in Ancestry[b] : Ancestry[x] \subseteq Ancestry[b]
    BY ONLY <1>1, AncestryDef, PathFacts
<1>4. /\ Depth \in [Block -> Nat]
      /\ \A b \in Block \ {Genesis} : Depth[b] = Depth[Parent[b]] + 1
    BY ONLY <1>1, AncestryDef, DepthDef, HeightFacts
<1>5. Depth[Genesis] = 0
    BY ONLY <1>2, DepthDef DEF IsHeight
<1> QED
    BY ONLY <1>2, <1>3, <1>4, <1>5

\* Every block has an ancestor at each smaller depth (CBlockIndex::GetAncestor).
LEMMA GetAncestorFacts ==
    ASSUME NEW b \in Block, NEW d \in 0..Depth[b]
    PROVE  GetAncestor(b, d) \in Ancestry[b] /\ Depth[GetAncestor(b, d)] = d
<1> DEFINE S == {c \in Block : \A e \in 0..Depth[c] : \E a \in Ancestry[c] : Depth[a] = e}
<1>1. Genesis \in S
    BY BlockTreeFacts
<1>2. ASSUME NEW c \in Block \ {Genesis}, Parent[c] \in S
      PROVE  c \in S
  <2>1. SUFFICES ASSUME NEW e \in 0..Depth[c]
                 PROVE  \E a \in Ancestry[c] : Depth[a] = e
    OBVIOUS
  <2>2. CASE e = Depth[c]
    BY <2>2, BlockTreeFacts
  <2>3. CASE e # Depth[c]
    <3>1. Depth[c] = Depth[Parent[c]] + 1 /\ Depth[Parent[c]] \in Nat
        BY BlockTreeFacts
    <3>2. e \in 0..Depth[Parent[c]]
        BY <2>3, <3>1
    <3>3. \E a \in Ancestry[Parent[c]] : Depth[a] = e
        BY <3>2, <1>2
    <3> QED
        BY <3>3, BlockTreeFacts
  <2> QED
    BY <2>2, <2>3
<1>3. S = Block
  <2>1. S \in SUBSET Block /\ IsTree(Block, Genesis, Parent)
    BY BlockDownloadAssumption
  <2> HIDE DEF S
  <2> QED
    BY <2>1, <1>1, <1>2, TreeInduction
<1>4. \E a \in Ancestry[b] : Depth[a] = d
    BY <1>3
<1> QED
    BY <1>4 DEF GetAncestor

\* Two blocks have a last common ancestor.
LEMMA LastCommonAncestorFacts ==
    ASSUME NEW a \in Block, NEW b \in Block
    PROVE  LastCommonAncestor(a, b) \in Ancestry[a] \cap Ancestry[b]
<1> DEFINE S == Ancestry[a] \cap Ancestry[b]
<1>1. S \in SUBSET Ancestry[a] /\ S # {}
    BY BlockTreeFacts
<1>2. \E c \in S : \A d \in S : Depth[d] <= Depth[c]
  <2>1. IsTree(Block, Genesis, Parent)
    BY BlockDownloadAssumption
  <2> HIDE DEF S
  <2> QED
    BY <1>1, <2>1, AncestryDef, DepthDef, Highest
<1> QED
    BY <1>2 DEF LastCommonAncestor

\* The extremes of a set of numbers.
LEMMA MinFacts ==
    ASSUME NEW S \in SUBSET Nat, S # {}
    PROVE  Min(S) \in S /\ \A y \in S : Min(S) <= y
    BY LeastNat DEF Min

LEMMA MaxFacts ==
    ASSUME NEW S \in SUBSET Nat, S # {}, NEW n \in Nat, \A x \in S : x <= n
    PROVE  Max(S) \in S /\ \A y \in S : y <= Max(S)
<1> DEFINE T == {n - x : x \in S}
<1>1. T \in SUBSET Nat /\ T # {}
  <2>1. \A x \in S : n - x \in Nat
    OBVIOUS
  <2>2. PICK x \in S : TRUE
    OBVIOUS
  <2>3. n - x \in T
    BY <2>2
  <2> QED
    BY <2>1, <2>3
<1>2. PICK t \in T : \A u \in T : t <= u
  <2> HIDE DEF T
  <2> QED
    BY <1>1, LeastNat
<1>3. PICK x \in S : t = n - x
    OBVIOUS
<1>4. \A y \in S : n - x <= n - y
    BY <1>2, <1>3
<1>5. \A y \in S : x >= y
    BY <1>4
<1> QED
    BY <1>5 DEF Max

-----------------------------------------------------------------------------
(* Queues of requests *)

Requested == [hash : Block, valid : BOOLEAN]

\* No block is twice in a queue.
Distinct(q) == \A j, k \in DOMAIN q : q[j].hash = q[k].hash => j = k

\* vBlocksInFlight.erase: one request less, the others as they were.
LEMMA RemoveEntry ==
    ASSUME NEW q \in Seq(Requested), Distinct(q), NEW i \in DOMAIN q
    PROVE  /\ RemoveAt(q, i) \in Seq(Requested)
           /\ Len(RemoveAt(q, i)) = Len(q) - 1
           /\ Distinct(RemoveAt(q, i))
           /\ ToSet(RemoveAt(q, i)) = ToSet(q) \ {q[i]}
<1> DEFINE n == Len(q)
           r == RemoveAt(q, i)
<1>1. n \in Nat /\ DOMAIN q = 1..n /\ i \in 1..n
    OBVIOUS
<1>2. /\ r \in Seq(Requested)
      /\ Len(r) = n - 1
      /\ \A k \in 1..(n - 1) : r[k] = IF k < i THEN q[k] ELSE q[k + 1]
  <2> DEFINE u == SubSeq(q, 1, i - 1)
             v == SubSeq(q, i + 1, n)
  <2>1. u \in Seq(Requested) /\ Len(u) = i - 1 /\ \A k \in 1..(i - 1) : u[k] = q[k]
    BY <1>1
  <2>2. /\ v \in Seq(Requested) /\ Len(v) = n - i
        /\ \A k \in 1..(n - i) : v[k] = q[i + k]
    BY <1>1
  <2>3. r = u \o v
    BY DEF RemoveAt
  <2> HIDE DEF u, v, r
  <2>6. /\ r \in Seq(Requested)
        /\ Len(r) = Len(u) + Len(v)
        /\ \A k \in 1..(Len(u) + Len(v)) :
              r[k] = IF k <= Len(u) THEN u[k] ELSE v[k - Len(u)]
    BY ONLY <2>3, <2>1, <2>2, ConcatProperties
  <2>4. r \in Seq(Requested) /\ Len(r) = n - 1
    BY <2>1, <2>2, <2>6, <1>1
  <2>5. ASSUME NEW k \in 1..(n - 1)
        PROVE  r[k] = IF k < i THEN q[k] ELSE q[k + 1]
    <3>1. CASE k < i
        BY <3>1, <2>1, <2>2, <2>6, <1>1
    <3>2. CASE ~ k < i
      <4>1. k - (i - 1) \in 1..(n - i) /\ k > Len(u) /\ k \in 1..(Len(u) + Len(v))
        BY <3>2, <1>1, <2>1, <2>2
      <4>2. r[k] = v[k - (i - 1)]
        BY <4>1, <2>1, <2>6, <1>1
      <4>3. v[k - (i - 1)] = q[i + (k - (i - 1))]
        BY <4>1, <2>2
      <4>4. i + (k - (i - 1)) = k + 1
        BY <1>1
      <4> QED
        BY <4>2, <4>3, <4>4, <3>2
    <3> QED
        BY <3>1, <3>2
  <2> QED
    BY <2>4, <2>5
<1> DEFINE to(k) == IF k < i THEN k ELSE k + 1
<1> HIDE DEF r
<1>3. DOMAIN r = 1..(n - 1)
    BY <1>2, <1>1
<1>4. \A k \in DOMAIN r : to(k) \in DOMAIN q /\ to(k) # i /\ r[k] = q[to(k)]
    BY <1>1, <1>2, <1>3
<1>5. \A k \in DOMAIN q \ {i} : \E j \in DOMAIN r : to(j) = k
  <2> SUFFICES ASSUME NEW k \in DOMAIN q \ {i}
               PROVE  \E j \in DOMAIN r : to(j) = k
    OBVIOUS
  <2>1. CASE k < i
    BY <2>1, <1>1, <1>3
  <2>2. CASE k > i
    <3>1. k - 1 \in DOMAIN r /\ to(k - 1) = k
        BY <2>2, <1>1, <1>3
    <3> QED
        BY <3>1
  <2> QED
    BY <2>1, <2>2, <1>1
<1>6. \A j, k \in DOMAIN r : to(j) = to(k) => j = k
    BY <1>1, <1>3
<1> HIDE DEF to, n
<1>7. Distinct(r)
    BY <1>4, <1>6 DEF Distinct
<1>8. ToSet(r) \subseteq ToSet(q) \ {q[i]}
    BY <1>4 DEF Distinct, ToSet
<1>9. ToSet(q) \ {q[i]} \subseteq ToSet(r)
  <2> SUFFICES ASSUME NEW e \in ToSet(q), e # q[i]
               PROVE  e \in ToSet(r)
    OBVIOUS
  <2>1. PICK k \in DOMAIN q : e = q[k]
    BY DEF ToSet
  <2>2. PICK j \in DOMAIN r : to(j) = k
    BY <1>5, <2>1
  <2> QED
    BY <2>1, <2>2, <1>4 DEF ToSet
<1> QED
    BY <1>2, <1>7, <1>8, <1>9 DEF r, n

\* vBlocksInFlight.insert at the end: one request more.
LEMMA AppendEntry ==
    ASSUME NEW q \in Seq(Requested), Distinct(q), NEW e \in Requested,
           \A x \in ToSet(q) : x.hash # e.hash
    PROVE  /\ Append(q, e) \in Seq(Requested)
           /\ Len(Append(q, e)) = Len(q) + 1
           /\ Distinct(Append(q, e))
           /\ ToSet(Append(q, e)) = ToSet(q) \cup {e}
<1> DEFINE n == Len(q)
           r == Append(q, e)
<1>1. n \in Nat /\ DOMAIN q = 1..n
    OBVIOUS
<1>2. /\ r \in Seq(Requested)
      /\ Len(r) = n + 1
      /\ \A k \in 1..n : r[k] = q[k]
      /\ r[n + 1] = e
    OBVIOUS
<1> HIDE DEF r, n
<1>3. DOMAIN r = 1..(n + 1)
    BY <1>1, <1>2
<1>4. /\ \A k \in DOMAIN r : k \in DOMAIN q \/ k = n + 1
      /\ \A k \in DOMAIN q : k \in DOMAIN r /\ r[k] = q[k]
      /\ n + 1 \in DOMAIN r
    BY <1>1, <1>2, <1>3
<1>5. \A k \in DOMAIN q : q[k] \in ToSet(q) /\ q[k].hash # e.hash
    BY DEF ToSet
<1>6. Distinct(r)
    BY <1>2, <1>4, <1>5 DEF Distinct
<1>7. ToSet(r) \subseteq ToSet(q) \cup {e}
    BY <1>2, <1>4 DEF ToSet
<1>8. ToSet(q) \cup {e} \subseteq ToSet(r)
    BY <1>2, <1>4 DEF ToSet
<1> QED
    BY <1>2, <1>6, <1>7, <1>8 DEF r, n

\* What is in a queue of distinct blocks, and the count of its valid entries.
LEMMA QueueFacts ==
    ASSUME NEW q \in Seq(Requested), Distinct(q)
    PROVE  /\ ToSet(q) \subseteq Requested
           /\ \A e, f \in ToSet(q) : e.hash = f.hash => e = f
           /\ q = << >> <=> ToSet(q) = {}
           /\ IsFiniteSet({e \in ToSet(q) : e.valid})
           /\ Cardinality({k \in DOMAIN q : q[k].valid})
                = Cardinality({e \in ToSet(q) : e.valid})
           /\ Cardinality({k \in DOMAIN q : q[k].valid}) \in 0..Len(q)
<1> DEFINE D == {k \in DOMAIN q : q[k].valid}
           V == {e \in ToSet(q) : e.valid}
           f == [k \in D |-> q[k]]
<1>1. Len(q) \in Nat /\ DOMAIN q = 1..Len(q)
    OBVIOUS
<1>2. ToSet(q) \subseteq Requested
    BY DEF ToSet
<1>3. \A e, g \in ToSet(q) : e.hash = g.hash => e = g
    BY DEF ToSet, Distinct
<1>4. q = << >> <=> ToSet(q) = {}
  <2>1. q = << >> <=> Len(q) = 0
    OBVIOUS
  <2>2. CASE Len(q) = 0
    BY <2>1, <2>2, <1>1 DEF ToSet
  <2>3. CASE Len(q) # 0
    <3>1. 1 \in DOMAIN q
        BY <2>3, <1>1
    <3> QED
        BY <3>1, <2>1, <2>3 DEF ToSet
  <2> QED
    BY <2>2, <2>3
<1>5. IsFiniteSet(D) /\ Cardinality(D) \in 0..Len(q)
  <2>1. IsFiniteSet(1..Len(q)) /\ Cardinality(1..Len(q)) = Len(q)
    BY <1>1, FS_Interval
  <2>2. D \in SUBSET (1..Len(q))
    BY <1>1
  <2> HIDE DEF D
  <2> QED
    <3>1. IsFiniteSet(D) /\ Cardinality(D) <= Cardinality(1..Len(q))
        BY ONLY <2>1, <2>2, FS_Subset
    <3>2. Cardinality(D) \in Nat
        BY ONLY <3>1, FS_CardinalityType
    <3> QED
        BY ONLY <3>1, <3>2, <2>1, <1>1
<1>6. ExistsBijection(D, V)
  <2>1. f \in [D -> V]
    BY DEF ToSet
  <2>2. \A x, y \in D : f[x] = f[y] => x = y
    BY DEF Distinct
  <2>3. \A e \in V : \E x \in D : f[x] = e
    BY DEF ToSet
  <2> HIDE DEF D, V, f
  <2>4. f \in Bijection(D, V)
    BY <2>1, <2>2, <2>3 DEF Bijection, Injection, Surjection, IsInjective
  <2> QED
    BY <2>4 DEF ExistsBijection
<1>7. IsFiniteSet(V) /\ Cardinality(V) = Cardinality(D)
  <2> HIDE DEF D, V
  <2> QED
    BY <1>5, <1>6, FS_Bijection
<1> QED
    BY <1>2, <1>3, <1>4, <1>5, <1>7

-----------------------------------------------------------------------------
(* Requests and who owes them *)

NodeStates ==
    [best : Block \cup {None}, unknown : Block \cup {None}, common : Block \cup {None},
     queue : Seq(Requested), n : Int, nValid : Int, stalling : BOOLEAN,
     sync : BOOLEAN, pref : BOOLEAN, ban : BOOLEAN, close : BOOLEAN, up : BOOLEAN,
     owes : BOOLEAN]

Nets == [node : UNION {[D -> NodeStates] : D \in SUBSET Peers},
         inFlight : UNION {[D -> Peers] : D \in SUBSET Block},
         nQueued : Int]

\* The state s of peer p fits the requests of mapBlocksInFlight.
NodeOK(p, s, requests) ==
    /\ Distinct(s.queue)
    /\ \A e \in ToSet(s.queue) : e.hash \in DOMAIN requests /\ requests[e.hash] = p
    /\ s.n = Len(s.queue)
    /\ s.nValid = Cardinality({e \in ToSet(s.queue) : e.valid})
    /\ s.stalling => s.queue # << >>

ValidRequests(net) ==
    {b \in DOMAIN net.inFlight :
        \E e \in ToSet(net.node[net.inFlight[b]].queue) : e.hash = b /\ e.valid}

\* Every request has its place in the queue of its peer, and only there.
RequestsOK(net) ==
    /\ \A b \in DOMAIN net.inFlight :
          /\ net.inFlight[b] \in DOMAIN net.node
          /\ \E e \in ToSet(net.node[net.inFlight[b]].queue) : e.hash = b
    /\ \A p \in DOMAIN net.node : NodeOK(p, net.node[p], net.inFlight)

NetOK(net) ==
    /\ net \in Nets
    /\ RequestsOK(net)
    /\ net.nQueued >= Cardinality(ValidRequests(net))

\* The fields of a peer's state that requests do not touch.
Same(s, t) ==
    /\ t.best = s.best /\ t.unknown = s.unknown /\ t.common = s.common
    /\ t.sync = s.sync /\ t.pref = s.pref /\ t.ban = s.ban
    /\ t.close = s.close /\ t.up = s.up /\ t.owes = s.owes

Keeps(net, r) ==
    /\ DOMAIN r.node = DOMAIN net.node
    /\ \A q \in DOMAIN net.node : Same(net.node[q], r.node[q])

\* What MarkBlockAsReceived and MarkBlockAsInFlight make of net: requests for
\* the blocks in S, and queues that are at most one longer for the peers in T.
IsMarked(net, r, S, T) ==
    /\ NetOK(r)
    /\ Keeps(net, r)
    /\ DOMAIN r.inFlight = S
    /\ \A q \in DOMAIN net.node : r.node[q].n <= net.node[q].n + Count(q \in T)

\* The parts of a net.
LEMMA NetTypes ==
    ASSUME NEW net \in Nets
    PROVE  /\ DOMAIN net.node \in SUBSET Peers
           /\ net.node \in [DOMAIN net.node -> NodeStates]
           /\ DOMAIN net.inFlight \in SUBSET Block
           /\ net.inFlight \in [DOMAIN net.inFlight -> Peers]
           /\ net.nQueued \in Int
           /\ IsFiniteSet(DOMAIN net.inFlight)
           /\ IsFiniteSet(DOMAIN net.node)
<1>1. PICK D \in SUBSET Peers : net.node \in [D -> NodeStates]
    BY DEF Nets
<1>2. PICK E \in SUBSET Block : net.inFlight \in [E -> Peers]
    BY DEF Nets
<1>3. DOMAIN net.node = D /\ DOMAIN net.inFlight = E
    BY <1>1, <1>2
<1>4. net.nQueued \in Int
    BY DEF Nets
<1>5. IsFiniteSet(D) /\ IsFiniteSet(E)
    BY BlockDownloadAssumption, FS_Subset
<1> QED
    BY <1>1, <1>2, <1>3, <1>4, <1>5

\* A net is made of its parts.
LEMMA MakeNet ==
    ASSUME NEW nd, DOMAIN nd \subseteq Peers, nd \in [DOMAIN nd -> NodeStates],
           NEW fl, DOMAIN fl \subseteq Block, fl \in [DOMAIN fl -> Peers],
           NEW k \in Int
    PROVE  [node |-> nd, inFlight |-> fl, nQueued |-> k] \in Nets
<1>1. nd \in UNION {[D -> NodeStates] : D \in SUBSET Peers}
    OBVIOUS
<1>2. fl \in UNION {[D -> Peers] : D \in SUBSET Block}
    OBVIOUS
<1> QED
    BY <1>1, <1>2 DEF Nets

LEMMA ValidRequestsFinite ==
    ASSUME NEW net \in Nets
    PROVE  IsFiniteSet(ValidRequests(net)) /\ Cardinality(ValidRequests(net)) \in Nat
<1>1. ValidRequests(net) \in SUBSET (DOMAIN net.inFlight)
    BY DEF ValidRequests
<1>2. IsFiniteSet(ValidRequests(net))
    BY <1>1, NetTypes, FS_Subset
<1> QED
    BY <1>2, FS_CardinalityType

\* A block leaves mapBlocksInFlight and the queue of the peer that owes it.
LEMMA MarkBlockAsReceivedFacts ==
    ASSUME NEW net, NetOK(net), NEW b
    PROVE  IsMarked(net, MarkBlockAsReceived(net, b), DOMAIN net.inFlight \ {b}, {})
<1> DEFINE r == MarkBlockAsReceived(net, b)
           p == net.inFlight[b]
           s == net.node[p]
           q == s.queue
           it == CHOOSE k \in DOMAIN q : q[k].hash = b
           e == q[it]
           q2 == RemoveAt(q, it)
<1>0. net \in Nets /\ RequestsOK(net) /\ net.nQueued >= Cardinality(ValidRequests(net))
    BY DEF NetOK
<1>1. CASE b \notin DOMAIN net.inFlight
  <2>1. r = net
    BY <1>1 DEF MarkBlockAsReceived
  <2>2. \A x \in DOMAIN net.node : net.node[x].n \in Int
    BY <1>0, NetTypes DEF NodeStates
  <2>3. DOMAIN net.inFlight = DOMAIN net.inFlight \ {b}
    BY <1>1
  <2> HIDE DEF r
  <2> QED
    BY <2>1, <2>2, <2>3 DEF IsMarked, Keeps, Same, Count, r
<1>2. CASE b \in DOMAIN net.inFlight
  <2>1. /\ DOMAIN net.node \in SUBSET Peers
        /\ net.node \in [DOMAIN net.node -> NodeStates]
        /\ DOMAIN net.inFlight \in SUBSET Block
        /\ net.inFlight \in [DOMAIN net.inFlight -> Peers]
        /\ net.nQueued \in Int
        /\ IsFiniteSet(DOMAIN net.inFlight)
    BY <1>0, NetTypes
  <2>2. p \in DOMAIN net.node /\ s \in NodeStates /\ NodeOK(p, s, net.inFlight)
    BY <1>0, <1>2, <2>1 DEF RequestsOK
  <2>3. q \in Seq(Requested) /\ Distinct(q)
    BY <2>2 DEF NodeStates, NodeOK
  <2>4. it \in DOMAIN q /\ e.hash = b
    <3>1. \E x \in ToSet(q) : x.hash = b
        BY <1>0, <1>2 DEF RequestsOK
    <3>2. \E k \in DOMAIN q : q[k].hash = b
        BY <3>1 DEF ToSet
    <3> QED
        BY <3>2
  <2>5. /\ q2 \in Seq(Requested)
        /\ Len(q2) = Len(q) - 1
        /\ Distinct(q2)
        /\ ToSet(q2) = ToSet(q) \ {e}
    <3> HIDE DEF q, it
    <3> QED
        BY <2>3, <2>4, RemoveEntry
  <2>6. e \in Requested /\ e \in ToSet(q)
    <3> HIDE DEF q, it
    <3> QED
        BY <2>3, <2>4 DEF ToSet
  <2> DEFINE n2 == s.n - 1
             v2 == s.nValid - Count(e.valid)
             s2 == [s EXCEPT !.queue = q2, !.n = n2, !.nValid = v2, !.stalling = FALSE]
             fl2 == [c \in DOMAIN net.inFlight \ {b} |-> net.inFlight[c]]
             nd2 == [net.node EXCEPT ![p] = s2]
  <2>7. r = [node |-> nd2, inFlight |-> fl2, nQueued |-> net.nQueued - Count(e.valid)]
    BY <1>2 DEF MarkBlockAsReceived
  <2>8. Count(e.valid) \in {0, 1}
    BY DEF Count
  <2> HIDE DEF q2, e, it, r
  <2>22. n2 \in Int /\ v2 \in Int
    BY <2>2, <2>8 DEF NodeStates
  <2> HIDE DEF n2, v2
  <2>9. /\ s2 \in NodeStates
        /\ s2.queue = q2 /\ s2.n = n2 /\ s2.nValid = v2
        /\ s2.stalling = FALSE
        /\ Same(s, s2)
    <3> HIDE DEF s
    <3> QED
        BY <2>2, <2>5, <2>22 DEF NodeStates, Same
  <2> HIDE DEF s2
  <2>10. /\ DOMAIN nd2 = DOMAIN net.node
         /\ nd2 \in [DOMAIN nd2 -> NodeStates]
         /\ nd2[p] = s2
         /\ \A x \in DOMAIN net.node \ {p} : nd2[x] = net.node[x]
    BY <2>1, <2>2, <2>9
  <2>11. /\ DOMAIN fl2 = DOMAIN net.inFlight \ {b}
         /\ fl2 \in [DOMAIN fl2 -> Peers]
         /\ \A c \in DOMAIN fl2 : fl2[c] = net.inFlight[c]
    BY <2>1
  <2> HIDE DEF nd2, fl2
  <2>12. r \in Nets
    <3>1. DOMAIN nd2 \subseteq Peers /\ DOMAIN fl2 \subseteq Block
        BY <2>1, <2>10, <2>11
    <3>2. net.nQueued - Count(e.valid) \in Int
        BY <2>1, <2>8
    <3> QED
        BY <2>7, <2>10, <2>11, <3>1, <3>2, MakeNet
  <2>13. r.node = nd2 /\ r.inFlight = fl2 /\ r.nQueued = net.nQueued - Count(e.valid)
    BY <2>7
  <2>14. /\ \A x \in ToSet(q) : x.hash = b => x = e
         /\ IsFiniteSet({x \in ToSet(q) : x.valid})
         /\ ToSet(q) \subseteq Requested
    <3> HIDE DEF q
    <3> QED
        BY <2>3, <2>4, <2>6, QueueFacts
  <2>15. ASSUME NEW x \in DOMAIN net.node
         PROVE  NodeOK(x, nd2[x], fl2)
    <3>1. CASE x = p
      <4>1. \A y \in ToSet(q2) : y.hash \in DOMAIN fl2 /\ fl2[y.hash] = p
        BY <2>2, <2>5, <2>11, <2>14 DEF NodeOK
      <4>2. Cardinality({y \in ToSet(q2) : y.valid})
              = Cardinality({y \in ToSet(q) : y.valid}) - Count(e.valid)
        <5> DEFINE V == {y \in ToSet(q) : y.valid}
        <5>1. {y \in ToSet(q2) : y.valid} = V \ {e}
            BY <2>5
        <5>2. e \in V <=> e.valid
            BY <2>6
        <5>3. Cardinality(V \ {e}) = IF e \in V THEN Cardinality(V) - 1 ELSE Cardinality(V)
            <6> HIDE DEF V
            <6> QED
                BY <2>14, FS_RemoveElement DEF V
        <5>4. Cardinality(V) \in Nat
            <6> HIDE DEF V
            <6> QED
                BY <2>14, FS_CardinalityType DEF V
        <5> HIDE DEF V
        <5>5. Cardinality(V \ {e}) = Cardinality(V) - Count(e.valid)
            BY <5>2, <5>3, <5>4 DEF Count
        <5> QED
            BY <5>1, <5>5 DEF V
      <4>3. s.n = Len(q) /\ s.nValid = Cardinality({y \in ToSet(q) : y.valid})
        BY <2>2 DEF NodeOK
      <4> QED
        BY <3>1, <4>1, <4>2, <4>3, <2>5, <2>9, <2>10 DEF NodeOK, n2, v2
    <3>2. CASE x # p
      <4>1. NodeOK(x, net.node[x], net.inFlight)
        BY <1>0 DEF RequestsOK
      <4>2. \A y \in ToSet(net.node[x].queue) : y.hash # b
        BY <3>2, <4>1 DEF NodeOK
      <4>3. \A y \in ToSet(net.node[x].queue) :
               y.hash \in DOMAIN fl2 /\ fl2[y.hash] = x
        BY <4>1, <4>2, <2>11 DEF NodeOK
      <4> QED
        BY <3>2, <4>1, <4>3, <2>10 DEF NodeOK
    <3> QED
        BY <3>1, <3>2
  <2>16. ASSUME NEW c \in DOMAIN fl2
         PROVE  /\ fl2[c] \in DOMAIN nd2
                /\ \E x \in ToSet(nd2[fl2[c]].queue) : x.hash = c
    <3>1. /\ c \in DOMAIN net.inFlight /\ c # b
          /\ fl2[c] = net.inFlight[c]
          /\ net.inFlight[c] \in DOMAIN net.node
        BY <2>11, <1>0 DEF RequestsOK
    <3>2. PICK x \in ToSet(net.node[net.inFlight[c]].queue) : x.hash = c
        BY <3>1, <1>0 DEF RequestsOK
    <3>3. CASE net.inFlight[c] = p
        BY <3>1, <3>2, <3>3, <2>4, <2>5, <2>9, <2>10
    <3>4. CASE net.inFlight[c] # p
        BY <3>1, <3>2, <3>4, <2>10
    <3> QED
        BY <3>3, <3>4
  <2>17. RequestsOK(r)
    BY <2>10, <2>13, <2>15, <2>16 DEF RequestsOK
  <2>18. r.nQueued >= Cardinality(ValidRequests(r))
    <3>1. ValidRequests(r) \subseteq ValidRequests(net) \ {b}
      <4> SUFFICES ASSUME NEW c \in ValidRequests(r)
                   PROVE  c \in ValidRequests(net) \ {b}
        OBVIOUS
      <4>1. c \in DOMAIN fl2 /\ c \in DOMAIN net.inFlight /\ c # b /\ fl2[c] = net.inFlight[c]
        BY <2>11, <2>13 DEF ValidRequests
      <4>2. PICK x \in ToSet(nd2[fl2[c]].queue) : x.hash = c /\ x.valid
        BY <2>13 DEF ValidRequests
      <4>3. fl2[c] \in DOMAIN net.node
        BY <4>1, <1>0 DEF RequestsOK
      <4>4. x \in ToSet(net.node[net.inFlight[c]].queue)
        BY <4>1, <4>2, <4>3, <2>5, <2>9, <2>10
      <4> QED
        BY <4>1, <4>2, <4>4 DEF ValidRequests
    <3>2. e.valid => b \in ValidRequests(net)
        BY <1>2, <2>4, <2>6 DEF ValidRequests, e
    <3>3. /\ IsFiniteSet(ValidRequests(net))
          /\ Cardinality(ValidRequests(net)) \in Nat
          /\ Cardinality(ValidRequests(r)) \in Nat
        BY <1>0, <2>12, ValidRequestsFinite
    <3>4. Cardinality(ValidRequests(r)) <= Cardinality(ValidRequests(net) \ {b})
        BY <3>1, <3>3, FS_RemoveElement, FS_Subset
    <3>5. Cardinality(ValidRequests(net) \ {b}) =
            IF b \in ValidRequests(net) THEN Cardinality(ValidRequests(net)) - 1
            ELSE Cardinality(ValidRequests(net))
        BY <3>3, FS_RemoveElement
    <3>6. net.nQueued - Count(e.valid) >= Cardinality(ValidRequests(net) \ {b})
        BY <3>2, <3>3, <3>5, <1>0, <2>1 DEF Count
    <3> QED
        BY <3>3, <3>4, <3>5, <3>6, <2>1, <2>8, <2>13
  <2>19. NetOK(r)
    BY <2>12, <2>17, <2>18 DEF NetOK
  <2>20. Keeps(net, r)
    BY <2>9, <2>10, <2>13 DEF Keeps, Same
  <2>21. \A x \in DOMAIN net.node : r.node[x].n <= net.node[x].n + Count(x \in {})
    <3> SUFFICES ASSUME NEW x \in DOMAIN net.node
                 PROVE  r.node[x].n <= net.node[x].n
      <4>1. \A x \in DOMAIN net.node : net.node[x].n \in Int
        BY <2>1 DEF NodeStates
      <4> QED
        BY <4>1 DEF Count
    <3>1. net.node[x].n \in Int
        BY <2>1 DEF NodeStates
    <3>2. CASE x = p
        BY <3>1, <3>2, <2>9, <2>10, <2>13 DEF n2
    <3>3. CASE x # p
        BY <3>1, <3>3, <2>10, <2>13
    <3> QED
        BY <3>2, <3>3
  <2> QED
    BY <2>11, <2>13, <2>19, <2>20, <2>21 DEF IsMarked, r
<1> QED
    BY <1>1, <1>2

\* A block is asked from p, and from nobody else any more.
LEMMA MarkBlockAsInFlightFacts ==
    ASSUME NEW net, NetOK(net), NEW p \in DOMAIN net.node, NEW b \in Block,
           NEW valid \in BOOLEAN
    PROVE  IsMarked(net, MarkBlockAsInFlight(net, p, b, valid),
                    DOMAIN net.inFlight \cup {b}, {p})
<1> DEFINE free == MarkBlockAsReceived(net, b)
           r == MarkBlockAsInFlight(net, p, b, valid)
           s == free.node[p]
           q == s.queue
           e == [hash |-> b, valid |-> valid]
           q2 == Append(q, e)
           n2 == s.n + 1
           v2 == s.nValid + Count(valid)
           s2 == [s EXCEPT !.queue = q2, !.n = n2, !.nValid = v2]
           fl2 == [c \in DOMAIN free.inFlight \cup {b} |->
                      IF c = b THEN p ELSE free.inFlight[c]]
           nd2 == [free.node EXCEPT ![p] = s2]
<1>1. r = [node |-> nd2, inFlight |-> fl2, nQueued |-> free.nQueued + Count(valid)]
    BY DEF MarkBlockAsInFlight
<1>2. /\ NetOK(free)
      /\ Keeps(net, free)
      /\ DOMAIN free.inFlight = DOMAIN net.inFlight \ {b}
      /\ \A x \in DOMAIN net.node : free.node[x].n <= net.node[x].n + Count(x \in {})
    BY MarkBlockAsReceivedFacts DEF IsMarked
<1> HIDE DEF free, r
<1>3. /\ free \in Nets /\ RequestsOK(free)
      /\ free.nQueued >= Cardinality(ValidRequests(free))
      /\ p \in DOMAIN free.node
      /\ DOMAIN free.node = DOMAIN net.node
    BY <1>2 DEF NetOK, Keeps
<1>4. /\ DOMAIN free.node \in SUBSET Peers
      /\ free.node \in [DOMAIN free.node -> NodeStates]
      /\ DOMAIN free.inFlight \in SUBSET Block
      /\ free.inFlight \in [DOMAIN free.inFlight -> Peers]
      /\ free.nQueued \in Int
      /\ IsFiniteSet(DOMAIN free.inFlight)
    BY <1>3, NetTypes
<1>5. s \in NodeStates /\ NodeOK(p, s, free.inFlight)
    BY <1>3, <1>4 DEF RequestsOK
<1>6. q \in Seq(Requested) /\ Distinct(q) /\ e \in Requested /\ e.hash = b /\ e.valid = valid
    BY <1>5 DEF NodeStates, NodeOK, Requested
<1>7. \A x \in ToSet(q) : x.hash # b
    BY <1>2, <1>5 DEF NodeOK
<1>8. /\ q2 \in Seq(Requested)
      /\ Len(q2) = Len(q) + 1
      /\ Distinct(q2)
      /\ ToSet(q2) = ToSet(q) \cup {e}
  <2> HIDE DEF q, e
  <2> QED
    BY <1>6, <1>7, AppendEntry
<1>9. Count(valid) \in {0, 1}
    BY DEF Count
<1>10. /\ IsFiniteSet({x \in ToSet(q) : x.valid})
       /\ ToSet(q) \subseteq Requested
  <2> HIDE DEF q
  <2> QED
    BY <1>6, QueueFacts
<1>11. n2 \in Int /\ v2 \in Int
    BY <1>5, <1>9 DEF NodeStates
<1> HIDE DEF q2, n2, v2, e
<1>12. /\ s2 \in NodeStates
       /\ s2.queue = q2 /\ s2.n = n2 /\ s2.nValid = v2
       /\ s2.stalling = s.stalling
       /\ Same(s, s2)
  <2> HIDE DEF s
  <2> QED
    BY <1>5, <1>8, <1>11 DEF NodeStates, Same
<1> HIDE DEF s2
<1>13. /\ DOMAIN nd2 = DOMAIN free.node
       /\ nd2 \in [DOMAIN nd2 -> NodeStates]
       /\ nd2[p] = s2
       /\ \A x \in DOMAIN free.node \ {p} : nd2[x] = free.node[x]
    BY <1>3, <1>4, <1>12
<1>14. /\ DOMAIN fl2 = DOMAIN free.inFlight \cup {b}
       /\ fl2 \in [DOMAIN fl2 -> Peers]
       /\ fl2[b] = p
       /\ \A c \in DOMAIN free.inFlight : c # b /\ fl2[c] = free.inFlight[c]
    BY <1>2, <1>3, <1>4
<1> HIDE DEF nd2, fl2
<1>15. r \in Nets
  <2>1. DOMAIN nd2 \subseteq Peers /\ DOMAIN fl2 \subseteq Block
    BY <1>4, <1>13, <1>14
  <2>2. free.nQueued + Count(valid) \in Int
    BY <1>4, <1>9
  <2> QED
    BY <1>1, <1>13, <1>14, <2>1, <2>2, MakeNet
<1>16. r.node = nd2 /\ r.inFlight = fl2 /\ r.nQueued = free.nQueued + Count(valid)
    BY <1>1
<1>17. ASSUME NEW x \in DOMAIN free.node
       PROVE  NodeOK(x, nd2[x], fl2)
  <2>1. CASE x = p
    <3>1. \A y \in ToSet(q2) : y.hash \in DOMAIN fl2 /\ fl2[y.hash] = p
        BY <1>5, <1>6, <1>8, <1>14 DEF NodeOK
    <3>2. Cardinality({y \in ToSet(q2) : y.valid})
            = Cardinality({y \in ToSet(q) : y.valid}) + Count(valid)
      <4> DEFINE V == {y \in ToSet(q) : y.valid}
      <4>1. e \notin ToSet(q)
        BY <1>6, <1>7
      <4>2. IsFiniteSet(V) /\ e \notin V /\ Cardinality(V) \in Nat
        <5>1. e \notin V
            BY <4>1
        <5> HIDE DEF V
        <5> QED
            BY <1>10, <5>1, FS_CardinalityType DEF V
      <4>3. CASE valid
        <5>1. {y \in ToSet(q2) : y.valid} = V \cup {e}
            BY <1>6, <1>8, <4>3
        <5>2. Cardinality(V \cup {e}) = Cardinality(V) + 1
            <6> HIDE DEF V
            <6> QED
                BY <4>2, FS_AddElement
        <5> QED
            BY <5>1, <5>2, <4>3 DEF Count
      <4>4. CASE ~ valid
        <5>1. {y \in ToSet(q2) : y.valid} = V
            BY <1>6, <1>8, <4>4
        <5> QED
            BY <5>1, <4>2, <4>4 DEF Count
      <4> QED
        BY <4>3, <4>4
    <3>3. s.n = Len(q) /\ s.nValid = Cardinality({y \in ToSet(q) : y.valid})
        BY <1>5 DEF NodeOK
    <3>4. q2 # << >>
      <4>1. Len(q) \in Nat
        BY <1>6
      <4> QED
        BY <4>1, <1>8
    <3> QED
        BY <2>1, <3>1, <3>2, <3>3, <3>4, <1>8, <1>12, <1>13 DEF NodeOK, n2, v2
  <2>2. CASE x # p
    <3>1. NodeOK(x, free.node[x], free.inFlight)
        BY <1>3 DEF RequestsOK
    <3>2. \A y \in ToSet(free.node[x].queue) : y.hash \in DOMAIN fl2 /\ fl2[y.hash] = x
        BY <3>1, <1>14 DEF NodeOK
    <3> QED
        BY <2>2, <3>1, <3>2, <1>13 DEF NodeOK
  <2> QED
    BY <2>1, <2>2
<1>18. ASSUME NEW c \in DOMAIN fl2
       PROVE  /\ fl2[c] \in DOMAIN nd2
              /\ \E x \in ToSet(nd2[fl2[c]].queue) : x.hash = c
  <2>1. CASE c = b
    BY <2>1, <1>3, <1>6, <1>8, <1>12, <1>13, <1>14
  <2>2. CASE c # b
    <3>1. /\ c \in DOMAIN free.inFlight
          /\ fl2[c] = free.inFlight[c]
          /\ free.inFlight[c] \in DOMAIN free.node
        BY <2>2, <1>14, <1>3 DEF RequestsOK
    <3>2. PICK x \in ToSet(free.node[free.inFlight[c]].queue) : x.hash = c
        BY <3>1, <1>3 DEF RequestsOK
    <3>3. CASE free.inFlight[c] = p
        BY <3>1, <3>2, <3>3, <1>8, <1>12, <1>13
    <3>4. CASE free.inFlight[c] # p
        BY <3>1, <3>2, <3>4, <1>13
    <3> QED
        BY <3>3, <3>4
  <2> QED
    BY <2>1, <2>2
<1>19. RequestsOK(r)
    BY <1>13, <1>16, <1>17, <1>18 DEF RequestsOK
<1>20. r.nQueued >= Cardinality(ValidRequests(r))
  <2> DEFINE V == ValidRequests(free)
             add == IF valid THEN {b} ELSE {}
  <2>1. ValidRequests(r) \subseteq V \cup add
    <3> SUFFICES ASSUME NEW c \in ValidRequests(r)
                 PROVE  c \in V \cup add
        OBVIOUS
    <3>1. c \in DOMAIN fl2
        BY <1>16 DEF ValidRequests
    <3>2. PICK x \in ToSet(nd2[fl2[c]].queue) : x.hash = c /\ x.valid
        BY <1>16 DEF ValidRequests
    <3>3. CASE c = b
      <4>1. x \in ToSet(q2)
        BY <3>2, <3>3, <1>12, <1>13, <1>14
      <4>2. x = e
        BY <4>1, <3>2, <3>3, <1>7, <1>8
      <4> QED
        BY <4>2, <3>2, <3>3, <1>6
    <3>4. CASE c # b
      <4>1. /\ c \in DOMAIN free.inFlight /\ fl2[c] = free.inFlight[c]
            /\ free.inFlight[c] \in DOMAIN free.node
        BY <3>1, <3>4, <1>14, <1>3 DEF RequestsOK
      <4>2. x \in ToSet(free.node[free.inFlight[c]].queue)
        <5>1. CASE free.inFlight[c] = p
            BY <5>1, <4>1, <3>2, <3>4, <1>6, <1>8, <1>12, <1>13
        <5>2. CASE free.inFlight[c] # p
            BY <5>2, <4>1, <3>2, <1>13
        <5> QED
            BY <5>1, <5>2
      <4> QED
        BY <4>1, <4>2, <3>2 DEF ValidRequests
    <3> QED
        BY <3>3, <3>4
  <2>2. /\ IsFiniteSet(V) /\ Cardinality(V) \in Nat
        /\ Cardinality(ValidRequests(r)) \in Nat
    BY <1>3, <1>15, ValidRequestsFinite
  <2> HIDE DEF V
  <2>3. IsFiniteSet(V \cup add) /\ Cardinality(V \cup add) <= Cardinality(V) + Count(valid)
    <3>1. CASE valid
      <4>1. V \cup add = V \cup {b} /\ Count(valid) = 1
        BY <3>1 DEF Count
      <4>2. /\ IsFiniteSet(V \cup {b})
            /\ Cardinality(V \cup {b}) = IF b \in V THEN Cardinality(V) ELSE Cardinality(V) + 1
        BY <2>2, FS_AddElement
      <4>3. Cardinality(V \cup {b}) <= Cardinality(V) + 1
        BY <4>2, <2>2
      <4> HIDE DEF add
      <4> QED
        BY <4>1, <4>2, <4>3
    <3>2. CASE ~ valid
      <4>1. V \cup add = V /\ Count(valid) = 0
        BY <3>2 DEF Count
      <4> QED
        BY <4>1, <2>2
    <3> QED
        BY <3>1, <3>2
  <2> HIDE DEF add
  <2>4. Cardinality(ValidRequests(r)) <= Cardinality(V \cup add)
    BY <2>1, <2>3, FS_Subset
  <2>5. Cardinality(V \cup add) \in Nat
    BY <2>3, FS_CardinalityType
  <2> QED
    BY <2>2, <2>3, <2>4, <2>5, <1>3, <1>4, <1>9, <1>16 DEF V
<1>21. NetOK(r)
    BY <1>15, <1>19, <1>20 DEF NetOK
<1>22. Keeps(net, r)
    BY <1>2, <1>3, <1>12, <1>13, <1>16 DEF Keeps, Same
<1>23. \A x \in DOMAIN net.node : r.node[x].n <= net.node[x].n + Count(x \in {p})
  <2> SUFFICES ASSUME NEW x \in DOMAIN net.node
               PROVE  r.node[x].n <= net.node[x].n + Count(x \in {p})
    OBVIOUS
  <2>1. net.node[x].n \in Int /\ free.node[x].n \in Int
    <3>1. net.node[x] \in NodeStates
      <4>1. net \in Nets
        BY DEF NetOK
      <4>2. net.node \in [DOMAIN net.node -> NodeStates]
        BY <4>1, NetTypes
      <4> QED
        BY <4>2
    <3> QED
        BY <3>1, <1>3, <1>4 DEF NodeStates
  <2>2. free.node[x].n <= net.node[x].n
    BY <1>2, <2>1 DEF Count
  <2>3. CASE x = p
    <3>1. r.node[x].n = free.node[x].n + 1
        BY <2>3, <1>12, <1>13, <1>16 DEF n2
    <3>2. Count(x \in {p}) = 1
        BY <2>3 DEF Count
    <3> QED
        BY <3>1, <3>2, <2>1, <2>2
  <2>4. CASE x # p
    <3>1. r.node[x].n = free.node[x].n
        BY <2>4, <1>3, <1>13, <1>16
    <3>2. Count(x \in {p}) = 0
        BY <2>4 DEF Count
    <3> QED
        BY <3>1, <3>2, <2>1, <2>2
  <2> QED
    BY <2>3, <2>4
<1>24. DOMAIN r.inFlight = DOMAIN net.inFlight \cup {b}
    BY <1>2, <1>14, <1>16
<1> QED
    BY <1>21, <1>22, <1>23, <1>24 DEF IsMarked, r

\* What AskFor makes of net0 after asking p for at most k of the blocks in S.
Asked(net0, p, S, k) ==
    {net \in Nets :
        /\ NetOK(net)
        /\ Keeps(net0, net)
        /\ DOMAIN net.inFlight \subseteq DOMAIN net0.inFlight \cup S
        /\ \A q \in DOMAIN net0.node : net.node[q].n <= net0.node[q].n + k * Count(q = p)}

\* Same is an equivalence.
LEMMA KeepsTransitive ==
    ASSUME NEW a, NEW b, NEW c, Keeps(a, b), Keeps(b, c)
    PROVE  Keeps(a, c)
    BY DEF Keeps, Same

\* SendMessages asks for a list of blocks.
LEMMA AskForFacts ==
    ASSUME NEW net, NetOK(net), NEW p \in DOMAIN net.node,
           NEW S \in SUBSET Block, NEW k \in Nat, NEW blocks \in [1..k -> S]
    PROVE  AskFor(net, p, blocks) \in Asked(net, p, S, k)
<1> DEFINE X == {x \in Nets : NetOK(x) /\ p \in DOMAIN x.node}
           next(i, x) == MarkBlockAsInFlight(x, p, blocks[i], TRUE)
           Eq(f) == f = [i \in 0..k |-> IF i = 0 THEN net ELSE next(i, f[i - 1])]
           asked == CHOOSE f : Eq(f)
<1>1. net \in X
    BY DEF NetOK
<1>2. ASSUME NEW i \in 1..k, NEW x \in X
      PROVE  /\ next(i, x) \in X
             /\ IsMarked(x, next(i, x), DOMAIN x.inFlight \cup {blocks[i]}, {p})
  <2>1. blocks[i] \in Block
    OBVIOUS
  <2>2. IsMarked(x, next(i, x), DOMAIN x.inFlight \cup {blocks[i]}, {p})
    BY <2>1, MarkBlockAsInFlightFacts
  <2> HIDE DEF next
  <2>3. NetOK(next(i, x)) /\ DOMAIN next(i, x).node = DOMAIN x.node
    BY <2>2 DEF IsMarked, Keeps
  <2> QED
    BY <2>2, <2>3 DEF NetOK
<1>3. Len(blocks) = k
    OBVIOUS
<1> HIDE DEF next
<1>4. \E f : Eq(f)
  <2> DEFINE F == [i \in 1..k |-> [x \in X |-> next(i, x)]]
  <2>1. F \in [1..k -> [X -> X]]
    BY <1>2
  <2>2. PICK f : IsFold(k, X, net, F, f)
    <3> HIDE DEF F, X
    <3> QED
        BY <1>1, <2>1, FoldExists
  <2>3. f \in [0..k -> X] /\ f[0] = net /\ \A i \in 1..k : f[i] = F[i][f[i - 1]]
    BY <2>2 DEF IsFold
  <2> HIDE DEF X
  <2>4. \A i \in 1..k : i - 1 \in 0..k /\ f[i - 1] \in X
    BY <2>3
  <2>5. \A i \in 1..k : f[i] = next(i, f[i - 1])
    BY <2>3, <2>4
  <2>6. \A i \in 0..k : i = 0 \/ i \in 1..k
    OBVIOUS
  <2>7. \A i \in 0..k : f[i] = IF i = 0 THEN net ELSE next(i, f[i - 1])
    BY <2>3, <2>5, <2>6
  <2>8. f = [i \in 0..k |-> f[i]]
    BY <2>3
  <2>9. Eq(f)
    BY <2>7, <2>8
  <2> HIDE DEF Eq
  <2> QED
    BY <2>9
<1>5. Eq(asked)
  <2> HIDE DEF Eq
  <2> QED
    BY <1>4
<1>6. AskFor(net, p, blocks) = asked[k]
    BY <1>3 DEF AskFor, next
<1> HIDE DEF asked
<1>7. asked[0] = net /\ \A i \in 1..k : asked[i] = next(i, asked[i - 1])
  <2>1. \A i \in 0..k : asked[i] = IF i = 0 THEN net ELSE next(i, asked[i - 1])
    BY <1>5
  <2>2. 0 \in 0..k /\ \A i \in 1..k : i \in 0..k /\ i # 0
    OBVIOUS
  <2> QED
    BY <2>1, <2>2
<1> HIDE DEF Eq
<1> DEFINE T == {i \in Nat : i <= k => asked[i] \in Asked(net, p, S, i)}
<1>8. 0 \in T
  <2>1. \A q \in DOMAIN net.node : net.node[q].n <= net.node[q].n + 0 * Count(q = p)
    <3>1. net \in Nets
        BY DEF NetOK
    <3>2. net.node \in [DOMAIN net.node -> NodeStates]
        BY <3>1, NetTypes
    <3> QED
        BY <3>2 DEF NodeStates, Count
  <2>2. Keeps(net, net)
    BY DEF Keeps, Same
  <2> QED
    BY <1>7, <2>1, <2>2 DEF Asked, NetOK
<1>9. ASSUME NEW i \in Nat, i \in T
      PROVE  i + 1 \in T
  <2> SUFFICES ASSUME i + 1 <= k
               PROVE  asked[i + 1] \in Asked(net, p, S, i + 1)
    OBVIOUS
  <2> DEFINE x == asked[i]
             y == next(i + 1, x)
  <2>1. /\ i + 1 \in 1..k
        /\ x \in Asked(net, p, S, i)
        /\ asked[i + 1] = y
    BY <1>7, <1>9
  <2>2. /\ x \in Nets /\ NetOK(x) /\ Keeps(net, x)
        /\ DOMAIN x.inFlight \subseteq DOMAIN net.inFlight \cup S
        /\ \A q \in DOMAIN net.node : x.node[q].n <= net.node[q].n + i * Count(q = p)
    BY <2>1 DEF Asked
  <2>3. x \in X
    BY <2>2 DEF Keeps
  <2>4. IsMarked(x, y, DOMAIN x.inFlight \cup {blocks[i + 1]}, {p}) /\ y \in X
    BY <2>1, <2>3, <1>2
  <2> HIDE DEF x, y
  <2>5. /\ NetOK(y) /\ Keeps(x, y)
        /\ DOMAIN y.inFlight = DOMAIN x.inFlight \cup {blocks[i + 1]}
        /\ \A q \in DOMAIN x.node : y.node[q].n <= x.node[q].n + Count(q \in {p})
    BY <2>4 DEF IsMarked
  <2>6. Keeps(net, y)
    BY <2>2, <2>5, KeepsTransitive
  <2>7. DOMAIN y.inFlight \subseteq DOMAIN net.inFlight \cup S
    <3>1. blocks[i + 1] \in S
        BY <2>1
    <3> QED
        BY <3>1, <2>2, <2>5
  <2>8. ASSUME NEW q \in DOMAIN net.node
        PROVE  y.node[q].n <= net.node[q].n + (i + 1) * Count(q = p)
    <3>1. net \in Nets /\ x \in Nets /\ y \in Nets
        BY <2>2, <2>4 DEF NetOK
    <3>2. q \in DOMAIN x.node /\ q \in DOMAIN y.node
        BY <2>2, <2>5 DEF Keeps
    <3>3. net.node[q] \in NodeStates /\ x.node[q] \in NodeStates /\ y.node[q] \in NodeStates
      <4>1. /\ net.node \in [DOMAIN net.node -> NodeStates]
            /\ x.node \in [DOMAIN x.node -> NodeStates]
            /\ y.node \in [DOMAIN y.node -> NodeStates]
        BY <3>1, NetTypes
      <4> QED
        BY <3>2, <4>1
    <3>4. net.node[q].n \in Int /\ x.node[q].n \in Int /\ y.node[q].n \in Int
        BY <3>3 DEF NodeStates
    <3>5. /\ x.node[q].n <= net.node[q].n + i * Count(q = p)
          /\ y.node[q].n <= x.node[q].n + Count(q \in {p})
        BY <3>2, <2>2, <2>5
    <3>6. CASE q = p
      <4>1. Count(q = p) = 1 /\ Count(q \in {p}) = 1
        BY <3>6 DEF Count
      <4> QED
        BY <4>1, <3>4, <3>5
    <3>7. CASE q # p
      <4>1. Count(q = p) = 0 /\ Count(q \in {p}) = 0
        BY <3>7 DEF Count
      <4> QED
        BY <4>1, <3>4, <3>5
    <3> QED
        BY <3>6, <3>7
  <2>9. y \in Nets
    BY <2>5 DEF NetOK
  <2> QED
    BY <2>1, <2>5, <2>6, <2>7, <2>8, <2>9 DEF Asked
<1>10. Nat \subseteq T
  <2> HIDE DEF T
  <2> QED
    BY <1>8, <1>9, NatSetInduction
<1> QED
    BY <1>10, <1>6

-----------------------------------------------------------------------------
(* What to ask for *)

\* The blocks to ask for are missing and not more than p may owe; the new last
\* common block is one we have; the staller owes a block.
IsFound(found, st) ==
    /\ found.fetch \in SUBSET Block
    /\ found.fetch \cap data = {}
    /\ IsFiniteSet(found.fetch)
    /\ Cardinality(found.fetch) \in Nat
    /\ Cardinality(found.fetch) <= MaxTransit - st.n
    /\ found.common \in Block \cup {None}
    /\ found.common # None => Ancestry[found.common] \subseteq data
    /\ found.staller # None =>
          \E b \in DOMAIN inFlight : found.staller = inFlight[b]

LEMMA FindFacts ==
    ASSUME NEW p, NEW st \in NodeStates, st.n \in Nat, st.n < MaxTransit,
           st.common # None => Ancestry[st.common] \subseteq data,
           tip \in Block, Ancestry[tip] \subseteq data
    PROVE  IsFound(FindNextBlocksToDownload(p, st), st)
<1> DEFINE found == FindNextBlocksToDownload(p, st)
           count == MaxTransit - st.n
           guess == IF st.common # None THEN st.common
                    ELSE GetAncestor(tip, Min({Depth[st.best], Depth[tip]}))
           common == LastCommonAncestor(guess, st.best)
           nWindowEnd == Depth[common] + Window
           nMaxHeight == Min({Depth[st.best], nWindowEnd + 1})
           at(h) == GetAncestor(st.best, h)
           sound == {h \in Depth[common] + 1 .. nMaxHeight :
                        \A k \in Depth[common] + 1 .. h : at(k) \notin failed}
           held == {h \in sound : Have(at(h))}
           flying == {h \in sound \ held : at(h) \in DOMAIN inFlight}
           missing == sound \ (held \cup flying)
           ask == {h \in missing : /\ h <= nWindowEnd
                                   /\ Cardinality({k \in missing : k <= h}) <= count}
           linked == {h \in held : /\ Linked(at(h))
                                   /\ Cardinality(ask) = count => h < Max(ask)}
           waitingfor == IF flying = {} THEN None ELSE inFlight[at(Min(flying))]
<1>1. CASE st.best = None \/ Depth[st.best] < Depth[tip]
  <2>1. found = [fetch |-> {}, common |-> st.common, staller |-> None]
    BY <1>1 DEF FindNextBlocksToDownload
  <2>2. IsFiniteSet({}) /\ Cardinality({}) = 0
    BY FS_EmptySet
  <2>3. st.common \in Block \cup {None} /\ MaxTransit \in Nat
    BY BlockDownloadAssumption DEF NodeStates
  <2> HIDE DEF found
  <2> QED
    BY <2>1, <2>2, <2>3 DEF IsFound, found
<1>2. CASE ~ (st.best = None \/ Depth[st.best] < Depth[tip])
  <2>1. found = [fetch |-> {at(h) : h \in ask},
                 common |-> IF linked = {} THEN common ELSE at(Max(linked)),
                 staller |-> IF /\ nWindowEnd + 1 \in missing
                                /\ ask = {} /\ waitingfor # p
                             THEN waitingfor ELSE None]
    BY <1>2 DEF FindNextBlocksToDownload
  <2> HIDE DEF found
  <2>2. /\ st.best \in Block /\ Depth[st.best] \in Nat /\ Depth[tip] \in Nat
        /\ st.common \in Block \cup {None}
        /\ Window \in Nat /\ MaxTransit \in Nat /\ count \in Nat
    BY <1>2, BlockTreeFacts, BlockDownloadAssumption DEF NodeStates
  <2>3. guess \in Block /\ Ancestry[guess] \subseteq data
    <3>1. CASE st.common # None
        BY <3>1, <2>2
    <3>2. CASE st.common = None
      <4> DEFINE D == {Depth[st.best], Depth[tip]}
      <4>1. D \in SUBSET Nat /\ D # {} /\ Depth[tip] \in D
        BY <2>2
      <4>2. Min(D) \in Nat /\ Min(D) <= Depth[tip]
        <5> HIDE DEF D
        <5> QED
            BY <4>1, MinFacts
      <4>3. Min(D) \in 0..Depth[tip]
        BY <4>2, <2>2
      <4>4. guess = GetAncestor(tip, Min(D))
        BY <3>2
      <4> HIDE DEF D, guess
      <4>5. guess \in Ancestry[tip]
        BY <4>3, <4>4, GetAncestorFacts
      <4> QED
        BY <4>5, BlockTreeFacts
    <3> QED
        BY <3>1, <3>2
  <2> HIDE DEF guess
  <2>4. /\ common \in Ancestry[st.best] /\ common \in Block /\ Depth[common] \in Nat
        /\ Ancestry[common] \subseteq data
    <3>1. common \in Ancestry[guess] \cap Ancestry[st.best]
        BY <2>2, <2>3, LastCommonAncestorFacts
    <3> QED
        BY <3>1, <2>2, <2>3, BlockTreeFacts
  <2> HIDE DEF common
  <2>5. nMaxHeight \in Nat /\ nMaxHeight <= Depth[st.best]
    <3> DEFINE D == {Depth[st.best], nWindowEnd + 1}
    <3>1. D \in SUBSET Nat /\ D # {} /\ Depth[st.best] \in D
        BY <2>2, <2>4
    <3>2. Min(D) \in Nat /\ Min(D) <= Depth[st.best]
      <4> HIDE DEF D
      <4> QED
        BY <3>1, MinFacts
    <3> QED
        BY <3>2
  <2> HIDE DEF nMaxHeight
  <2>6. \A h \in sound : h \in 0..Depth[st.best] /\ h \in 0..nMaxHeight
    BY <2>2, <2>4, <2>5
  <2>7. \A h \in sound : at(h) \in Ancestry[st.best] /\ at(h) \in Block
    <3>1. \A h \in sound : at(h) \in Ancestry[st.best]
      <4> HIDE DEF sound
      <4> QED
        BY <2>2, <2>6, GetAncestorFacts
    <3> HIDE DEF sound, at
    <3> QED
        BY <3>1, <2>2, BlockTreeFacts
  <2> HIDE DEF at, sound
  <2>8. /\ \A h \in held : h \in sound
        /\ \A h \in flying : h \in sound /\ at(h) \in DOMAIN inFlight
        /\ \A h \in missing : h \in sound /\ ~ Have(at(h))
        /\ \A h \in ask : h \in missing
        /\ \A h \in linked : h \in held /\ Linked(at(h))
    OBVIOUS
  <2>9. /\ IsFiniteSet(ask) /\ Cardinality(ask) \in Nat /\ Cardinality(ask) <= count
    <3>1. IsFiniteSet(missing)
      <4>1. IsFiniteSet(0..nMaxHeight)
        BY <2>5, FS_Interval
      <4>2. missing \in SUBSET (0..nMaxHeight)
        BY <2>6, <2>8
      <4> HIDE DEF missing
      <4> QED
        BY <4>1, <4>2, FS_Subset
    <3>2. ask \in SUBSET missing
        OBVIOUS
    <3>3. IsFiniteSet(ask) /\ Cardinality(ask) \in Nat
      <4> HIDE DEF ask, missing
      <4> QED
        BY <3>1, <3>2, FS_Subset, FS_CardinalityType
    <3>4. CASE ask = {}
      <4>1. Cardinality(ask) = 0
        <5> HIDE DEF ask
        <5> QED
            BY <3>4, FS_EmptySet
      <4> HIDE DEF ask
      <4> QED
        BY <4>1, <3>3, <2>2
    <3>5. CASE ask # {}
      <4>1. ask \in SUBSET Nat /\ \A x \in ask : x <= nMaxHeight
        BY <2>5, <2>6, <2>8
      <4> DEFINE m == Max(ask)
                 M == {k \in missing : k <= m}
      <4>2. m \in ask /\ \A y \in ask : y <= m
        <5> HIDE DEF ask
        <5> QED
            BY <3>5, <4>1, <2>5, MaxFacts
      <4> HIDE DEF m
      <4>3. Cardinality(M) <= count
        BY <4>2
      <4>4. M \in SUBSET missing /\ ask \in SUBSET M
        BY <4>2, <2>8
      <4> HIDE DEF M, ask, missing
      <4>5. IsFiniteSet(M) /\ Cardinality(M) \in Nat
        BY <3>1, <4>4, FS_Subset, FS_CardinalityType
      <4>6. Cardinality(ask) <= Cardinality(M)
        BY <4>4, <4>5, FS_Subset
      <4> QED
        BY <3>3, <4>3, <4>5, <4>6, <2>2
    <3> QED
        BY <3>3, <3>4, <3>5
  <2> DEFINE F == {at(h) : h \in ask}
  <2>10. IsFiniteSet(F) /\ Cardinality(F) \in Nat /\ Cardinality(F) <= count
    <3> DEFINE g == [h \in ask |-> at(h)]
    <3> HIDE DEF ask
    <3>1. g \in Surjection(ask, F)
        BY DEF Surjection
    <3> HIDE DEF g, F
    <3>2. IsFiniteSet(F) /\ Cardinality(F) <= Cardinality(ask)
        BY <3>1, <2>9, FS_Surjection
    <3>3. Cardinality(F) \in Nat
        BY <3>2, FS_CardinalityType
    <3> QED
        BY <3>2, <3>3, <2>2, <2>9
  <2>11. F \in SUBSET Block /\ F \cap data = {}
    <3>1. \A h \in ask : at(h) \in Block /\ at(h) \notin data
        BY <2>7, <2>8 DEF Have
    <3> HIDE DEF ask
    <3> QED
        BY <3>1
  <2>12. found.common \in Block /\ Ancestry[found.common] \subseteq data
    <3>1. CASE linked = {}
        BY <3>1, <2>1, <2>4
    <3>2. CASE linked # {}
      <4>1. linked \in SUBSET Nat /\ \A x \in linked : x <= nMaxHeight
        BY <2>5, <2>6, <2>8
      <4>2. Max(linked) \in linked
        <5> HIDE DEF linked
        <5> QED
            BY <3>2, <4>1, <2>5, MaxFacts
      <4>3. found.common = at(Max(linked))
        BY <3>2, <2>1
      <4> QED
        BY <4>2, <4>3, <2>7, <2>8 DEF Linked
    <3> QED
        BY <3>1, <3>2
  <2>13. found.staller # None => \E b \in DOMAIN inFlight : found.staller = inFlight[b]
    <3> SUFFICES ASSUME found.staller # None
                 PROVE  \E b \in DOMAIN inFlight : found.staller = inFlight[b]
        OBVIOUS
    <3>1. found.staller = waitingfor /\ flying # {}
      <4>1. found.staller = waitingfor
        <5> HIDE DEF waitingfor, ask, missing
        <5> QED
            BY <2>1
      <4>2. waitingfor # None
        BY <4>1
      <4> HIDE DEF flying
      <4> QED
        BY <4>1, <4>2
    <3>2. found.staller = inFlight[at(Min(flying))]
      <4> HIDE DEF flying
      <4> QED
        BY <3>1
    <3>3. flying \in SUBSET Nat
        BY <2>6, <2>8
    <3>4. Min(flying) \in flying
      <4> HIDE DEF flying
      <4> QED
        BY <3>1, <3>3, MinFacts
    <3> QED
        BY <3>2, <3>4, <2>8
  <2>14. found.fetch = F
    BY <2>1
  <2> HIDE DEF F, found
  <2> QED
    BY <2>10, <2>11, <2>12, <2>13, <2>14 DEF IsFound, found
<1> QED
    BY <1>1, <1>2

-----------------------------------------------------------------------------
(* The inductive invariant *)

\* The tip is on a chain of stored blocks, which the index has.
ChainOK ==
    /\ {tip} \cup data \cup failed \subseteq index
    /\ index \subseteq Block
    /\ Ancestry[tip] \subseteq data

\* What the peers' states say of the blocks idx of the index and the blocks
\* stored: the best known block is in the index, the last common block and all
\* before it are stored, and no peer owes more than it may.
PeersOK(nd, idx, stored) ==
    \A p \in DOMAIN nd :
        /\ nd[p].best \in idx \cup {None}
        /\ nd[p].common # None => Ancestry[nd[p].common] \subseteq stored
        /\ nd[p].n <= MaxTransit
        /\ ~ nd[p].up => ~ nd[p].pref

SyncStarted(nd) == {p \in DOMAIN nd : nd[p].sync}
PreferredDownload(nd) == {p \in DOMAIN nd : nd[p].pref}

DownloadInv ==
    /\ ChainOK
    /\ NetOK(Net)
    /\ PeersOK(node, index, data)
    /\ StoredNotAwaited
    /\ nSync = Cardinality(SyncStarted(node))
    /\ nPref = Cardinality(PreferredDownload(node))
    /\ connects \in 0 .. MaxConnects

\* What the invariant promises.
LEMMA InvImplies == DownloadInv => InFlightConsistent /\ CommonIsHeld
<1> SUFFICES ASSUME DownloadInv
             PROVE  InFlightConsistent /\ CommonIsHeld
    OBVIOUS
<1>1. /\ ChainOK /\ NetOK(Net) /\ PeersOK(node, index, data) /\ StoredNotAwaited
      /\ nSync = Cardinality(SyncStarted(node))
      /\ nPref = Cardinality(PreferredDownload(node))
      /\ connects \in 0 .. MaxConnects
    BY DEF DownloadInv
<1>2. Net.node = node /\ Net.inFlight = inFlight /\ Net.nQueued = nQueued
    BY DEF Net
<1>3. Net \in Nets /\ RequestsOK(Net) /\ Net.nQueued >= Cardinality(ValidRequests(Net))
    BY <1>1 DEF NetOK
<1>4. /\ DOMAIN node \in SUBSET Peers
      /\ node \in [DOMAIN node -> NodeStates]
      /\ DOMAIN inFlight \in SUBSET Block
    BY <1>2, <1>3, NetTypes
<1>5. ASSUME NEW p \in DOMAIN node
      PROVE  /\ node[p] \in NodeStates
             /\ node[p].queue \in Seq(Requested)
             /\ NodeOK(p, node[p], inFlight)
    BY <1>2, <1>3, <1>4 DEF RequestsOK, NodeStates
<1>6. ASSUME NEW p \in DOMAIN node
      PROVE  LET q == node[p].queue
             IN  /\ \A k \in DOMAIN q : q[k] \in ToSet(q)
                 /\ node[p].n = Len(q) /\ Len(q) \in Nat
                 /\ node[p].nValid = Cardinality({k \in DOMAIN q : q[k].valid})
                 /\ node[p].nValid \in 0 .. Len(q)
  <2> DEFINE q == node[p].queue
  <2>1. q \in Seq(Requested) /\ Distinct(q) /\ node[p].n = Len(q)
    BY <1>5 DEF NodeOK
  <2>2. node[p].nValid = Cardinality({e \in ToSet(q) : e.valid})
    BY <1>5 DEF NodeOK
  <2> HIDE DEF q
  <2>3. /\ Cardinality({k \in DOMAIN q : q[k].valid}) = Cardinality({e \in ToSet(q) : e.valid})
        /\ Cardinality({k \in DOMAIN q : q[k].valid}) \in 0..Len(q)
    BY <2>1, QueueFacts
  <2>4. \A k \in DOMAIN q : q[k] \in ToSet(q)
    BY DEF ToSet
  <2>5. Len(q) \in Nat
    BY <2>1
  <2> QED
    BY <2>1, <2>2, <2>3, <2>4, <2>5 DEF q
<1>7. TypeOK
  <2>1. {tip} \cup data \cup failed \subseteq index /\ index \subseteq Block
    BY <1>1 DEF ChainOK
  <2>2. ASSUME NEW p \in DOMAIN node
        PROVE  /\ {node[p].best, node[p].common} \subseteq index \cup {None}
               /\ node[p].unknown \in Block \cup {None}
               /\ node[p].n \in 0 .. MaxTransit /\ node[p].nValid \in 0 .. node[p].n
    <3>1. /\ node[p].best \in index \cup {None}
          /\ node[p].common # None => Ancestry[node[p].common] \subseteq data
          /\ node[p].n <= MaxTransit
        BY <1>1 DEF PeersOK
    <3>2. node[p].common \in Block \cup {None} /\ node[p].unknown \in Block \cup {None}
        BY <1>5 DEF NodeStates
    <3>3. node[p].common \in index \cup {None}
        BY <3>1, <3>2, <2>1, BlockTreeFacts
    <3>4. /\ node[p].n = Len(node[p].queue) /\ Len(node[p].queue) \in Nat
          /\ node[p].nValid \in 0 .. Len(node[p].queue)
        BY <1>6
    <3>5. MaxTransit \in Nat
        BY BlockDownloadAssumption
    <3>6. node[p].n \in 0 .. MaxTransit /\ node[p].nValid \in 0 .. node[p].n
        BY <3>1, <3>4, <3>5
    <3> QED
        BY <3>1, <3>2, <3>3, <3>6
  <2> QED
    BY <2>1, <2>2, <1>1, <1>4 DEF TypeOK
<1>8. StallersOwe
    BY <1>5 DEF StallersOwe, NodeOK
<1>9. ASSUME NEW b \in DOMAIN inFlight
      PROVE  /\ inFlight[b] \in DOMAIN node
             /\ Cardinality({k \in DOMAIN node[inFlight[b]].queue :
                               node[inFlight[b]].queue[k].hash = b}) = 1
  <2> DEFINE q == node[inFlight[b]].queue
             K == {k \in DOMAIN q : q[k].hash = b}
  <2>1. inFlight[b] \in DOMAIN node /\ \E e \in ToSet(q) : e.hash = b
    BY <1>2, <1>3 DEF RequestsOK
  <2>2. Distinct(q)
    BY <1>5, <2>1 DEF NodeOK
  <2> HIDE DEF q
  <2>3. PICK k \in DOMAIN q : q[k].hash = b
    BY <2>1 DEF ToSet
  <2>4. K = {k}
    BY <2>2, <2>3 DEF Distinct
  <2> HIDE DEF K
  <2>5. Cardinality(K) = 1
    BY <2>4, FS_Singleton
  <2> QED
    BY <2>1, <2>5 DEF K, q
<1>10. ASSUME NEW p \in DOMAIN node
       PROVE  LET q == node[p].queue
              IN  /\ \A k \in DOMAIN q : q[k].hash \in DOMAIN inFlight
                                         /\ inFlight[q[k].hash] = p
                  /\ node[p].n = Len(q)
                  /\ node[p].nValid = Cardinality({k \in DOMAIN q : q[k].valid})
  <2>1. \A e \in ToSet(node[p].queue) : e.hash \in DOMAIN inFlight /\ inFlight[e.hash] = p
    BY <1>5 DEF NodeOK
  <2> QED
    BY <2>1, <1>6
<1>11. /\ nSync = Cardinality({p \in DOMAIN node : node[p].sync})
       /\ nPref = Cardinality({p \in DOMAIN node : node[p].pref})
    BY <1>1 DEF SyncStarted, PreferredDownload
<1>12. nQueued >= Cardinality({b \in DOMAIN inFlight :
          \E e \in ToSet(node[inFlight[b]].queue) : e.hash = b /\ e.valid})
    BY <1>2, <1>3 DEF ValidRequests
<1>13. CommonIsHeld
    BY <1>1 DEF PeersOK, CommonIsHeld
<1>14. InFlightConsistent
    BY <1>1, <1>7, <1>8, <1>9, <1>10, <1>11, <1>12 DEF InFlightConsistent
<1> QED
    BY <1>13, <1>14

\* At the start nobody is connected.
LEMMA InvInit == Init => DownloadInv
<1> SUFFICES ASSUME Init
             PROVE  DownloadInv
    OBVIOUS
<1>1. ChainOK
    BY BlockTreeFacts DEF Init, ChainOK
<1>2. /\ node = [p \in {} |-> NewNode] /\ inFlight = [b \in {} |-> None]
      /\ nQueued = 0 /\ nSync = 0 /\ nPref = 0 /\ connects = 0
    BY DEF Init
<1> HIDE DEF NewNode
<1>3. DOMAIN node = {} /\ DOMAIN inFlight = {}
    BY <1>2
<1>4. /\ Net.node = node /\ Net.inFlight = inFlight /\ Net.nQueued = 0
      /\ Net = [node |-> node, inFlight |-> inFlight, nQueued |-> nQueued]
    BY <1>2 DEF Net
<1>5. Net \in Nets
  <2>1. node \in [DOMAIN node -> NodeStates] /\ inFlight \in [DOMAIN inFlight -> Peers]
    BY <1>2, <1>3
  <2> QED
    <3>1. DOMAIN node \subseteq Peers /\ DOMAIN inFlight \subseteq Block /\ nQueued \in Int
        BY <1>2, <1>3
    <3> QED
        BY ONLY <2>1, <3>1, <1>4, MakeNet
<1>6. RequestsOK(Net)
    BY <1>3, <1>4 DEF RequestsOK
<1>7. ValidRequests(Net) = {}
    BY <1>3, <1>4 DEF ValidRequests
<1>8. NetOK(Net)
  <2>1. Cardinality(ValidRequests(Net)) = 0
    BY <1>7, FS_EmptySet
  <2> QED
    BY <1>4, <1>5, <1>6, <2>1 DEF NetOK
<1>9. SyncStarted(node) = {} /\ PreferredDownload(node) = {}
    BY <1>3 DEF SyncStarted, PreferredDownload
<1>10. PeersOK(node, index, data) /\ StoredNotAwaited
    BY <1>3 DEF PeersOK, StoredNotAwaited
<1>11. connects \in 0 .. MaxConnects
    BY <1>2, BlockDownloadAssumption
<1> QED
  <2>1. Cardinality(SyncStarted(node)) = 0 /\ Cardinality(PreferredDownload(node)) = 0
    BY <1>9, FS_EmptySet
  <2> QED
    BY <1>1, <1>2, <1>8, <1>10, <1>11, <2>1 DEF DownloadInv

-----------------------------------------------------------------------------
(* Steps *)

\* The parts of the invariant that the steps use.
LEMMA InvParts ==
    ASSUME DownloadInv
    PROVE  /\ ChainOK /\ NetOK(Net) /\ PeersOK(node, index, data) /\ StoredNotAwaited
           /\ nSync = Cardinality(SyncStarted(node))
           /\ nPref = Cardinality(PreferredDownload(node))
           /\ connects \in 0 .. MaxConnects
           /\ Net = [node |-> node, inFlight |-> inFlight, nQueued |-> nQueued]
           /\ Net.node = node /\ Net.inFlight = inFlight /\ Net.nQueued = nQueued
           /\ Net \in Nets /\ RequestsOK(Net)
           /\ DOMAIN node \in SUBSET Peers
           /\ IsFiniteSet(DOMAIN node)
           /\ node \in [DOMAIN node -> NodeStates]
           /\ DOMAIN inFlight \in SUBSET Block
           /\ inFlight \in [DOMAIN inFlight -> Peers]
           /\ nQueued \in Int
           /\ nSync \in Nat /\ nPref \in Nat
<1>1. /\ ChainOK /\ NetOK(Net) /\ PeersOK(node, index, data) /\ StoredNotAwaited
      /\ nSync = Cardinality(SyncStarted(node))
      /\ nPref = Cardinality(PreferredDownload(node))
      /\ connects \in 0 .. MaxConnects
    BY DEF DownloadInv
<1>2. /\ Net = [node |-> node, inFlight |-> inFlight, nQueued |-> nQueued]
      /\ Net.node = node /\ Net.inFlight = inFlight /\ Net.nQueued = nQueued
    BY DEF Net
<1>3. Net \in Nets /\ RequestsOK(Net)
    BY <1>1 DEF NetOK
<1>4. /\ DOMAIN node \in SUBSET Peers
      /\ IsFiniteSet(DOMAIN node)
      /\ node \in [DOMAIN node -> NodeStates]
      /\ DOMAIN inFlight \in SUBSET Block
      /\ inFlight \in [DOMAIN inFlight -> Peers]
      /\ nQueued \in Int
    BY <1>2, <1>3, NetTypes
<1>5. nSync \in Nat /\ nPref \in Nat
  <2>1. /\ SyncStarted(node) \in SUBSET (DOMAIN node)
        /\ PreferredDownload(node) \in SUBSET (DOMAIN node)
    BY DEF SyncStarted, PreferredDownload
  <2>2. IsFiniteSet(SyncStarted(node)) /\ IsFiniteSet(PreferredDownload(node))
    BY <2>1, <1>4, FS_Subset
  <2> QED
    BY <1>1, <2>2, FS_CardinalityType
<1> QED
    BY <1>1, <1>2, <1>3, <1>4, <1>5

\* A step that leaves the net r behind.
LEMMA SetNetFacts ==
    ASSUME NEW r, SetNet(r), r \in Nets
    PROVE  Net' = r
<1>1. r = [node |-> r.node, inFlight |-> r.inFlight, nQueued |-> r.nQueued]
    BY DEF Nets
<1> QED
    BY <1>1 DEF SetNet, Net

\* The state of one peer changes, but not what it is asked for.
Touched(net, p, s) ==
    [node |-> [net.node EXCEPT ![p] = s], inFlight |-> net.inFlight,
     nQueued |-> net.nQueued]

LEMMA TouchedFacts ==
    ASSUME NEW net, NetOK(net), NEW p \in DOMAIN net.node, NEW s \in NodeStates,
           s.queue = net.node[p].queue, s.n = net.node[p].n,
           s.nValid = net.node[p].nValid, s.stalling => s.queue # << >>
    PROVE  /\ NetOK(Touched(net, p, s))
           /\ Touched(net, p, s).inFlight = net.inFlight
           /\ DOMAIN Touched(net, p, s).node = DOMAIN net.node
           /\ Touched(net, p, s).node[p] = s
           /\ \A q \in DOMAIN net.node \ {p} : Touched(net, p, s).node[q] = net.node[q]
<1> DEFINE r == Touched(net, p, s)
           nd2 == [net.node EXCEPT ![p] = s]
<1>1. net \in Nets /\ RequestsOK(net) /\ net.nQueued >= Cardinality(ValidRequests(net))
    BY DEF NetOK
<1>2. /\ DOMAIN net.node \in SUBSET Peers
      /\ net.node \in [DOMAIN net.node -> NodeStates]
      /\ DOMAIN net.inFlight \in SUBSET Block
      /\ net.inFlight \in [DOMAIN net.inFlight -> Peers]
      /\ net.nQueued \in Int
    BY <1>1, NetTypes
<1>3. /\ DOMAIN nd2 = DOMAIN net.node
      /\ nd2 \in [DOMAIN nd2 -> NodeStates]
      /\ nd2[p] = s
      /\ \A q \in DOMAIN net.node \ {p} : nd2[q] = net.node[q]
    BY <1>2
<1>4. r.node = nd2 /\ r.inFlight = net.inFlight /\ r.nQueued = net.nQueued
    BY DEF Touched
<1>5. r = [node |-> nd2, inFlight |-> net.inFlight, nQueued |-> net.nQueued]
    BY DEF Touched
<1> HIDE DEF r, nd2
<1>6. r \in Nets
    BY <1>2, <1>3, <1>5, MakeNet
<1>7. \A q \in DOMAIN net.node : nd2[q].queue = net.node[q].queue
    BY <1>3
<1>8. ASSUME NEW q \in DOMAIN net.node
      PROVE  NodeOK(q, nd2[q], net.inFlight)
  <2>1. NodeOK(q, net.node[q], net.inFlight)
    BY <1>1 DEF RequestsOK
  <2>2. CASE q = p
    BY <2>1, <2>2, <1>3 DEF NodeOK
  <2>3. CASE q # p
    BY <2>1, <2>3, <1>3
  <2> QED
    BY <2>2, <2>3
<1>9. \A b \in DOMAIN net.inFlight : net.inFlight[b] \in DOMAIN net.node
    BY <1>1 DEF RequestsOK
<1>10. RequestsOK(r)
    BY <1>1, <1>3, <1>4, <1>7, <1>8, <1>9 DEF RequestsOK
<1>11. ValidRequests(r) = ValidRequests(net)
    BY <1>4, <1>7, <1>9 DEF ValidRequests
<1>12. NetOK(r)
    BY <1>1, <1>4, <1>6, <1>10, <1>11 DEF NetOK
<1> QED
    BY <1>3, <1>4, <1>12 DEF r

\* One peer more, or less, in a counted set.
LEMMA CountedPeers ==
    ASSUME NEW S, IsFiniteSet(S), NEW p
    PROVE  /\ Cardinality(S) \in Nat
           /\ p \in S => Cardinality(S \ {p}) = Cardinality(S) - 1
           /\ p \notin S => Cardinality(S \cup {p}) = Cardinality(S) + 1
<1>1. Cardinality(S) \in Nat
    BY FS_CardinalityType
<1>2. Cardinality(S \ {p}) = IF p \in S THEN Cardinality(S) - 1 ELSE Cardinality(S)
    BY FS_RemoveElement
<1>3. Cardinality(S \cup {p}) = IF p \in S THEN Cardinality(S) ELSE Cardinality(S) + 1
    BY FS_AddElement
<1> QED
    BY <1>1, <1>2, <1>3

\* What is announced is entered in the peer's state, and nothing else.
Informed(idx, s, t) ==
    /\ t \in NodeStates
    /\ t.best \in idx \cup {None}
    /\ t.common = s.common /\ t.queue = s.queue /\ t.n = s.n /\ t.nValid = s.nValid
    /\ t.stalling = s.stalling /\ t.sync = s.sync /\ t.pref = s.pref /\ t.ban = s.ban
    /\ t.close = s.close /\ t.up = s.up /\ t.owes = s.owes

LEMMA ProcessBlockAvailabilityFacts ==
    ASSUME NEW idx \in SUBSET Block, NEW s \in NodeStates, s.best \in idx \cup {None}
    PROVE  Informed(idx, s, ProcessBlockAvailability(idx, s))
<1> DEFINE best == Better(s.best, s.unknown)
<1>1. CASE s.unknown \notin idx
    BY <1>1 DEF ProcessBlockAvailability, Informed
<1>2. CASE s.unknown \in idx
  <2>1. best \in idx \cup {None} /\ best \in Block \cup {None}
    BY <1>2 DEF Better
  <2>2. ProcessBlockAvailability(idx, s) = [s EXCEPT !.best = best, !.unknown = None]
    BY <1>2 DEF ProcessBlockAvailability
  <2> HIDE DEF best
  <2> QED
    BY <2>1, <2>2 DEF Informed, NodeStates
<1> QED
    BY <1>1, <1>2

LEMMA UpdateBlockAvailabilityFacts ==
    ASSUME NEW idx \in SUBSET Block, NEW s \in NodeStates, s.best \in idx \cup {None},
           NEW b \in Block
    PROVE  Informed(idx, s, UpdateBlockAvailability(idx, s, b))
<1> DEFINE t == ProcessBlockAvailability(idx, s)
           best == Better(t.best, b)
           u == UpdateBlockAvailability(idx, s, b)
<1>1. Informed(idx, s, t)
    BY ProcessBlockAvailabilityFacts
<1>2. u = IF b \in idx THEN [t EXCEPT !.best = best] ELSE [t EXCEPT !.unknown = b]
    BY DEF UpdateBlockAvailability
<1>3. t \in NodeStates /\ t.best \in idx \cup {None}
    BY <1>1 DEF Informed
<1> HIDE DEF t, u
<1>4. CASE b \in idx
  <2>1. best \in idx \cup {None} /\ best \in Block \cup {None}
    BY <1>3, <1>4 DEF Better
  <2>2. u = [t EXCEPT !.best = best]
    BY <1>2, <1>4
  <2> HIDE DEF best
  <2>3. Informed(idx, t, u)
    BY <1>3, <2>1, <2>2 DEF Informed, NodeStates
  <2> QED
    BY <1>1, <2>3 DEF Informed, u
<1>5. CASE b \notin idx
  <2>1. u = [t EXCEPT !.unknown = b]
    BY <1>2, <1>5
  <2>2. Informed(idx, t, u)
    BY <1>3, <2>1 DEF Informed, NodeStates
  <2> QED
    BY <1>1, <2>2 DEF Informed, u
<1> QED
    BY <1>4, <1>5

\* The invariant after a step that leaves the net r behind.
LEMMA InvNext ==
    ASSUME NEW r, NetOK(r), Net' = r, ChainOK', PeersOK(r.node, index', data'),
           DOMAIN r.inFlight \cap data' = {},
           nSync' = Cardinality(SyncStarted(r.node)),
           nPref' = Cardinality(PreferredDownload(r.node)),
           connects' \in 0 .. MaxConnects
    PROVE  DownloadInv'
<1>1. r.node = node' /\ r.inFlight = inFlight'
    BY DEF Net
<1> QED
    BY <1>1 DEF DownloadInv, StoredNotAwaited

LEMMA InitializeNodeInv ==
    ASSUME DownloadInv, NEW p \in Peers, InitializeNode(p)
    PROVE  DownloadInv'
<1> DEFINE nd2 == [q \in DOMAIN node \cup {p} |-> IF q = p THEN NewNode ELSE node[q]]
           r == [node |-> nd2, inFlight |-> inFlight, nQueued |-> nQueued]
<1>1. /\ ChainOK /\ NetOK(Net) /\ PeersOK(node, index, data) /\ StoredNotAwaited
      /\ nSync = Cardinality(SyncStarted(node))
      /\ nPref = Cardinality(PreferredDownload(node))
      /\ connects \in 0 .. MaxConnects
      /\ Net.node = node /\ Net.inFlight = inFlight /\ Net.nQueued = nQueued
      /\ Net \in Nets /\ RequestsOK(Net)
      /\ DOMAIN node \in SUBSET Peers
      /\ node \in [DOMAIN node -> NodeStates]
      /\ DOMAIN inFlight \in SUBSET Block
      /\ inFlight \in [DOMAIN inFlight -> Peers]
      /\ nQueued \in Int
    BY InvParts
<1>2. /\ p \notin DOMAIN node
      /\ node' = nd2 /\ inFlight' = inFlight /\ nQueued' = nQueued
      /\ UNCHANGED <<index, data, failed, tip, nSync, nPref>>
      /\ connects' = connects + Count(p \notin Honest)
      /\ p \in Honest \/ connects < MaxConnects
    BY DEF InitializeNode, chainVars
<1>3. /\ NewNode \in NodeStates /\ NewNode.queue = << >> /\ NewNode.n = 0 /\ NewNode.nValid = 0
      /\ NewNode.best = None /\ NewNode.common = None
      /\ ~ NewNode.stalling /\ ~ NewNode.sync /\ ~ NewNode.pref
    BY DEF NewNode, NodeStates
<1> HIDE DEF NewNode
<1>4. /\ DOMAIN nd2 = DOMAIN node \cup {p}
      /\ nd2 \in [DOMAIN nd2 -> NodeStates]
      /\ nd2[p] = NewNode
      /\ \A q \in DOMAIN node : q # p /\ nd2[q] = node[q]
    BY <1>1, <1>2, <1>3
<1>5. r.node = nd2 /\ r.inFlight = inFlight /\ r.nQueued = nQueued
    OBVIOUS
<1>6. Net' = r
    BY <1>2 DEF Net
<1> HIDE DEF nd2
<1>7. r \in Nets
    BY <1>1, <1>4, MakeNet
<1> HIDE DEF r
<1>8. NodeOK(p, NewNode, inFlight)
  <2>1. ToSet(<< >>) = {}
    BY DEF ToSet
  <2>2. {e \in ToSet(<< >>) : e.valid} = {}
    BY <2>1
  <2>3. Cardinality({e \in ToSet(<< >>) : e.valid}) = 0
    BY <2>2, FS_EmptySet
  <2>4. Distinct(<< >>)
    BY DEF Distinct
  <2>5. Len(<< >>) = 0
    OBVIOUS
  <2> QED
    BY <2>1, <2>3, <2>4, <2>5, <1>3 DEF NodeOK
<1>9. RequestsOK(r)
  <2>1. ASSUME NEW b \in DOMAIN inFlight
        PROVE  /\ inFlight[b] \in DOMAIN nd2
               /\ \E e \in ToSet(nd2[inFlight[b]].queue) : e.hash = b
    BY <1>1, <1>4 DEF RequestsOK
  <2>2. ASSUME NEW q \in DOMAIN nd2
        PROVE  NodeOK(q, nd2[q], inFlight)
    BY <1>1, <1>4, <1>8 DEF RequestsOK
  <2> QED
    BY <2>1, <2>2, <1>5 DEF RequestsOK
<1>10. ValidRequests(r) = ValidRequests(Net)
  <2>1. \A b \in DOMAIN inFlight : nd2[inFlight[b]] = node[inFlight[b]]
    BY <1>1, <1>4 DEF RequestsOK
  <2> QED
    BY <2>1, <1>1, <1>5 DEF ValidRequests
<1>11. NetOK(r)
    BY <1>1, <1>5, <1>7, <1>9, <1>10 DEF NetOK
<1>12. PeersOK(r.node, index', data')
  <2>1. MaxTransit \in Nat
    BY BlockDownloadAssumption
  <2> QED
    BY <1>1, <1>2, <1>3, <1>4, <1>5, <2>1 DEF PeersOK
<1>13. SyncStarted(r.node) = SyncStarted(node) /\ PreferredDownload(r.node) = PreferredDownload(node)
    BY <1>3, <1>4, <1>5 DEF SyncStarted, PreferredDownload
<1>14. ChainOK'
    BY <1>1, <1>2 DEF ChainOK
<1>15. DOMAIN r.inFlight \cap data' = {}
    BY <1>1, <1>2, <1>5 DEF StoredNotAwaited
<1>16. connects' \in 0 .. MaxConnects
    BY <1>1, <1>2, BlockDownloadAssumption DEF Count
<1> QED
    BY <1>1, <1>2, <1>6, <1>11, <1>12, <1>13, <1>14, <1>15, <1>16, InvNext

LEMMA VersionInv ==
    ASSUME DownloadInv, NEW p \in Peers, Version(p)
    PROVE  DownloadInv'
<1> DEFINE s == [node[p] EXCEPT !.up = TRUE, !.pref = (p \in Preferred)]
           r == Touched(Net, p, s)
<1>1. /\ ChainOK /\ NetOK(Net) /\ PeersOK(node, index, data) /\ StoredNotAwaited
      /\ nSync = Cardinality(SyncStarted(node))
      /\ nPref = Cardinality(PreferredDownload(node))
      /\ connects \in 0 .. MaxConnects
      /\ Net.node = node /\ Net.inFlight = inFlight /\ Net.nQueued = nQueued
      /\ Net \in Nets /\ RequestsOK(Net)
      /\ node \in [DOMAIN node -> NodeStates]
      /\ IsFiniteSet(DOMAIN node)
    BY InvParts
<1>2. /\ p \in DOMAIN node /\ ~ node[p].up
      /\ node' = [node EXCEPT ![p] = s]
      /\ inFlight' = inFlight /\ nQueued' = nQueued
      /\ UNCHANGED <<index, data, failed, tip, nSync, connects>>
      /\ nPref' = nPref + Count(p \in Preferred)
    BY DEF Version, chainVars
<1>3. node[p] \in NodeStates /\ ~ node[p].pref /\ NodeOK(p, node[p], inFlight)
    BY <1>1, <1>2 DEF PeersOK, RequestsOK
<1>5. /\ s \in NodeStates /\ s.queue = node[p].queue /\ s.n = node[p].n
      /\ s.nValid = node[p].nValid /\ s.stalling = node[p].stalling
      /\ s.best = node[p].best /\ s.common = node[p].common /\ s.sync = node[p].sync
      /\ s.pref = (p \in Preferred) /\ s.up
  <2> DEFINE st == node[p]
             preferred == p \in Preferred
  <2>1. st \in NodeStates /\ preferred \in BOOLEAN
    BY <1>3
  <2> HIDE DEF st, preferred
  <2>2. [st EXCEPT !.up = TRUE, !.pref = preferred] \in NodeStates
    BY <2>1 DEF NodeStates
  <2> QED
    BY <2>1, <2>2 DEF NodeStates, st, preferred
<1>6. Net' = r
    BY <1>1, <1>2 DEF Net, Touched
<1> HIDE DEF s
<1>7. s.stalling => s.queue # << >>
    BY <1>3, <1>5 DEF NodeOK
<1>8. /\ NetOK(r)
      /\ r.inFlight = inFlight
      /\ DOMAIN r.node = DOMAIN node
      /\ r.node[p] = s
      /\ \A q \in DOMAIN node \ {p} : r.node[q] = node[q]
    BY <1>1, <1>2, <1>5, <1>7, TouchedFacts
<1> HIDE DEF r
<1>9. PeersOK(r.node, index', data')
    BY <1>1, <1>2, <1>5, <1>8 DEF PeersOK
<1>10. SyncStarted(r.node) = SyncStarted(node)
    BY <1>5, <1>8 DEF SyncStarted
<1>11. nPref' = Cardinality(PreferredDownload(r.node))
  <2> DEFINE S == PreferredDownload(node)
  <2>1. S \in SUBSET (DOMAIN node) /\ p \notin S
    BY <1>3 DEF PreferredDownload
  <2>2. IsFiniteSet(S)
    BY <2>1, <1>1, FS_Subset
  <2>3. /\ p \in Preferred => PreferredDownload(r.node) = S \cup {p}
        /\ p \notin Preferred => PreferredDownload(r.node) = S
    BY <1>2, <1>3, <1>5, <1>8 DEF PreferredDownload
  <2> HIDE DEF S
  <2>4. Cardinality(S) \in Nat /\ Cardinality(S \cup {p}) = Cardinality(S) + 1
    BY <2>1, <2>2, CountedPeers
  <2>5. nPref = Cardinality(S)
    BY <1>1 DEF S
  <2>6. nPref' = nPref + Count(p \in Preferred)
    BY <1>2
  <2>7. CASE p \in Preferred
    <3>1. Count(p \in Preferred) = 1
        BY <2>7 DEF Count
    <3> QED
        BY <2>3, <2>4, <2>5, <2>6, <2>7, <3>1
  <2>8. CASE p \notin Preferred
    <3>1. Count(p \in Preferred) = 0
        BY <2>8 DEF Count
    <3> QED
        BY <2>3, <2>4, <2>5, <2>6, <2>8, <3>1
  <2> QED
    BY <2>7, <2>8
<1>12. ChainOK'
    BY <1>1, <1>2 DEF ChainOK
<1>13. DOMAIN r.inFlight \cap data' = {}
    BY <1>1, <1>2, <1>8 DEF StoredNotAwaited
<1> QED
    BY <1>1, <1>2, <1>6, <1>8, <1>9, <1>10, <1>11, <1>12, <1>13, InvNext

LEMMA FinalizeNodeInv ==
    ASSUME DownloadInv, NEW p \in Peers, FinalizeNode(p)
    PROVE  DownloadInv'
<1> DEFINE nd2 == [q \in DOMAIN node \ {p} |-> node[q]]
           fl2 == [b \in DOMAIN inFlight \ Released(p) |-> inFlight[b]]
           r == [node |-> nd2, inFlight |-> fl2, nQueued |-> nQueued]
<1>1. /\ ChainOK /\ NetOK(Net) /\ PeersOK(node, index, data) /\ StoredNotAwaited
      /\ nSync = Cardinality(SyncStarted(node))
      /\ nPref = Cardinality(PreferredDownload(node))
      /\ connects \in 0 .. MaxConnects
      /\ Net.node = node /\ Net.inFlight = inFlight /\ Net.nQueued = nQueued
      /\ Net \in Nets /\ RequestsOK(Net)
      /\ DOMAIN node \in SUBSET Peers
      /\ IsFiniteSet(DOMAIN node)
      /\ node \in [DOMAIN node -> NodeStates]
      /\ DOMAIN inFlight \in SUBSET Block
      /\ inFlight \in [DOMAIN inFlight -> Peers]
      /\ nQueued \in Int
    BY InvParts
<1>2. /\ p \in DOMAIN node
      /\ node' = nd2 /\ inFlight' = fl2 /\ nQueued' = nQueued
      /\ UNCHANGED <<index, data, failed, tip, connects>>
      /\ nSync' = nSync - Count(node[p].sync)
      /\ nPref' = nPref - Count(node[p].pref)
    BY DEF FinalizeNode, chainVars
<1>3. /\ DOMAIN nd2 = DOMAIN node \ {p}
      /\ nd2 \in [DOMAIN nd2 -> NodeStates]
      /\ \A q \in DOMAIN nd2 : nd2[q] = node[q]
    BY <1>1
<1>4. /\ DOMAIN fl2 = DOMAIN inFlight \ Released(p)
      /\ fl2 \in [DOMAIN fl2 -> Peers]
      /\ \A b \in DOMAIN fl2 : fl2[b] = inFlight[b]
    BY <1>1
<1>5. r.node = nd2 /\ r.inFlight = fl2 /\ r.nQueued = nQueued
    OBVIOUS
<1>6. Net' = r
    BY <1>2 DEF Net
<1> HIDE DEF nd2, fl2
<1>7. r \in Nets
  <2>1. DOMAIN nd2 \subseteq Peers /\ DOMAIN fl2 \subseteq Block
    BY <1>1, <1>3, <1>4
  <2> QED
    BY <2>1, <1>1, <1>3, <1>4, MakeNet
<1> HIDE DEF r
<1>8. \A q \in DOMAIN node : NodeOK(q, node[q], inFlight)
    BY <1>1 DEF RequestsOK
<1>9. ASSUME NEW b \in DOMAIN fl2
      PROVE  /\ inFlight[b] \in DOMAIN nd2
             /\ \E e \in ToSet(node[inFlight[b]].queue) : e.hash = b
  <2>1. b \in DOMAIN inFlight /\ b \notin Released(p)
    BY <1>4
  <2>2. /\ inFlight[b] \in DOMAIN node
        /\ \E e \in ToSet(node[inFlight[b]].queue) : e.hash = b
    BY <2>1, <1>1 DEF RequestsOK
  <2>3. inFlight[b] # p
    BY <2>1, <2>2 DEF Released
  <2> QED
    BY <2>2, <2>3, <1>3
<1>10. ASSUME NEW q \in DOMAIN nd2
       PROVE  NodeOK(q, node[q], fl2)
  <2>1. NodeOK(q, node[q], inFlight) /\ q # p
    BY <1>3, <1>8
  <2>2. ASSUME NEW e \in ToSet(node[q].queue)
        PROVE  e.hash \in DOMAIN fl2 /\ fl2[e.hash] = q
    <3>1. e.hash \in DOMAIN inFlight /\ inFlight[e.hash] = q
        BY <2>1 DEF NodeOK
    <3>2. \A x \in Released(p) : inFlight[x] = p
        BY <1>2, <1>8 DEF Released, NodeOK
    <3>3. e.hash \notin Released(p)
        BY <3>1, <3>2, <2>1
    <3> QED
        BY <3>1, <3>3, <1>4
  <2> QED
    BY <2>1, <2>2 DEF NodeOK
<1>11. RequestsOK(r)
    BY <1>3, <1>4, <1>5, <1>9, <1>10 DEF RequestsOK
<1>12. r.nQueued >= Cardinality(ValidRequests(r))
  <2>1. ValidRequests(r) \in SUBSET ValidRequests(Net)
    BY <1>1, <1>3, <1>4, <1>5, <1>9 DEF ValidRequests
  <2>2. /\ IsFiniteSet(ValidRequests(Net)) /\ Cardinality(ValidRequests(Net)) \in Nat
        /\ Cardinality(ValidRequests(r)) \in Nat
    BY <1>1, <1>7, ValidRequestsFinite
  <2>3. Cardinality(ValidRequests(r)) <= Cardinality(ValidRequests(Net))
    BY <2>1, <2>2, FS_Subset
  <2>4. nQueued >= Cardinality(ValidRequests(Net))
    BY <1>1 DEF NetOK
  <2> QED
    BY <2>2, <2>3, <2>4, <1>1, <1>5
<1>13. NetOK(r)
    BY <1>7, <1>11, <1>12 DEF NetOK
<1>14. PeersOK(r.node, index', data')
    BY <1>1, <1>2, <1>3, <1>5 DEF PeersOK
<1>15. nSync' = Cardinality(SyncStarted(r.node))
  <2> DEFINE S == SyncStarted(node)
  <2>1. S \in SUBSET (DOMAIN node) /\ (p \in S <=> node[p].sync)
    BY <1>2 DEF SyncStarted
  <2>2. IsFiniteSet(S)
    BY <2>1, <1>1, FS_Subset
  <2>3. SyncStarted(r.node) = S \ {p}
    BY <1>3, <1>5 DEF SyncStarted
  <2> HIDE DEF S
  <2>4. /\ Cardinality(S) \in Nat
        /\ p \in S => Cardinality(S \ {p}) = Cardinality(S) - 1
    BY <2>2, CountedPeers
  <2>5. nSync' = Cardinality(S) - Count(node[p].sync)
    BY <1>1, <1>2 DEF S
  <2>6. CASE p \in S
    <3>1. Count(node[p].sync) = 1
        BY <2>1, <2>6 DEF Count
    <3> QED
        BY <2>3, <2>4, <2>5, <2>6, <3>1
  <2>7. CASE p \notin S
    <3>1. Count(node[p].sync) = 0 /\ S \ {p} = S
        BY <2>1, <2>7 DEF Count
    <3> QED
        BY <2>3, <2>4, <2>5, <3>1
  <2> QED
    BY <2>6, <2>7
<1>16. nPref' = Cardinality(PreferredDownload(r.node))
  <2> DEFINE S == PreferredDownload(node)
  <2>1. S \in SUBSET (DOMAIN node) /\ (p \in S <=> node[p].pref)
    BY <1>2 DEF PreferredDownload
  <2>2. IsFiniteSet(S)
    BY <2>1, <1>1, FS_Subset
  <2>3. PreferredDownload(r.node) = S \ {p}
    BY <1>3, <1>5 DEF PreferredDownload
  <2> HIDE DEF S
  <2>4. /\ Cardinality(S) \in Nat
        /\ p \in S => Cardinality(S \ {p}) = Cardinality(S) - 1
    BY <2>2, CountedPeers
  <2>5. nPref' = Cardinality(S) - Count(node[p].pref)
    BY <1>1, <1>2 DEF S
  <2>6. CASE p \in S
    <3>1. Count(node[p].pref) = 1
        BY <2>1, <2>6 DEF Count
    <3> QED
        BY <2>3, <2>4, <2>5, <2>6, <3>1
  <2>7. CASE p \notin S
    <3>1. Count(node[p].pref) = 0 /\ S \ {p} = S
        BY <2>1, <2>7 DEF Count
    <3> QED
        BY <2>3, <2>4, <2>5, <3>1
  <2> QED
    BY <2>6, <2>7
<1>17. ChainOK'
    BY <1>1, <1>2 DEF ChainOK
<1>18. DOMAIN r.inFlight \cap data' = {}
    BY <1>1, <1>2, <1>4, <1>5 DEF StoredNotAwaited
<1> QED
    BY <1>1, <1>2, <1>6, <1>13, <1>14, <1>15, <1>16, <1>17, <1>18, InvNext

LEMMA HeadersInv ==
    ASSUME DownloadInv, NEW p \in Peers, NEW b \in Block, NEW from \in Block, Headers(p, b, from)
    PROVE  DownloadInv'
<1> DEFINE st == [node[p] EXCEPT !.owes = FALSE]
           sent == Ancestry[b] \ Ancestry[from]
           misfit == (from \notin index \/ from \in failed)
                     /\ \E a \in sent : Parent[a] = from /\ a \notin index
           refused == IF misfit THEN sent
                      ELSE {a \in sent : sent \cap Ancestry[a] \cap failed # {}}
           idx == index \cup (sent \ refused)
           told == UpdateBlockAvailability(idx, st, b)
           ban == st.ban \/ misfit
           s == IF refused = {} THEN told ELSE [st EXCEPT !.ban = ban]
           r == Touched(Net, p, s)
<1>1. /\ ChainOK /\ NetOK(Net) /\ PeersOK(node, index, data) /\ StoredNotAwaited
      /\ nSync = Cardinality(SyncStarted(node))
      /\ nPref = Cardinality(PreferredDownload(node))
      /\ connects \in 0 .. MaxConnects
      /\ Net.node = node /\ Net.inFlight = inFlight /\ Net.nQueued = nQueued
      /\ Net \in Nets /\ RequestsOK(Net)
      /\ node \in [DOMAIN node -> NodeStates]
    BY InvParts
<1>2. /\ p \in DOMAIN node
      /\ index' = idx
      /\ node' = [node EXCEPT ![p] = s]
      /\ inFlight' = inFlight /\ nQueued' = nQueued
      /\ UNCHANGED <<data, failed, tip, nSync, nPref, connects>>
    BY DEF Headers, Handles
<1>3. /\ st \in NodeStates /\ NodeOK(p, st, inFlight)
      /\ st.best \in index \cup {None}
      /\ st.queue = node[p].queue /\ st.n = node[p].n /\ st.nValid = node[p].nValid
      /\ st.stalling = node[p].stalling /\ st.common = node[p].common
      /\ st.sync = node[p].sync /\ st.pref = node[p].pref /\ st.up = node[p].up
  <2>1. node[p] \in NodeStates /\ NodeOK(p, node[p], inFlight) /\ node[p].best \in index \cup {None}
    BY <1>1, <1>2 DEF PeersOK, RequestsOK
  <2> QED
    BY <2>1 DEF NodeStates, NodeOK
<1>4. idx \in SUBSET Block /\ index \subseteq idx
    BY <1>1, BlockTreeFacts DEF ChainOK
<1>5. Net' = r
    BY <1>1, <1>2 DEF Net, Touched
<1> HIDE DEF idx, refused, misfit
<1>6. Informed(idx, st, told)
    BY <1>3, <1>4, UpdateBlockAvailabilityFacts
<1> HIDE DEF told, st
<1>7. /\ s \in NodeStates /\ s.queue = st.queue /\ s.n = st.n
      /\ s.nValid = st.nValid /\ s.stalling = st.stalling
      /\ s.best \in idx \cup {None} /\ s.common = st.common /\ s.sync = st.sync
      /\ s.pref = st.pref /\ s.up = st.up
  <2>1. CASE refused = {}
    BY <2>1, <1>6 DEF Informed
  <2>2. CASE refused # {}
    <3>1. s = [st EXCEPT !.ban = ban] /\ ban \in BOOLEAN
        BY <2>2
    <3> HIDE DEF s, ban
    <3> QED
        BY <3>1, <1>3, <1>4 DEF NodeStates
  <2> QED
    BY <2>1, <2>2
<1> HIDE DEF s
<1>8. s.stalling => s.queue # << >>
    BY <1>3, <1>7 DEF NodeOK
<1>9. /\ NetOK(r)
      /\ r.inFlight = inFlight
      /\ DOMAIN r.node = DOMAIN node
      /\ r.node[p] = s
      /\ \A q \in DOMAIN node \ {p} : r.node[q] = node[q]
    BY <1>1, <1>2, <1>3, <1>7, <1>8, TouchedFacts
<1> HIDE DEF r
<1>10. PeersOK(r.node, index', data')
    BY <1>1, <1>2, <1>3, <1>4, <1>7, <1>9 DEF PeersOK
<1>11. /\ SyncStarted(r.node) = SyncStarted(node)
       /\ PreferredDownload(r.node) = PreferredDownload(node)
    BY <1>2, <1>3, <1>7, <1>9 DEF SyncStarted, PreferredDownload
<1>12. ChainOK'
    BY <1>1, <1>2, <1>4 DEF ChainOK
<1>13. DOMAIN r.inFlight \cap data' = {}
    BY <1>1, <1>2, <1>9 DEF StoredNotAwaited
<1> QED
    BY <1>1, <1>2, <1>5, <1>9, <1>10, <1>11, <1>12, <1>13, InvNext

LEMMA InvMessageInv ==
    ASSUME DownloadInv, NEW p \in Peers, NEW b \in Block, NEW recent \in BOOLEAN,
           Inv(p, b, recent)
    PROVE  DownloadInv'
<1> DEFINE new == b \notin index /\ b \notin DOMAIN inFlight
           st == node[p]
           told == UpdateBlockAvailability(index, st, b)
           s == [told EXCEPT !.owes = @ \/ new]
           net == Touched(Net, p, s)
           asks == new /\ recent /\ node[p].n < MaxTransit
           r == IF asks THEN MarkBlockAsInFlight(net, p, b, FALSE) ELSE net
<1>1. /\ ChainOK /\ NetOK(Net) /\ PeersOK(node, index, data) /\ StoredNotAwaited
      /\ nSync = Cardinality(SyncStarted(node))
      /\ nPref = Cardinality(PreferredDownload(node))
      /\ connects \in 0 .. MaxConnects
      /\ Net.node = node /\ Net.inFlight = inFlight /\ Net.nQueued = nQueued
      /\ Net \in Nets /\ RequestsOK(Net)
      /\ node \in [DOMAIN node -> NodeStates]
    BY InvParts
<1>2. /\ p \in DOMAIN node
      /\ UNCHANGED <<index, data, failed, tip, nSync, nPref, connects>>
    BY DEF Inv, Handles, chainVars
<1>3. SetNet(r)
  <2>1. [Net EXCEPT !.node = [node EXCEPT ![p] = s]] = net
    BY DEF Net, Touched
  <2>2. SetNet(IF asks THEN MarkBlockAsInFlight([Net EXCEPT !.node = [node EXCEPT ![p] = s]], p, b, FALSE)
               ELSE [Net EXCEPT !.node = [node EXCEPT ![p] = s]])
    BY DEF Inv
  <2> HIDE DEF net, s
  <2> QED
    BY <2>1, <2>2
<1>4. /\ st \in NodeStates /\ NodeOK(p, st, inFlight)
      /\ st.best \in index \cup {None}
    BY <1>1, <1>2 DEF PeersOK, RequestsOK
<1>5. Informed(index, st, told)
  <2>1. index \in SUBSET Block
    BY <1>1 DEF ChainOK
  <2> QED
    BY <2>1, <1>4, UpdateBlockAvailabilityFacts
<1> HIDE DEF told, st, new
<1>6. /\ s \in NodeStates /\ s.queue = st.queue /\ s.n = st.n
      /\ s.nValid = st.nValid /\ s.stalling = st.stalling
      /\ s.best \in index \cup {None} /\ s.common = st.common /\ s.sync = st.sync
      /\ s.pref = st.pref /\ s.up = st.up
  <2> DEFINE owes == told.owes \/ new
  <2>1. s = [told EXCEPT !.owes = owes] /\ owes \in BOOLEAN
    BY DEF new
  <2> HIDE DEF s, owes
  <2> QED
    BY <2>1, <1>5 DEF Informed, NodeStates
<1> HIDE DEF s
<1>7. s.stalling => s.queue # << >>
    BY <1>4, <1>6 DEF NodeOK
<1>8. /\ NetOK(net)
      /\ net.inFlight = inFlight
      /\ DOMAIN net.node = DOMAIN node
      /\ net.node[p] = s
      /\ \A q \in DOMAIN node \ {p} : net.node[q] = node[q]
    BY <1>1, <1>2, <1>6, <1>7, TouchedFacts DEF st
<1> HIDE DEF net
<1>9. PeersOK(net.node, index, data)
    BY <1>1, <1>2, <1>6, <1>8 DEF PeersOK, st
<1>10. /\ SyncStarted(net.node) = SyncStarted(node)
       /\ PreferredDownload(net.node) = PreferredDownload(node)
    BY <1>2, <1>6, <1>8 DEF SyncStarted, PreferredDownload, st
<1>11. ChainOK'
    BY <1>1, <1>2 DEF ChainOK
<1>12. CASE ~ asks
  <2>1. r = net
    BY <1>12
  <2>2. Net' = net
    BY <2>1, <1>3, <1>8, SetNetFacts DEF NetOK
  <2>3. DOMAIN net.inFlight \cap data' = {}
    BY <1>1, <1>2, <1>8 DEF StoredNotAwaited
  <2> QED
    BY <2>2, <2>3, <1>1, <1>2, <1>8, <1>9, <1>10, <1>11, InvNext
<1>13. CASE asks
  <2>1. r = MarkBlockAsInFlight(net, p, b, FALSE)
    BY <1>13
  <2>2. IsMarked(net, r, DOMAIN net.inFlight \cup {b}, {p})
    BY <2>1, <1>2, <1>8, MarkBlockAsInFlightFacts
  <2> HIDE DEF r
  <2>3. /\ NetOK(r) /\ Keeps(net, r)
        /\ DOMAIN r.inFlight = DOMAIN net.inFlight \cup {b}
        /\ \A q \in DOMAIN net.node : r.node[q].n <= net.node[q].n + Count(q \in {p})
    BY <2>2 DEF IsMarked
  <2>4. Net' = r
    BY <2>3, <1>3, SetNetFacts DEF NetOK
  <2>5. DOMAIN r.node = DOMAIN net.node /\ \A q \in DOMAIN net.node : Same(net.node[q], r.node[q])
    BY <2>3 DEF Keeps
  <2>6. ASSUME NEW q \in DOMAIN net.node
        PROVE  r.node[q].n <= MaxTransit
    <3>1. net \in Nets /\ r \in Nets
        BY <1>8, <2>3 DEF NetOK
    <3>2. /\ net.node \in [DOMAIN net.node -> NodeStates]
          /\ r.node \in [DOMAIN r.node -> NodeStates]
        BY <3>1, NetTypes
    <3>3. net.node[q].n \in Int /\ r.node[q].n \in Int /\ MaxTransit \in Int
        BY <3>2, <2>5, BlockDownloadAssumption DEF NodeStates
    <3>4. net.node[q].n <= MaxTransit
        BY <1>9 DEF PeersOK
    <3>5. q = p => net.node[q].n < MaxTransit
        BY <1>13, <1>6, <1>8 DEF st
    <3>6. r.node[q].n <= net.node[q].n + Count(q \in {p})
        BY <2>3
    <3>7. CASE q = p
      <4>1. Count(q \in {p}) = 1
        BY <3>7 DEF Count
      <4> QED
        BY <4>1, <3>3, <3>5, <3>6, <3>7
    <3>8. CASE q # p
      <4>1. Count(q \in {p}) = 0
        BY <3>8 DEF Count
      <4> QED
        BY <4>1, <3>3, <3>4, <3>6
    <3> QED
        BY <3>7, <3>8
  <2>7. PeersOK(r.node, index', data')
    BY <2>5, <2>6, <1>2, <1>9 DEF PeersOK, Same
  <2>8. /\ SyncStarted(r.node) = SyncStarted(node)
        /\ PreferredDownload(r.node) = PreferredDownload(node)
    BY <2>5, <1>10 DEF SyncStarted, PreferredDownload, Same
  <2>9. DOMAIN r.inFlight \cap data' = {}
    <3>1. b \notin data
        BY <1>1, <1>13 DEF new, ChainOK
    <3> QED
        BY <3>1, <2>3, <1>1, <1>2, <1>8 DEF StoredNotAwaited
  <2> QED
    BY <2>3, <2>4, <2>7, <2>8, <2>9, <1>1, <1>2, <1>11, InvNext
<1> QED
    BY <1>12, <1>13

\* A block that arrives is no longer waited for; a peer that misbehaves is
\* marked.
LEMMA ArrivalFacts ==
    ASSUME DownloadInv, NEW p \in DOMAIN node, NEW b \in Block, NEW r,
           \/ r = MarkBlockAsReceived(Net, b)
           \/ r = Misbehaving(MarkBlockAsReceived(Net, b), p)
    PROVE  /\ NetOK(r)
           /\ DOMAIN r.inFlight = DOMAIN inFlight \ {b}
           /\ DOMAIN r.node = DOMAIN node
           /\ PeersOK(r.node, index, data)
           /\ SyncStarted(r.node) = SyncStarted(node)
           /\ PreferredDownload(r.node) = PreferredDownload(node)
<1> DEFINE net == MarkBlockAsReceived(Net, b)
<1>1. /\ NetOK(Net) /\ PeersOK(node, index, data)
      /\ Net.node = node /\ Net.inFlight = inFlight
      /\ node \in [DOMAIN node -> NodeStates]
    BY InvParts
<1>2. IsMarked(Net, net, DOMAIN inFlight \ {b}, {})
    BY <1>1, MarkBlockAsReceivedFacts
<1> HIDE DEF net
<1>3. /\ NetOK(net) /\ Keeps(Net, net)
      /\ DOMAIN net.inFlight = DOMAIN inFlight \ {b}
      /\ \A q \in DOMAIN node : net.node[q].n <= node[q].n + Count(q \in {})
    BY <1>1, <1>2 DEF IsMarked
<1>4. DOMAIN net.node = DOMAIN node /\ \A q \in DOMAIN node : Same(node[q], net.node[q])
    BY <1>1, <1>3 DEF Keeps
<1>5. net \in Nets /\ RequestsOK(net)
    BY <1>3 DEF NetOK
<1>6. net.node \in [DOMAIN net.node -> NodeStates]
    BY <1>5, NetTypes
<1>7. ASSUME NEW q \in DOMAIN node
      PROVE  net.node[q].n <= MaxTransit
  <2>1. net.node[q].n \in Int /\ node[q].n \in Int /\ MaxTransit \in Int
    BY <1>1, <1>4, <1>6, BlockDownloadAssumption DEF NodeStates
  <2>2. node[q].n <= MaxTransit /\ net.node[q].n <= node[q].n + Count(q \in {})
    BY <1>1, <1>3 DEF PeersOK
  <2>3. Count(q \in {}) = 0
    BY DEF Count
  <2> QED
    BY <2>1, <2>2, <2>3
<1>8. PeersOK(net.node, index, data)
    BY <1>1, <1>4, <1>7 DEF PeersOK, Same
<1>9. /\ SyncStarted(net.node) = SyncStarted(node)
      /\ PreferredDownload(net.node) = PreferredDownload(node)
    BY <1>4 DEF SyncStarted, PreferredDownload, Same
<1>10. CASE r = net
    BY <1>3, <1>4, <1>8, <1>9, <1>10
<1>11. CASE r = Misbehaving(net, p)
  <2> DEFINE st == net.node[p]
             s == [st EXCEPT !.ban = TRUE]
  <2>1. net = [node |-> net.node, inFlight |-> net.inFlight, nQueued |-> net.nQueued]
    BY <1>5 DEF Nets
  <2>2. r = Touched(net, p, s)
    BY <2>1, <1>11 DEF Misbehaving, Touched
  <2>3. st \in NodeStates /\ NodeOK(p, st, net.inFlight)
    BY <1>4, <1>5, <1>6 DEF RequestsOK
  <2> HIDE DEF st
  <2>4. /\ s \in NodeStates /\ s.queue = st.queue /\ s.n = st.n
        /\ s.nValid = st.nValid /\ s.stalling = st.stalling
        /\ s.best = st.best /\ s.common = st.common /\ s.sync = st.sync
        /\ s.pref = st.pref /\ s.up = st.up
    BY <2>3 DEF NodeStates
  <2> HIDE DEF s
  <2>5. s.stalling => s.queue # << >>
    BY <2>3, <2>4 DEF NodeOK
  <2>6. /\ NetOK(r)
        /\ r.inFlight = net.inFlight
        /\ DOMAIN r.node = DOMAIN net.node
        /\ r.node[p] = s
        /\ \A q \in DOMAIN net.node \ {p} : r.node[q] = net.node[q]
    BY <2>2, <2>4, <2>5, <1>3, <1>4, TouchedFacts DEF st
  <2>7. PeersOK(r.node, index, data)
    BY <2>4, <2>6, <1>4, <1>8 DEF PeersOK, st
  <2>8. /\ SyncStarted(r.node) = SyncStarted(node)
        /\ PreferredDownload(r.node) = PreferredDownload(node)
    BY <2>4, <2>6, <1>4, <1>9 DEF SyncStarted, PreferredDownload, st
  <2> QED
    BY <2>6, <2>7, <2>8, <1>3, <1>4
<1> QED
    BY <1>10, <1>11 DEF net

LEMMA CorruptBlockInv ==
    ASSUME DownloadInv, NEW p \in Peers, NEW b \in Block, CorruptBlock(p, b)
    PROVE  DownloadInv'
<1> DEFINE r == Misbehaving(MarkBlockAsReceived(Net, b), p)
<1>1. /\ ChainOK /\ StoredNotAwaited
      /\ nSync = Cardinality(SyncStarted(node))
      /\ nPref = Cardinality(PreferredDownload(node))
      /\ connects \in 0 .. MaxConnects
    BY InvParts
<1>2. /\ p \in DOMAIN node /\ SetNet(r)
      /\ UNCHANGED <<index, data, failed, tip, nSync, nPref, connects>>
    BY DEF CorruptBlock, Handles, chainVars
<1>3. /\ NetOK(r)
      /\ DOMAIN r.inFlight = DOMAIN inFlight \ {b}
      /\ PeersOK(r.node, index, data)
      /\ SyncStarted(r.node) = SyncStarted(node)
      /\ PreferredDownload(r.node) = PreferredDownload(node)
    BY <1>2, ArrivalFacts
<1> HIDE DEF r
<1>4. Net' = r
    BY <1>2, <1>3, SetNetFacts DEF NetOK
<1>5. ChainOK'
    BY <1>1, <1>2 DEF ChainOK
<1>6. DOMAIN r.inFlight \cap data' = {}
    BY <1>1, <1>2, <1>3 DEF StoredNotAwaited
<1> QED
    BY <1>1, <1>2, <1>3, <1>4, <1>5, <1>6, InvNext

\* ActivateBestChain leaves the tip on a chain that is stored.
LEMMA ActivateFacts ==
    ASSUME ChainOK, index \subseteq index', index' \subseteq Block,
           data \subseteq data', data' \subseteq index', Activate(data', failed)
    PROVE  ChainOK'
<1> DEFINE candidates == {b \in data' \ failed : /\ Ancestry[b] \subseteq data'
                                                 /\ Depth[b] > Depth[tip]}
           good == {b \in candidates : Ancestry[b] \cap Bad = {}}
<1>1. PICK best \in IF good = {} THEN {tip} ELSE Deepest(good),
           even \in SUBSET (candidates \ good) :
         LET tried == {b \in candidates \ good :
                         \/ Depth[b] > Depth[best]
                         \/ (Depth[b] = Depth[best] /\ b \in even)}
         IN  /\ tip' = best
             /\ failed' = failed \cup {a \in UNION {Ancestry[b] : b \in tried} :
                                         Ancestry[a] \cap Bad # {}}
    BY DEF Activate
<1>2. failed' \subseteq index'
  <2>1. \A a \in failed' : a \in failed \/ \E b \in candidates : a \in Ancestry[b]
    BY <1>1
  <2> QED
    BY <2>1 DEF ChainOK
<1>3. tip' = tip \/ tip' \in candidates
    BY <1>1 DEF Deepest
<1>4. tip' \in index' /\ Ancestry[tip'] \subseteq data'
    BY <1>3 DEF ChainOK
<1> QED
    BY <1>2, <1>4 DEF ChainOK

LEMMA NewBlockInv ==
    ASSUME DownloadInv, NEW p \in Peers, NEW b \in Block, NEW synced \in BOOLEAN,
           NewBlock(p, b, synced)
    PROVE  DownloadInv'
<1> DEFINE orphan == b \notin index /\ (Parent[b] \notin index \/ Parent[b] \in failed)
           net == MarkBlockAsReceived(Net, b)
           r == IF orphan \/ b \in Bad \cap (failed' \ failed) THEN Misbehaving(net, p) ELSE net
<1>1. /\ ChainOK /\ StoredNotAwaited
      /\ nSync = Cardinality(SyncStarted(node))
      /\ nPref = Cardinality(PreferredDownload(node))
      /\ connects \in 0 .. MaxConnects
    BY InvParts
<1>2. /\ p \in DOMAIN node
      /\ UNCHANGED <<nSync, nPref, connects>>
    BY DEF NewBlock, Handles
<1>3. SetNet(r)
    BY DEF NewBlock
<1>4. /\ NetOK(r)
      /\ DOMAIN r.inFlight = DOMAIN inFlight \ {b}
      /\ PeersOK(r.node, index, data)
      /\ SyncStarted(r.node) = SyncStarted(node)
      /\ PreferredDownload(r.node) = PreferredDownload(node)
  <2>1. r = net \/ r = Misbehaving(net, p)
    OBVIOUS
  <2> HIDE DEF r
  <2> QED
    BY <2>1, <1>2, ArrivalFacts
<1> HIDE DEF r
<1>5. Net' = r
    BY <1>3, <1>4, SetNetFacts DEF NetOK
<1>6. /\ ChainOK'
      /\ index \subseteq index' /\ data \subseteq data' /\ data' \subseteq data \cup {b}
  <2>1. CASE orphan \/ b \in failed
    <3>1. UNCHANGED <<index, data, failed, tip>>
        BY <2>1 DEF NewBlock, chainVars
    <3> QED
        BY <3>1, <1>1 DEF ChainOK
  <2>2. CASE ~ (orphan \/ b \in failed)
    <3>1. /\ index' = index \cup {b}
          /\ data' = data \/ data' = data \cup {b}
          /\ Activate(data', failed)
        BY <2>2 DEF NewBlock
    <3>2. /\ index \subseteq index' /\ index' \subseteq Block
          /\ data \subseteq data' /\ data' \subseteq index'
        BY <3>1, <1>1 DEF ChainOK
    <3>3. ChainOK'
        BY <3>1, <3>2, <1>1, ActivateFacts
    <3> QED
        BY <3>1, <3>2, <3>3
  <2> QED
    BY <2>1, <2>2
<1>7. PeersOK(r.node, index', data')
    BY <1>4, <1>6 DEF PeersOK
<1>8. DOMAIN r.inFlight \cap data' = {}
    BY <1>1, <1>4, <1>6 DEF StoredNotAwaited
<1> QED
    BY <1>1, <1>2, <1>4, <1>5, <1>6, <1>7, <1>8, InvNext

\* SendMessages first settles the state of the peer itself: the header sync,
\* the last common block, the score.
LEMMA SettledFacts ==
    ASSUME DownloadInv, NEW p \in DOMAIN node, NEW s \in NodeStates, NEW start \in BOOLEAN,
           s.queue = node[p].queue, s.n = node[p].n, s.nValid = node[p].nValid,
           s.stalling = node[p].stalling, s.pref = node[p].pref, s.up = node[p].up,
           s.best \in index \cup {None},
           s.common # None => Ancestry[s.common] \subseteq data,
           start => s.sync /\ ~ node[p].sync,
           ~ start => s.sync = node[p].sync
    PROVE  /\ NetOK(Touched(Net, p, s))
           /\ Touched(Net, p, s).inFlight = inFlight
           /\ DOMAIN Touched(Net, p, s).node = DOMAIN node
           /\ Touched(Net, p, s).node[p] = s
           /\ PeersOK(Touched(Net, p, s).node, index, data)
           /\ Cardinality(SyncStarted(Touched(Net, p, s).node)) = nSync + Count(start)
           /\ PreferredDownload(Touched(Net, p, s).node) = PreferredDownload(node)
<1> DEFINE r == Touched(Net, p, s)
<1>1. /\ NetOK(Net) /\ PeersOK(node, index, data) /\ RequestsOK(Net)
      /\ nSync = Cardinality(SyncStarted(node))
      /\ Net.node = node /\ Net.inFlight = inFlight
      /\ IsFiniteSet(DOMAIN node)
      /\ node \in [DOMAIN node -> NodeStates]
    BY InvParts
<1>2. NodeOK(p, node[p], inFlight)
    BY <1>1 DEF RequestsOK
<1>3. s.stalling => s.queue # << >>
    BY <1>2 DEF NodeOK
<1>4. /\ NetOK(r)
      /\ r.inFlight = inFlight
      /\ DOMAIN r.node = DOMAIN node
      /\ r.node[p] = s
      /\ \A q \in DOMAIN node \ {p} : r.node[q] = node[q]
    BY <1>1, <1>3, TouchedFacts
<1> HIDE DEF r
<1>5. PeersOK(r.node, index, data)
    BY <1>1, <1>4 DEF PeersOK
<1>6. PreferredDownload(r.node) = PreferredDownload(node)
    BY <1>4 DEF PreferredDownload
<1>7. Cardinality(SyncStarted(r.node)) = nSync + Count(start)
  <2> DEFINE S == SyncStarted(node)
  <2>1. S \in SUBSET (DOMAIN node) /\ (p \in S <=> node[p].sync)
    BY DEF SyncStarted
  <2>2. IsFiniteSet(S)
    BY <2>1, <1>1, FS_Subset
  <2>3. CASE start
    <3>1. SyncStarted(r.node) = S \cup {p} /\ p \notin S
        BY <2>1, <2>3, <1>4 DEF SyncStarted
    <3>2. Count(start) = 1
        BY <2>3 DEF Count
    <3> HIDE DEF S
    <3>3. Cardinality(S \cup {p}) = Cardinality(S) + 1
        BY <2>2, <3>1, CountedPeers
    <3> QED
        BY <3>1, <3>2, <3>3, <1>1 DEF S
  <2>4. CASE ~ start
    <3>1. SyncStarted(r.node) = S
        BY <2>1, <2>4, <1>4 DEF SyncStarted
    <3>2. Count(start) = 0
        BY <2>4 DEF Count
    <3> HIDE DEF S
    <3>3. Cardinality(S) \in Nat
        BY <2>2, CountedPeers
    <3> QED
        BY <3>1, <3>2, <3>3, <1>1 DEF S
  <2> QED
    BY <2>3, <2>4
<1> QED
    BY <1>4, <1>5, <1>6, <1>7 DEF r

\* The peer in the way of the window is marked.
LEMMA StallerFacts ==
    ASSUME NEW net, NetOK(net), PeersOK(net.node, index, data),
           NEW b \in DOMAIN net.inFlight, NEW q, q = net.inFlight[b],
           NEW slow, slow = [net.node[q] EXCEPT !.stalling = TRUE]
    PROVE  /\ NetOK(Touched(net, q, slow))
           /\ Touched(net, q, slow).inFlight = net.inFlight
           /\ PeersOK(Touched(net, q, slow).node, index, data)
           /\ SyncStarted(Touched(net, q, slow).node) = SyncStarted(net.node)
           /\ PreferredDownload(Touched(net, q, slow).node) = PreferredDownload(net.node)
<1> DEFINE st == net.node[q]
           r == Touched(net, q, slow)
<1>1. net \in Nets /\ RequestsOK(net)
    BY DEF NetOK
<1>2. net.node \in [DOMAIN net.node -> NodeStates]
    BY ONLY <1>1, NetTypes
<1> HIDE DEF r
<1>0. NetOK(net) /\ PeersOK(net.node, index, data) /\ b \in DOMAIN net.inFlight /\ q = net.inFlight[b]
    OBVIOUS
<1>3. q \in DOMAIN net.node /\ \E e \in ToSet(st.queue) : e.hash = b
    BY ONLY <1>0, <1>1 DEF RequestsOK
<1>4. st \in NodeStates /\ NodeOK(q, st, net.inFlight)
    BY ONLY <1>1, <1>2, <1>3 DEF RequestsOK
<1>5. slow = [st EXCEPT !.stalling = TRUE]
    OBVIOUS
<1> HIDE DEF st
<1>6. st.queue \in Seq(Requested)
    BY <1>4 DEF NodeStates
<1>7. st.queue # << >>
    BY <1>3, <1>4, <1>6, QueueFacts DEF NodeOK
<1>8. /\ slow \in NodeStates /\ slow.queue = st.queue /\ slow.n = st.n
      /\ slow.nValid = st.nValid /\ slow.best = st.best /\ slow.common = st.common
      /\ slow.sync = st.sync /\ slow.pref = st.pref /\ slow.up = st.up
    BY ONLY <1>4, <1>5 DEF NodeStates
<1>9. /\ NetOK(r)
      /\ r.inFlight = net.inFlight
      /\ DOMAIN r.node = DOMAIN net.node
      /\ r.node[q] = slow
      /\ \A x \in DOMAIN net.node \ {q} : r.node[x] = net.node[x]
    BY ONLY <1>0, <1>3, <1>7, <1>8, TouchedFacts DEF st, r
<1>10. PeersOK(r.node, index, data)
    BY ONLY <1>0, <1>3, <1>8, <1>9 DEF PeersOK, st
<1>11. /\ SyncStarted(r.node) = SyncStarted(net.node)
       /\ PreferredDownload(r.node) = PreferredDownload(net.node)
    BY ONLY <1>3, <1>8, <1>9 DEF SyncStarted, PreferredDownload, st
<1> QED
    BY <1>9, <1>10, <1>11 DEF r

\* What SendMessages asks for goes to a peer with room for it, and is missing.
LEMMA AskingFacts ==
    ASSUME NEW net, NetOK(net), PeersOK(net.node, index, data),
           NEW p \in DOMAIN net.node, DOMAIN net.inFlight \cap data = {},
           NEW F \in SUBSET Block, F \cap data = {}, Cardinality(F) \in Nat,
           Cardinality(F) <= MaxTransit - net.node[p].n,
           NEW blocks \in Listings(F, Shallower), NEW r, r = AskFor(net, p, blocks)
    PROVE  /\ NetOK(r)
           /\ DOMAIN r.inFlight \cap data = {}
           /\ PeersOK(r.node, index, data)
           /\ SyncStarted(r.node) = SyncStarted(net.node)
           /\ PreferredDownload(r.node) = PreferredDownload(net.node)
<1> DEFINE k == Cardinality(F)
<1>1. k \in Nat /\ blocks \in [1..k -> F]
    BY DEF Listings
<1>2. r \in Asked(net, p, F, k)
  <2> HIDE DEF k
  <2> QED
    BY <1>1, AskForFacts
<1>3. /\ r \in Nets /\ NetOK(r) /\ Keeps(net, r)
      /\ DOMAIN r.inFlight \subseteq DOMAIN net.inFlight \cup F
      /\ \A q \in DOMAIN net.node : r.node[q].n <= net.node[q].n + k * Count(q = p)
    BY <1>2 DEF Asked
<1>4. DOMAIN r.node = DOMAIN net.node /\ \A q \in DOMAIN net.node : Same(net.node[q], r.node[q])
    BY <1>3 DEF Keeps
<1>5. net \in Nets
    BY DEF NetOK
<1>6. ASSUME NEW q \in DOMAIN net.node
      PROVE  r.node[q].n <= MaxTransit
  <2>1. /\ net.node \in [DOMAIN net.node -> NodeStates]
        /\ r.node \in [DOMAIN r.node -> NodeStates]
    BY <1>3, <1>5, NetTypes
  <2>2. net.node[q].n \in Int /\ r.node[q].n \in Int /\ MaxTransit \in Int
    BY <2>1, <1>4, BlockDownloadAssumption DEF NodeStates
  <2>3. net.node[q].n <= MaxTransit
    BY DEF PeersOK
  <2>4. r.node[q].n <= net.node[q].n + k * Count(q = p)
    BY <1>3
  <2>5. k <= MaxTransit - net.node[p].n
    OBVIOUS
  <2> HIDE DEF k
  <2>6. CASE q = p
    <3>1. k * Count(q = p) = k
        BY <2>6, <1>1 DEF Count
    <3> QED
        BY <3>1, <2>2, <2>4, <2>5, <2>6, <1>1
  <2>7. CASE q # p
    <3>1. k * Count(q = p) = 0
        BY <2>7, <1>1 DEF Count
    <3> QED
        BY <3>1, <2>2, <2>3, <2>4
  <2> QED
    BY <2>6, <2>7
<1>7. PeersOK(r.node, index, data)
    BY <1>4, <1>6 DEF PeersOK, Same
<1>8. /\ SyncStarted(r.node) = SyncStarted(net.node)
      /\ PreferredDownload(r.node) = PreferredDownload(net.node)
    BY <1>4 DEF SyncStarted, PreferredDownload, Same
<1>9. DOMAIN r.inFlight \cap data = {}
    BY <1>3
<1> QED
    BY <1>3, <1>7, <1>8, <1>9

LEMMA SendMessagesInv ==
    ASSUME DownloadInv, NEW p \in Peers,
           NEW fresh \in BOOLEAN, NEW late \in BOOLEAN, NEW synced \in BOOLEAN,
           SendMessages(p, fresh, late, synced)
    PROVE  DownloadInv'
<1> DEFINE st == node[p]
           fFetch == st.pref \/ nPref = 0
           start == ~st.sync /\ ((nSync = 0 /\ fFetch) \/ fresh)
           close == (st.ban /\ p \notin Whitelisted) \/ (late /\ (st.stalling \/ st.queue # <<>>))
           fetch == ~close /\ (fFetch \/ synced) /\ st.n < MaxTransit
           now == [st EXCEPT !.sync = @ \/ start, !.owes = @ \/ start,
                             !.ban = FALSE, !.close = close]
           known == ProcessBlockAvailability(index, now)
           found == FindNextBlocksToDownload(p, known)
           asking == [known EXCEPT !.common = found.common]
           net == Touched(Net, p, asking)
           slow == [net.node[found.staller] EXCEPT !.stalling = TRUE]
<1>1. /\ ChainOK /\ PeersOK(node, index, data) /\ StoredNotAwaited
      /\ nPref = Cardinality(PreferredDownload(node))
      /\ connects \in 0 .. MaxConnects
      /\ Net = [node |-> node, inFlight |-> inFlight, nQueued |-> nQueued]
      /\ Net.node = node /\ Net.inFlight = inFlight /\ Net.nQueued = nQueued
      /\ RequestsOK(Net)
      /\ node \in [DOMAIN node -> NodeStates]
    BY InvParts
<1>2. /\ p \in DOMAIN node
      /\ nSync' = nSync + Count(start)
      /\ UNCHANGED <<index, data, failed, tip, nPref, connects>>
    BY DEF SendMessages, Handles, chainVars
<1>3. \A s : [Net EXCEPT !.node = [node EXCEPT ![p] = s]] = Touched(Net, p, s)
    BY <1>1 DEF Touched
<1>4. /\ fetch /\ found.fetch = {} /\ st.n = 0 /\ found.staller # None
         => SetNet([[Net EXCEPT !.node = [node EXCEPT ![p] = asking]] EXCEPT !.node =
                [[Net EXCEPT !.node = [node EXCEPT ![p] = asking]].node EXCEPT ![found.staller] =
                   [[Net EXCEPT !.node = [node EXCEPT ![p] = asking]].node[found.staller]
                       EXCEPT !.stalling = TRUE]]])
      /\ fetch /\ ~ (found.fetch = {} /\ st.n = 0 /\ found.staller # None)
         => \E blocks \in Listings(found.fetch, Shallower) :
               SetNet(AskFor([Net EXCEPT !.node = [node EXCEPT ![p] = asking]], p, blocks))
      /\ ~ fetch => SetNet([Net EXCEPT !.node = [node EXCEPT ![p] = now]])
    BY DEF SendMessages
<1> HIDE DEF found
<1>5. /\ fetch /\ found.fetch = {} /\ st.n = 0 /\ found.staller # None
         => SetNet(Touched(net, found.staller, slow))
      /\ fetch /\ ~ (found.fetch = {} /\ st.n = 0 /\ found.staller # None)
         => \E blocks \in Listings(found.fetch, Shallower) : SetNet(AskFor(net, p, blocks))
      /\ ~ fetch => SetNet(Touched(Net, p, now))
  <2>1. [Net EXCEPT !.node = [node EXCEPT ![p] = asking]] = net
    BY <1>3
  <2>2. [Net EXCEPT !.node = [node EXCEPT ![p] = now]] = Touched(Net, p, now)
    BY <1>3
  <2>3. net = [node |-> net.node, inFlight |-> net.inFlight, nQueued |-> net.nQueued]
    BY DEF Touched
  <2> HIDE DEF fetch, asking, now, st
  <2>4. \A x : [net EXCEPT !.node = [net.node EXCEPT ![found.staller] = x]]
                 = Touched(net, found.staller, x)
    <3> HIDE DEF net
    <3> QED
        BY ONLY <2>3 DEF Touched
  <2> HIDE DEF net
  <2>5. /\ fetch /\ found.fetch = {} /\ st.n = 0 /\ found.staller # None
           => SetNet([net EXCEPT !.node = [net.node EXCEPT ![found.staller] = slow]])
        /\ fetch /\ ~ (found.fetch = {} /\ st.n = 0 /\ found.staller # None)
           => \E blocks \in Listings(found.fetch, Shallower) : SetNet(AskFor(net, p, blocks))
        /\ ~ fetch => SetNet(Touched(Net, p, now))
    BY ONLY <1>4, <2>1, <2>2
  <2> HIDE DEF slow
  <2> QED
    BY ONLY <2>4, <2>5
<1>6. /\ st \in NodeStates /\ NodeOK(p, st, inFlight)
      /\ st.best \in index \cup {None}
      /\ st.common # None => Ancestry[st.common] \subseteq data
    BY <1>1, <1>2 DEF PeersOK, RequestsOK
<1>7. /\ now \in NodeStates /\ now.queue = st.queue /\ now.n = st.n
      /\ now.nValid = st.nValid /\ now.stalling = st.stalling
      /\ now.best = st.best /\ now.common = st.common
      /\ now.pref = st.pref /\ now.up = st.up
      /\ start => now.sync /\ ~ st.sync
      /\ ~ start => now.sync = st.sync
  <2> DEFINE sync == st.sync \/ start
             owes == st.owes \/ start
  <2>1. now = [st EXCEPT !.sync = sync, !.owes = owes, !.ban = FALSE, !.close = close]
    OBVIOUS
  <2>2. sync \in BOOLEAN /\ owes \in BOOLEAN /\ close \in BOOLEAN
    OBVIOUS
  <2>3. /\ start => sync /\ ~ st.sync
        /\ ~ start => sync = st.sync
    <3>1. st.sync \in BOOLEAN
        BY <1>6 DEF NodeStates
    <3> HIDE DEF fFetch, st
    <3> QED
        BY <3>1
  <2> HIDE DEF st, start, sync, owes, close, now
  <2>4. /\ now \in NodeStates /\ now.queue = st.queue /\ now.n = st.n
        /\ now.nValid = st.nValid /\ now.stalling = st.stalling
        /\ now.best = st.best /\ now.common = st.common
        /\ now.pref = st.pref /\ now.up = st.up /\ now.sync = sync
    BY ONLY <2>1, <2>2, <1>6 DEF NodeStates
  <2> QED
    BY ONLY <2>3, <2>4
<1>8. start \in BOOLEAN
    OBVIOUS
<1> HIDE DEF now, start, close, fetch
<1>9. ChainOK'
    BY <1>1, <1>2 DEF ChainOK
<1>10. CASE ~ fetch
  <2> DEFINE r == Touched(Net, p, now)
  <2>1. /\ NetOK(r)
        /\ r.inFlight = inFlight
        /\ PeersOK(r.node, index, data)
        /\ Cardinality(SyncStarted(r.node)) = nSync + Count(start)
        /\ PreferredDownload(r.node) = PreferredDownload(node)
    BY <1>2, <1>6, <1>7, <1>8, SettledFacts DEF st
  <2>2. SetNet(r)
    BY <1>5, <1>10
  <2> HIDE DEF r
  <2>3. Net' = r
    BY <2>1, <2>2, SetNetFacts DEF NetOK
  <2>4. DOMAIN r.inFlight \cap data' = {}
    BY <2>1, <1>1, <1>2 DEF StoredNotAwaited
  <2> QED
    BY <2>1, <2>3, <2>4, <1>1, <1>2, <1>9, InvNext
<1>11. CASE fetch
  <2>1. Informed(index, now, known)
    <3>1. index \in SUBSET Block
        BY <1>1 DEF ChainOK
    <3> QED
        BY <3>1, <1>6, <1>7, ProcessBlockAvailabilityFacts
  <2> HIDE DEF known
  <2>2. /\ known \in NodeStates /\ known.n = st.n
        /\ known.n \in Nat /\ known.n < MaxTransit
        /\ known.common # None => Ancestry[known.common] \subseteq data
    <3>1. known \in NodeStates /\ known.n = st.n /\ known.common = st.common
        BY <2>1, <1>7 DEF Informed
    <3>2. st.n \in Nat
      <4>1. st.queue \in Seq(Requested) /\ st.n = Len(st.queue)
        BY <1>6 DEF NodeStates, NodeOK
      <4> QED
        BY <4>1
    <3>3. st.n < MaxTransit
        BY <1>11 DEF fetch
    <3> QED
        BY <3>1, <3>2, <3>3, <1>6
  <2>3. IsFound(found, known)
    <3>1. tip \in Block /\ Ancestry[tip] \subseteq data
        BY <1>1 DEF ChainOK
    <3> QED
        BY <3>1, <2>2, FindFacts DEF found
  <2>4. /\ asking \in NodeStates /\ asking.queue = st.queue /\ asking.n = st.n
        /\ asking.nValid = st.nValid /\ asking.stalling = st.stalling
        /\ asking.best \in index \cup {None} /\ asking.common = found.common
        /\ asking.pref = st.pref /\ asking.up = st.up /\ asking.sync = now.sync
    <3> DEFINE c == found.common
    <3>1. asking = [known EXCEPT !.common = c] /\ c \in Block \cup {None}
        BY <2>3 DEF IsFound
    <3> HIDE DEF c, asking, st
    <3>2. /\ asking \in NodeStates /\ asking.queue = known.queue /\ asking.n = known.n
          /\ asking.nValid = known.nValid /\ asking.stalling = known.stalling
          /\ asking.best = known.best /\ asking.common = c
          /\ asking.pref = known.pref /\ asking.up = known.up /\ asking.sync = known.sync
        BY ONLY <3>1, <2>2 DEF NodeStates
    <3> QED
        BY ONLY <3>2, <2>1, <1>7 DEF Informed, c
  <2> HIDE DEF asking
  <2>5. asking.common # None => Ancestry[asking.common] \subseteq data
    BY <2>3, <2>4 DEF IsFound
  <2>6. /\ NetOK(net)
        /\ net.inFlight = inFlight
        /\ DOMAIN net.node = DOMAIN node
        /\ net.node[p] = asking
        /\ PeersOK(net.node, index, data)
        /\ Cardinality(SyncStarted(net.node)) = nSync + Count(start)
        /\ PreferredDownload(net.node) = PreferredDownload(node)
    BY <2>4, <2>5, <1>2, <1>7, <1>8, SettledFacts DEF st
  <2> HIDE DEF net
  <2>7. CASE found.fetch = {} /\ st.n = 0 /\ found.staller # None
    <3> DEFINE r == Touched(net, found.staller, slow)
    <3>1. PICK b \in DOMAIN inFlight : found.staller = inFlight[b]
        BY <2>3, <2>7 DEF IsFound
    <3>2. slow = [net.node[found.staller] EXCEPT !.stalling = TRUE]
        OBVIOUS
    <3>3. SetNet(r)
      <4> HIDE DEF slow, st
      <4> QED
        BY <1>5, <1>11, <2>7
    <3> HIDE DEF slow
    <3>4. /\ NetOK(r)
          /\ r.inFlight = net.inFlight
          /\ PeersOK(r.node, index, data)
          /\ SyncStarted(r.node) = SyncStarted(net.node)
          /\ PreferredDownload(r.node) = PreferredDownload(net.node)
        BY ONLY <3>1, <3>2, <2>6, StallerFacts
    <3> HIDE DEF r
    <3>5. Net' = r
        BY <3>3, <3>4, SetNetFacts DEF NetOK
    <3>6. DOMAIN r.inFlight \cap data' = {}
        BY <3>4, <2>6, <1>1, <1>2 DEF StoredNotAwaited
    <3> QED
        BY <3>4, <3>5, <3>6, <2>6, <1>1, <1>2, <1>9, InvNext
  <2>8. CASE ~ (found.fetch = {} /\ st.n = 0 /\ found.staller # None)
    <3>1. PICK blocks \in Listings(found.fetch, Shallower) : SetNet(AskFor(net, p, blocks))
      <4> HIDE DEF st
      <4> QED
        BY <1>5, <1>11, <2>8
    <3> DEFINE r == AskFor(net, p, blocks)
               F == found.fetch
    <3>2. /\ F \in SUBSET Block /\ F \cap data = {} /\ Cardinality(F) \in Nat
          /\ Cardinality(F) <= MaxTransit - net.node[p].n
        BY <2>2, <2>3, <2>4, <2>6 DEF IsFound
    <3>3. DOMAIN net.inFlight \cap data = {}
        BY <2>6, <1>1 DEF StoredNotAwaited
    <3>4. blocks \in Listings(F, Shallower)
        BY <3>1
    <3> HIDE DEF F
    <3>5. /\ NetOK(r)
          /\ DOMAIN r.inFlight \cap data = {}
          /\ PeersOK(r.node, index, data)
          /\ SyncStarted(r.node) = SyncStarted(net.node)
          /\ PreferredDownload(r.node) = PreferredDownload(net.node)
        BY ONLY <3>2, <3>3, <3>4, <2>6, <1>2, AskingFacts
    <3>6. SetNet(r)
        BY <3>1
    <3> HIDE DEF r
    <3>7. Net' = r
        BY <3>5, <3>6, SetNetFacts DEF NetOK
    <3> QED
        BY <3>5, <3>7, <2>6, <1>1, <1>2, <1>9, InvNext
  <2> QED
    BY <2>7, <2>8
<1> QED
    BY <1>10, <1>11

\* Every step keeps the invariant.
LEMMA InvStep == DownloadInv /\ [Next]_vars => DownloadInv'
<1> SUFFICES ASSUME DownloadInv, [Next]_vars
             PROVE  DownloadInv'
    OBVIOUS
<1>1. CASE Next
  <2>1. PICK p \in Peers :
           \/ InitializeNode(p) \/ Version(p) \/ FinalizeNode(p)
           \/ \E b \in Offers[p] : \E from \in Ancestry[b] \ {b} : Headers(p, b, from)
           \/ \E b \in Offers[p], recent \in BOOLEAN : Inv(p, b, recent)
           \/ \E b \in Held(p) : \/ CorruptBlock(p, b)
                                \/ \E synced \in BOOLEAN : NewBlock(p, b, synced)
           \/ \E fresh, late, synced \in BOOLEAN : SendMessages(p, fresh, late, synced)
    BY <1>1 DEF Next
  <2>2. Offers[p] \subseteq Block
    BY BlockDownloadAssumption
  <2>3. Held(p) \subseteq Block
    BY <2>2, BlockTreeFacts DEF Held
  <2>4. CASE InitializeNode(p)
    BY <2>4, InitializeNodeInv
  <2>5. CASE Version(p)
    BY <2>5, VersionInv
  <2>6. CASE FinalizeNode(p)
    BY <2>6, FinalizeNodeInv
  <2>7. ASSUME NEW b \in Offers[p], NEW from \in Ancestry[b] \ {b}, Headers(p, b, from)
        PROVE  DownloadInv'
    BY <2>2, <2>7, BlockTreeFacts, HeadersInv
  <2>8. ASSUME NEW b \in Offers[p], NEW recent \in BOOLEAN, Inv(p, b, recent)
        PROVE  DownloadInv'
    BY <2>2, <2>8, InvMessageInv
  <2>9. ASSUME NEW b \in Held(p), NEW synced \in BOOLEAN, NewBlock(p, b, synced)
        PROVE  DownloadInv'
    BY <2>3, <2>9, NewBlockInv
  <2>10. ASSUME NEW b \in Held(p), CorruptBlock(p, b)
         PROVE  DownloadInv'
    BY <2>3, <2>10, CorruptBlockInv
  <2>11. ASSUME NEW fresh \in BOOLEAN, NEW late \in BOOLEAN, NEW synced \in BOOLEAN,
                SendMessages(p, fresh, late, synced)
         PROVE  DownloadInv'
    BY <2>11, SendMessagesInv
  <2> QED
    BY <2>1, <2>4, <2>5, <2>6, <2>7, <2>8, <2>9, <2>10, <2>11
<1>2. CASE UNCHANGED vars
  <2>1. UNCHANGED <<index, data, failed, tip, node, inFlight, nQueued, nSync, nPref, connects>>
    BY <1>2 DEF vars, chainVars, netVars
  <2>2. Net' = Net
    BY <2>1 DEF Net
  <2>3. ChainOK'
    BY <2>1, InvParts DEF ChainOK
  <2>4. /\ NetOK(Net) /\ PeersOK(node, index, data) /\ StoredNotAwaited
        /\ nSync = Cardinality(SyncStarted(node))
        /\ nPref = Cardinality(PreferredDownload(node))
        /\ connects \in 0 .. MaxConnects
        /\ Net.node = node /\ Net.inFlight = inFlight
    BY InvParts
  <2>5. DOMAIN Net.inFlight \cap data' = {}
    BY <2>1, <2>4 DEF StoredNotAwaited
  <2> QED
    BY <2>1, <2>2, <2>3, <2>4, <2>5, InvNext
<1> QED
    BY <1>1, <1>2

\* For every block tree, every number of peers and all limits: the map of
\* blocks in flight and the queues of the connected peers hold the same
\* requests and the counters count them, whatever the peers announce, bring
\* late, bring twice, corrupt or leave unanswered, and through timeouts, bans
\* and disconnections.  MarkBlockAsReceived never follows a request to a peer
\* that is gone, no stored block is awaited, and only a peer that owes a block
\* is marked as a staller.
THEOREM AlwaysInFlightConsistent == Spec => []InFlightConsistent
<1>1. Init => DownloadInv
    BY InvInit
<1>2. DownloadInv /\ [Next]_vars => DownloadInv'
    BY InvStep
<1>3. DownloadInv => InFlightConsistent
    BY InvImplies
<1> QED
    BY <1>1, <1>2, <1>3, PTL DEF Spec

\* For every block tree, every number of peers and all limits: pindexLastCommonBlock,
\* from which FindNextBlocksToDownload starts its walk and below which it never
\* asks again, has all its ancestors stored here, although it is remembered
\* while the tip moves to other branches.
THEOREM AlwaysCommonIsHeld == Spec => []CommonIsHeld
<1>1. Init => DownloadInv
    BY InvInit
<1>2. DownloadInv /\ [Next]_vars => DownloadInv'
    BY InvStep
<1>3. DownloadInv => CommonIsHeld
    BY InvImplies
<1> QED
    BY <1>1, <1>2, <1>3, PTL DEF Spec

=============================================================================
