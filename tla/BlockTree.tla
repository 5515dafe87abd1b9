----------------------------- MODULE BlockTree -----------------------------
(***************************************************************************)
(* The block index and the choice of the active chain (src/src/main.cpp):  *)
(* headers and blocks arrive in any order, several threads run             *)
(* ActivateBestChain and release cs_main between its steps, the operator   *)
(* invalidates and reconsiders blocks, old block files are pruned.         *)
(*                                                                         *)
(* What arrives is a fixed tree of blocks.  Whether ConnectBlock accepts a *)
(* block is a property of the block (CoinsChain models ConnectBlock); a    *)
(* block whose data may be corrupt is not modelled, nor are disk errors,   *)
(* which stop the node.  pindexBestInvalid and pindexBestHeader only feed  *)
(* warnings and downloads and are left out.                                *)
(***************************************************************************)
EXTENDS Integers, FiniteSets, SequencesExt, Trees

CONSTANTS Blocks,              \* all blocks, the genesis block included
          Genesis,
          Parent,              \* Parent[b]: hashPrevBlock, for b # Genesis
          Proof,               \* Proof[b]: GetBlockProof
          Address,             \* Address[b]: the address of its CBlockIndex
          BadBlocks,           \* blocks that ConnectBlock rejects
          Malformed,           \* blocks that ContextualCheckBlock rejects
          Announced,           \* blocks whose header may come ahead of the data
          Requests,            \* values of fRequested, a subset of BOOLEAN
          Threads,             \* threads that call ActivateBestChain
          Invalidates,         \* blocks the operator may invalidate
          Reconsiders,         \* blocks the operator may reconsider
          MAX_REORG_LENGTH,
          MIN_BLOCKS_TO_KEEP,
          MaxSequenceId,       \* bound: nBlockSequenceId
          MaxUnlinked,         \* bound: waiting blocks when the operator acts
          None

\* Every block is reached from the genesis block, which ConnectBlock accepts
\* and no call invalidates; work is positive; addresses tell blocks apart.
ASSUME BlockTreeAssumption ==
    /\ IsTree(Blocks, Genesis, Parent)
    /\ IsFiniteSet(Blocks)
    /\ Address \in [Blocks -> Int]
    /\ \A a, b \in Blocks : Address[a] = Address[b] => a = b
    /\ None \notin Blocks
    /\ Proof \in [Blocks -> Nat \ {0}]
    /\ BadBlocks \subseteq Blocks \ {Genesis}
    /\ Announced \subseteq Blocks \ {Genesis}
    /\ Requests \subseteq BOOLEAN
    /\ Invalidates \subseteq Blocks \ {Genesis}
    /\ Reconsiders \subseteq Blocks
    /\ MaxSequenceId \in Nat

VARIABLES index,       \* mapBlockIndex: the CBlockIndex fields of each block
          candidates,  \* setBlockIndexCandidates
          unlinked,    \* mapBlocksUnlinked, in insertion order; the key is pprev
          tip,         \* chainActive.Tip()
          nextId,      \* nBlockSequenceId
          havePruned,  \* fHavePruned
          pc,          \* where each thread is in ActivateBestChain
          mostWork,    \* its pindexMostWork
          shutdown     \* StartShutdown was called

vars == <<index, candidates, unlinked, tip, nextId, havePruned, pc, mostWork,
          shutdown>>

BLOCK_VALID_TREE == 2
BLOCK_VALID_TRANSACTIONS == 3
BLOCK_VALID_SCRIPTS == 5

\* nTx and nChainTx only matter as zero or not; failedValid and failedChild are
\* the two bits of BLOCK_FAILED_MASK.
Unknown == [known |-> FALSE, validity |-> 0, haveData |-> FALSE,
            failedValid |-> FALSE, failedChild |-> FALSE, nTx |-> FALSE,
            nChainTx |-> FALSE, nSequenceId |-> 0]

nHeight[b \in Blocks] == IF b = Genesis THEN 0 ELSE nHeight[Parent[b]] + 1

nChainWork[b \in Blocks] ==
    Proof[b] + IF b = Genesis THEN 0 ELSE nChainWork[Parent[b]]

\* The block and its ancestors.
Path[b \in Blocks] == {b} \cup IF b = Genesis THEN {} ELSE Path[Parent[b]]

\* ConnectBlock does not raise the validity of the genesis block.
GenesisEntry ==
    [Unknown EXCEPT !.known = TRUE, !.validity = BLOCK_VALID_TRANSACTIONS,
                    !.haveData = TRUE, !.nTx = TRUE, !.nChainTx = TRUE]

\* A node that starts with the genesis block in its database.
Init ==
    /\ index = [b \in Blocks |-> IF b = Genesis THEN GenesisEntry ELSE Unknown]
    /\ candidates = {Genesis}
    /\ unlinked = << >>
    /\ tip = Genesis
    /\ nextId = 1
    /\ havePruned = FALSE
    /\ pc = [t \in Threads |-> "idle"]
    /\ mostWork = [t \in Threads |-> None]
    /\ shutdown = FALSE

Failed(e) == e.failedValid \/ e.failedChild

IsValid(e, upTo) == ~ Failed(e) /\ e.validity >= upTo

RaiseValidity(e, upTo) ==
    IF ~ Failed(e) /\ e.validity < upTo THEN [e EXCEPT !.validity = upTo] ELSE e

\* CBlockIndexWorkComparator: a sorts before b.  Blocks loaded from disk all
\* have id 0, and those with the same work are told apart by their addresses.
Worse(idx, a, b) ==
    \/ nChainWork[a] < nChainWork[b]
    \/ /\ nChainWork[a] = nChainWork[b]
       /\ \/ idx[a].nSequenceId > idx[b].nSequenceId
          \/ /\ idx[a].nSequenceId = idx[b].nSequenceId
             /\ Address[a] > Address[b]

\* The members of sequence s that are in T, in their order: std::multimap keeps
\* the order of equal keys.
Only(s, T) ==
    LET kept[i \in 0..Len(s)] ==
            IF i = 0 THEN << >>
            ELSE IF s[i] \in T THEN Append(kept[i - 1], s[i]) ELSE kept[i - 1]
    IN kept[Len(s)]

-----------------------------------------------------------------------------
(***************************************************************************)
(* Headers and blocks arrive.                                              *)
(***************************************************************************)

HeaderAccepted(b) ==
    IF index[b].known THEN ~ Failed(index[b])
    ELSE index[Parent[b]].known /\ ~ Failed(index[Parent[b]])

\* AcceptBlockHeader and AddToBlockIndex.
WithHeader(b) ==
    IF index[b].known THEN index
    ELSE [index EXCEPT ![b] = [Unknown EXCEPT !.known = TRUE,
                                              !.validity = BLOCK_VALID_TREE]]

\* A `headers` message.
AcceptBlockHeader(b) ==
    /\ ~ shutdown
    /\ ~ index[b].known
    /\ HeaderAccepted(b)
    /\ index' = WithHeader(b)
    /\ UNCHANGED <<candidates, unlinked, tip, nextId, havePruned, pc, mostWork,
                   shutdown>>

\* One round of the loop in ReceivedBlockTransactions: the first block of the
\* queue is linked, and the blocks that wait for it are queued.
LinkFirst(s) ==
    IF s.queue = << >> THEN s
    ELSE LET b == Head(s.queue)
             idx == [s.index EXCEPT ![b].nChainTx = TRUE, ![b].nSequenceId = s.nextId]
             waiting == {x \in Blocks \ {Genesis} : Parent[x] = b}
         IN [s EXCEPT !.index = idx,
                      !.nextId = @ + 1,
                      !.candidates = IF Worse(idx, b, tip) THEN @ ELSE @ \cup {b},
                      !.queue = Tail(@) \o Only(s.unlinked, waiting),
                      !.unlinked = Only(@, Blocks \ waiting)]

\* The data of b has been stored: what ReceivedBlockTransactions makes of it.
ReceivedBlockTransactions(idx, b) ==
    LET entry == RaiseValidity([idx[b] EXCEPT !.nTx = TRUE, !.nChainTx = FALSE,
                                              !.haveData = TRUE],
                               BLOCK_VALID_TRANSACTIONS)
        start == [index |-> [idx EXCEPT ![b] = entry], candidates |-> candidates,
                  unlinked |-> unlinked, nextId |-> nextId, queue |-> <<b>>]
        round[n \in Nat] == IF n = 0 THEN start ELSE LinkFirst(round[n - 1])
    IN IF idx[Parent[b]].nChainTx
       THEN round[MaxSequenceId - nextId + 1]
       ELSE [start EXCEPT !.queue = << >>,
                          !.unlinked =
                IF IsValid(idx[Parent[b]], BLOCK_VALID_TREE)
                THEN Append(@, b) ELSE @]

\* An unrequested block must be new, promise more work than the tip and not be
\* far ahead.
Wanted(b, requested) ==
    \/ requested
    \/ /\ ~ index[b].nTx
       /\ nChainWork[b] > nChainWork[tip]
       /\ nHeight[b] <= nHeight[tip] + MIN_BLOCKS_TO_KEEP

\* ProcessNewBlock up to its call of ActivateBestChain.
ProcessNewBlock(t, b, requested) ==
    LET idx == WithHeader(b)
        s == ReceivedBlockTransactions(idx, b)
        stored == ~ index[b].haveData /\ Wanted(b, requested)
    IN /\ ~ shutdown
       /\ pc[t] = "idle"
       /\ HeaderAccepted(b)
       /\ \/ /\ ~ stored
             /\ index' = idx
             /\ pc' = [pc EXCEPT ![t] = "find"]
             /\ UNCHANGED <<candidates, unlinked, nextId>>
          \/ /\ stored
             /\ b \in Malformed
             /\ index' = [idx EXCEPT ![b].failedValid = TRUE]
             /\ UNCHANGED <<candidates, unlinked, nextId, pc>>
          \/ /\ stored
             /\ b \notin Malformed
             /\ s.queue = << >>      \* MaxSequenceId ids were enough
             /\ index' = s.index
             /\ candidates' = s.candidates
             /\ unlinked' = s.unlinked
             /\ nextId' = s.nextId
             /\ pc' = [pc EXCEPT ![t] = "find"]
       /\ UNCHANGED <<tip, havePruned, mostWork, shutdown>>

-----------------------------------------------------------------------------
(***************************************************************************)
(* ActivateBestChain.                                                      *)
(***************************************************************************)

\* The best of a set of blocks by the comparator.
Best(set) == CHOOSE b \in set : \A c \in set \ {b} : Worse(index, c, b)

\* The blocks to walk from candidate b to the active chain.
Branch(b) == Path[b] \ Path[tip]

\* Fault variant: only missing data is looked for.
Unusable_DataOnly(b) == {x \in Branch(b) : ~ index[x].haveData}

\* The blocks on that walk that have failed or are missing, and the first one.
Unusable(b) == {x \in Branch(b) : Failed(index[x]) \/ ~ index[x].haveData}
FirstUnusable(b) ==
    CHOOSE x \in Unusable(b) : \A y \in Unusable(b) : nHeight[y] <= nHeight[x]

\* What the walk from b removes above its first unusable block.
Above(b) == Path[b] \ Path[FirstUnusable(b)]

\* Fault variant: a candidate that waits for data stays a candidate.
Erased_Failed(b) ==
    IF Failed(index[FirstUnusable(b)]) THEN Above(b) \cup {FirstUnusable(b)} ELSE {}

\* What it erases from the candidates.
Erased(b) == Above(b) \cup {FirstUnusable(b)}

\* FindMostWorkChain tries the candidates from the best one down, until one is
\* usable.  Each one it tries in vain is removed with its ancestors down to
\* the first unusable block; they are marked if that block has failed, and
\* wait for it in mapBlocksUnlinked if its data is missing.
FindMostWorkChain ==
    LET usable == {c \in candidates : Unusable(c) = {}}
        found == IF usable = {} THEN None ELSE Best(usable)
        tried == {c \in candidates \ usable : found = None \/ Worse(index, found, c)}
        marked == UNION {Above(c) : c \in {d \in tried : Failed(index[FirstUnusable(d)])}}
        waiting == {c \in tried : /\ ~ Failed(index[FirstUnusable(c)])
                                  /\ \A d \in tried : c # d => c \notin Above(d)}
    IN [found |-> found,
        candidates |-> candidates \ UNION {Erased(c) : c \in tried},
        index |-> [x \in Blocks |-> [index[x] EXCEPT !.failedChild = @ \/ x \in marked]],
        walked |-> UNION {{<<c, x>> : x \in Above(c)} : c \in waiting}]

\* The order in which it walks: the best candidate first, each one downwards.
WalkedEarlier(p, q) ==
    \/ Worse(index, q[1], p[1])
    \/ p[1] = q[1] /\ nHeight[p[2]] > nHeight[q[2]]

\* Fault variant: candidates as good as the tip are dropped as well.
PruneBlockIndexCandidates_AlsoTip(idx, cands, newTip) ==
    {c \in cands : Worse(idx, newTip, c)}

PruneBlockIndexCandidates(idx, cands, newTip) ==
    {c \in cands : ~ Worse(idx, c, newTip)}

\* The active block at which the branch of b starts.
FindFork(b) == CHOOSE x \in Path[b] \cap Path[tip] :
                   \A y \in Path[b] \cap Path[tip] : nHeight[y] <= nHeight[x]

\* Fault variant: an invalid block is neither marked nor removed.
ActivateBestChainStep_Unmarked(s, b, bad) ==
    LET stops == {x \in Branch(b) : x \in bad \/ nChainWork[x] > nChainWork[tip]}
        last == IF stops = {} THEN b
                ELSE CHOOSE x \in stops : \A y \in stops : nHeight[x] <= nHeight[y]
    IN [index |-> s.index, candidates |-> s.candidates,
        tip |-> IF last \in bad THEN Parent[last] ELSE last]

\* ActivateBestChainStep towards b: back to the fork, then forward until the
\* tip has more work than the old one, b is reached, or ConnectBlock rejects a
\* block; it rejects those in bad.
ActivateBestChainStep(s, b, bad) ==
    LET stops == {x \in Branch(b) : x \in bad \/ nChainWork[x] > nChainWork[tip]}
        last == IF stops = {} THEN b
                ELSE CHOOSE x \in stops : \A y \in stops : nHeight[x] <= nHeight[y]
        connected == (Path[last] \ Path[tip]) \ bad
        newTip == IF last \in bad THEN Parent[last] ELSE last
        idx == [x \in Blocks |->
                   IF x \in connected THEN RaiseValidity(s.index[x], BLOCK_VALID_SCRIPTS)
                   ELSE IF x \in bad \cap {last} THEN [s.index[x] EXCEPT !.failedValid = TRUE]
                   ELSE s.index[x]]
        pruned == IF connected = {} THEN s.candidates
                  ELSE PruneBlockIndexCandidates(idx, s.candidates, newTip)
    IN [index |-> idx,
        candidates |-> IF last \in bad THEN pruned \ {last} ELSE pruned,
        tip |-> newTip]

\* The active blocks that a reorganisation to b disconnects, and those of them
\* that cannot be read back because they were pruned.
Disconnected(b) == Path[tip] \ Path[FindFork(b)]
Unreadable(b) == {x \in Disconnected(b) : ~ index[x].haveData}

\* One turn of the loop of ActivateBestChain, under cs_main: nothing to do, a
\* reorganisation that is too long, one that meets a pruned block (DisconnectTip
\* aborts the node), or a step.
FindAndStep(t, bad) ==
    /\ ~ shutdown
    /\ pc[t] = "find"
    /\ \E s \in {FindMostWorkChain} :
          /\ \E walk \in Listings(s.walked, WalkedEarlier) :
                unlinked' = unlinked \o [i \in DOMAIN walk |-> walk[i][2]]
          /\ \/ /\ s.found \in {None, tip}
                /\ index' = s.index
                /\ candidates' = s.candidates
                /\ pc' = [pc EXCEPT ![t] = "idle"]
                /\ UNCHANGED <<tip, mostWork, shutdown>>
             \/ /\ s.found \notin {None, tip}
                /\ Cardinality(Disconnected(s.found)) > MAX_REORG_LENGTH
                /\ index' = s.index
                /\ candidates' = s.candidates
                /\ pc' = [pc EXCEPT ![t] = "idle"]
                /\ shutdown' = TRUE
                /\ UNCHANGED <<tip, mostWork>>
             \/ /\ s.found \notin {None, tip}
                /\ Cardinality(Disconnected(s.found)) <= MAX_REORG_LENGTH
                /\ Unreadable(s.found) # {}
                /\ index' = s.index
                /\ candidates' = s.candidates
                /\ tip' = CHOOSE x \in Unreadable(s.found) :
                              \A y \in Unreadable(s.found) : nHeight[y] <= nHeight[x]
                /\ pc' = [pc EXCEPT ![t] = "idle"]
                /\ shutdown' = TRUE
                /\ UNCHANGED mostWork
             \/ /\ s.found \notin {None, tip}
                /\ Cardinality(Disconnected(s.found)) <= MAX_REORG_LENGTH
                /\ Unreadable(s.found) = {}
                /\ \E r \in {ActivateBestChainStep(s, s.found, bad)} :
                      /\ index' = r.index
                      /\ candidates' = r.candidates
                      /\ tip' = r.tip
                /\ pc' = [pc EXCEPT ![t] = "test"]
                /\ mostWork' = [mostWork EXCEPT ![t] = s.found]
                /\ UNCHANGED shutdown
    /\ UNCHANGED <<nextId, havePruned>>

\* Fault variant: one step is taken to be enough.
LoopTest_Once(t) ==
    /\ ~ shutdown
    /\ pc[t] = "test"
    /\ pc' = [pc EXCEPT ![t] = "idle"]
    /\ mostWork' = [mostWork EXCEPT ![t] = None]
    /\ UNCHANGED <<index, candidates, unlinked, tip, nextId, havePruned, shutdown>>

\* The loop condition, which is evaluated without cs_main.
LoopTest(t) ==
    /\ ~ shutdown
    /\ pc[t] = "test"
    /\ pc' = [pc EXCEPT ![t] = IF mostWork[t] = tip THEN "idle" ELSE "find"]
    /\ mostWork' = [mostWork EXCEPT ![t] = None]
    /\ UNCHANGED <<index, candidates, unlinked, tip, nextId, havePruned, shutdown>>

-----------------------------------------------------------------------------
(***************************************************************************)
(* The operator and pruning.                                               *)
(***************************************************************************)

\* The blocks that InvalidateBlock and ReconsiderBlock look for in the index.
Eligible(idx) == {x \in Blocks : /\ IsValid(idx[x], BLOCK_VALID_TRANSACTIONS)
                                 /\ idx[x].nChainTx}

\* The invalidateblock call: InvalidateBlock, then ActivateBestChain.  Calls
\* that would disconnect a pruned block, which abort the node, are left out.
InvalidateBlock(t, b) ==
    LET above == IF b \in Path[tip] THEN Path[tip] \ Path[Parent[b]] ELSE {}
        newTip == IF b \in Path[tip] THEN Parent[b] ELSE tip
        idx == [x \in Blocks |->
                   [index[x] EXCEPT !.failedValid = @ \/ x = b,
                                    !.failedChild = @ \/ x \in above]]
    IN /\ ~ shutdown
       /\ pc[t] = "idle"
       /\ index[b].known
       /\ Len(unlinked) <= MaxUnlinked
       /\ \A x \in above : index[x].haveData
       /\ index' = idx
       /\ tip' = newTip
       /\ candidates' = (candidates \ (above \cup {b}))
                           \cup {x \in Eligible(idx) : ~ Worse(idx, x, newTip)}
       /\ pc' = [pc EXCEPT ![t] = "find"]
       /\ UNCHANGED <<unlinked, nextId, havePruned, mostWork, shutdown>>

\* The reconsiderblock call: the flags of b, its descendants and its ancestors
\* are reset, and the descendants that beat the tip become candidates.
ReconsiderBlock(t, b) ==
    LET below == {x \in Blocks : b \in Path[x] /\ index[x].known
                                   /\ ~ IsValid(index[x], BLOCK_VALID_TRANSACTIONS)}
        idx == [x \in Blocks |->
                   IF x \in below \cup Path[b]
                   THEN [index[x] EXCEPT !.failedValid = FALSE, !.failedChild = FALSE]
                   ELSE index[x]]
    IN /\ ~ shutdown
       /\ pc[t] = "idle"
       /\ index[b].known
       /\ Len(unlinked) <= MaxUnlinked
       /\ index' = idx
       /\ candidates' = candidates
                           \cup {x \in below \cap Eligible(idx) : Worse(idx, tip, x)}
       /\ pc' = [pc EXCEPT ![t] = "find"]
       /\ UNCHANGED <<unlinked, tip, nextId, havePruned, mostWork, shutdown>>

\* FlushStateToDisk deletes a block file; a file is one block here.
PruneOneBlockFile(b) ==
    /\ ~ shutdown
    /\ index[b].haveData
    /\ nHeight[b] <= nHeight[tip] - MIN_BLOCKS_TO_KEEP
    /\ index' = [index EXCEPT ![b].haveData = FALSE]
    /\ unlinked' = Only(unlinked, Blocks \ {b})
    /\ havePruned' = TRUE
    /\ UNCHANGED <<candidates, tip, nextId, pc, mostWork, shutdown>>

-----------------------------------------------------------------------------
Step(t) == FindAndStep(t, BadBlocks) \/ LoopTest(t)

Next ==
    \/ \E b \in Announced : AcceptBlockHeader(b)
    \/ \E t \in Threads, b \in Blocks \ {Genesis}, requested \in Requests :
          ProcessNewBlock(t, b, requested)
    \/ \E t \in Threads :
          \/ Step(t)
          \/ \E b \in Invalidates : InvalidateBlock(t, b)
          \/ \E b \in Reconsiders : ReconsiderBlock(t, b)
    \/ \E b \in Blocks : PruneOneBlockFile(b)

Spec == Init /\ [][Next]_vars

\* A thread inside ActivateBestChain moves on; only Step(t) moves it.
Moves(t) ==
    /\ ~ shutdown
    /\ pc[t] # "idle"
    /\ pc' \in [Threads -> {"idle", "find", "test"}]
    /\ pc'[t] # pc[t]

\* cs_main is handed to every thread that waits for it.
FairSpec == Spec /\ \A t \in Threads : WF_pc(Moves(t))

-----------------------------------------------------------------------------
(***************************************************************************)
(* Properties.  First the assertions of CheckBlockIndex, by subject.       *)
(***************************************************************************)

Known == {b \in Blocks : index[b].known}
AllProcessed(b) == \A x \in Path[b] : index[x].nTx
AllData(b) == \A x \in Path[b] : index[x].haveData
InvalidAncestor(b) == \E x \in Path[b] : index[x].failedValid

\* No thread is inside ActivateBestChain.
Quiescent == \A t \in Threads : pc[t] = "idle"

\* The entries of the block index.
Entries == [known : BOOLEAN, validity : {0, 2, 3, 5}, haveData : BOOLEAN,
            failedValid : BOOLEAN, failedChild : BOOLEAN, nTx : BOOLEAN,
            nChainTx : BOOLEAN, nSequenceId : 0..MaxSequenceId]

\* The type of the state.
TypeOK ==
    /\ index \in [Blocks -> Entries]
    /\ candidates \subseteq Known
    /\ unlinked \in Seq(Known \ {Genesis})
    /\ tip \in Known
    /\ nextId \in 1..(MaxSequenceId + 1)
    /\ havePruned \in BOOLEAN
    /\ pc \in [Threads -> {"idle", "find", "test"}]
    /\ mostWork \in [Threads -> Blocks \cup {None}]
    /\ shutdown \in BOOLEAN

\* The status of each index entry agrees with what is known of its ancestors,
\* in whatever order headers and blocks arrived and were pruned: nChainTx is
\* set only when all ancestors were processed at some time, only then is
\* there a sequence id, and SCRIPTS validity is inherited.
IndexSound ==
    \A b \in Known :
        LET e == index[b]
        IN /\ ~ e.nChainTx => e.nSequenceId = 0
           /\ e.haveData => e.nTx
           /\ ~ havePruned => e.haveData = e.nTx
           /\ (e.validity >= BLOCK_VALID_TRANSACTIONS) = e.nTx
           /\ e.nChainTx => AllProcessed(b)
           /\ e.validity >= BLOCK_VALID_SCRIPTS =>
                 \A x \in Path[b] \ {Genesis} : index[x].validity >= BLOCK_VALID_SCRIPTS

\* The converse: no block is left unlinked once its ancestors were processed.
LinkedOnceProcessed == \A b \in Known : AllProcessed(b) => index[b].nChainTx

\* No candidate lacks a processed ancestor, so FindMostWorkChain never trips
\* over nChainTx.
CandidatesProcessed == \A b \in candidates : index[b].nChainTx /\ AllProcessed(b)

\* A failure flag has a cause: the block or an ancestor was found invalid.
FailureHasCause == \A b \in Known : Failed(index[b]) => InvalidAncestor(b)

\* No candidate sorts worse than the tip, and there is always one (the
\* assertion of PruneBlockIndexCandidates).
CandidatesSound ==
    /\ candidates # {}
    /\ CandidatesProcessed
    /\ \A b \in candidates : ~ Worse(index, b, tip)

\* A step has left the tip below where it was, because a block on the way to a
\* better chain failed, and the thread has not come round again: the next turn
\* of its loop will move to a candidate better than b that can be activated.
PassedOver(b) ==
    /\ ~ Quiescent
    /\ \E c \in candidates : Worse(index, b, c) /\ Unusable(c) = {}

\* Until the node gives up, whatever is valid as far as known, has its data and
\* sorts at least as well as the tip is a candidate, as is the tip; or is passed
\* over.
CandidatesComplete ==
    ~ shutdown =>
        \A b \in Known :
            /\ ~ Worse(index, b, tip) /\ AllProcessed(b) /\ ~ InvalidAncestor(b)
            /\ AllData(b) \/ b = tip
            => b \in candidates \/ PassedOver(b)

\* While the node runs, mapBlocksUnlinked holds the blocks that wait for a
\* parent: all those that were never linked, none whose ancestors are all
\* there, and those that lost their place among the candidates to a pruned
\* ancestor, unless they are passed over.
UnlinkedExact ==
    \A b \in Known \ {Genesis} :
        LET waits == b \in Range(unlinked)
        IN /\ index[b].haveData /\ ~ AllProcessed(b) /\ ~ InvalidAncestor(b) => waits
           /\ waits => index[b].haveData /\ ~ AllData(b)
           /\ /\ ~ shutdown
              /\ index[b].haveData /\ AllProcessed(b) /\ ~ AllData(b)
              /\ ~ Worse(index, b, tip) /\ b \notin candidates /\ ~ InvalidAncestor(b)
              => waits \/ PassedOver(b)

\* What CheckBlockIndex asserts, which the node itself tests only when it is
\* started with -checkblockindex, whatever the order in which headers and blocks
\* arrive, are pruned, fail, are invalidated and reconsidered while threads are
\* inside ActivateBestChain.  All but two of the assertions hold as they stand
\* in every state.  That a block as good as the tip is a candidate, and that one
\* which was removed for a pruned ancestor waits for it, hold as they stand when
\* no thread is inside ActivateBestChain; after a step that failed they need the
\* exception of PassedOver, which the code's assertions do not make.  (A block
\* stored on a failed parent, one pruned while it waits and a child of a failed
\* block reconsidered alone break others; the README has the histories.)
CheckBlockIndex ==
    /\ TypeOK
    /\ IndexSound
    /\ LinkedOnceProcessed
    /\ FailureHasCause
    /\ CandidatesSound
    /\ CandidatesComplete
    /\ UnlinkedExact

\* When no thread is inside ActivateBestChain, the active chain has at least as
\* much work as every chain that is not known to be invalid and has its data,
\* and among equals it is the one that was complete first.
BestChainActive ==
    Quiescent /\ ~ shutdown =>
        \A b \in Known :
            /\ \A x \in Path[b] : ~ Failed(index[x])
            /\ AllProcessed(b)
            /\ \A x \in Branch(b) : index[x].haveData
            => ~ Worse(index, tip, b)

\* The active chain never contains a block that failed, in any interleaving
\* of steps, arrivals and operator calls, and every block of it was checked.
ActiveChainValid ==
    \A x \in Path[tip] \ {Genesis} : /\ ~ Failed(index[x])
                                     /\ x \notin BadBlocks
                                     /\ index[x].validity >= BLOCK_VALID_SCRIPTS

\* Once the operator leaves the index alone, ActivateBestChain returns: it does
\* not go round for ever between branches that fail, whatever arrives, is
\* pruned or is done by another thread between its steps.
ActivationReturns ==
    <>[][~ \E t \in Threads : \/ \E b \in Invalidates : InvalidateBlock(t, b)
                              \/ \E b \in Reconsiders : ReconsiderBlock(t, b)]_vars
    => \A t \in Threads : pc[t] # "idle" ~> (pc[t] = "idle" \/ shutdown)

=============================================================================
