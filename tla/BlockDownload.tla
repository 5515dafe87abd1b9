--------------------------- MODULE BlockDownload ---------------------------
(***************************************************************************)
(* Which block is asked from which peer.  Headers and announcements tell   *)
(* what a peer has; SendMessages asks it for the blocks of its best chain  *)
(* that are missing, within a window beyond the last block both have, and  *)
(* disconnects a peer that stalls the window or lets a request time out.   *)
(* mapBlocksInFlight, the peers' queues and the counters are kept in step  *)
(* by MarkBlockAsReceived, MarkBlockAsInFlight and FinalizeNode.           *)
(*                                                                         *)
(* Time is left out: a timeout may have expired at any step, except for    *)
(* the Honest peers, who answer in time and stay.  The other peers send    *)
(* what they like when they like, or nothing.  Which chain is active       *)
(* follows from the blocks stored (module BlockTree has the details).      *)
(***************************************************************************)
EXTENDS Integers, Sequences, FiniteSets, FiniteSetsExt, SequencesExt, Trees

CONSTANTS
    Block, Genesis, Parent,   \* the block tree
    Bad,                      \* blocks that do not connect
    Peers, Honest, Preferred, \* Preferred: outbound or whitelisted peers
    Whitelisted,              \* not banned, their blocks are taken unasked
    Offers,                   \* Offers[p]: the tips p may announce
    Window,                   \* BLOCK_DOWNLOAD_WINDOW
    MaxTransit,               \* MAX_BLOCKS_IN_TRANSIT_PER_PEER
    MIN_BLOCKS_TO_KEEP,       \* how far ahead a block is taken unasked
    MaxInbound,               \* most peers that may leave connected at a time
    MaxConnects,              \* bound on connections of peers that may leave
    None

ASSUME BlockDownloadAssumption ==
    /\ IsTree(Block, Genesis, Parent) /\ IsFiniteSet(Block)
    /\ Bad \subseteq Block \ {Genesis}
    /\ IsFiniteSet(Peers) /\ Honest \subseteq Peers /\ Preferred \subseteq Peers
    /\ Whitelisted \subseteq Preferred /\ MIN_BLOCKS_TO_KEEP \in Nat
    /\ Offers \in [Peers -> SUBSET Block]
    /\ Window \in Nat \ {0} /\ MaxTransit \in Nat \ {0} /\ MaxConnects \in Nat
    /\ MaxInbound \in Nat
    /\ None \notin Block \cup Peers

VARIABLES
    index,      \* mapBlockIndex
    data,       \* blocks with BLOCK_HAVE_DATA
    failed,     \* blocks with BLOCK_FAILED_MASK
    tip,        \* chainActive.Tip()
    node,       \* mapNodeState, with fDisconnect: see InitializeNode
    inFlight,   \* mapBlocksInFlight: block |-> peer
    nQueued,    \* nQueuedValidatedHeaders
    nSync,      \* nSyncStarted
    nPref,      \* nPreferredDownload
    connects    \* connections of peers that may leave

chainVars == <<index, data, failed, tip>>
netVars == <<node, inFlight, nQueued>>
vars == <<chainVars, netVars, nSync, nPref, connects>>

Depth[b \in Block] == IF b = Genesis THEN 0 ELSE Depth[Parent[b]] + 1

Ancestry[b \in Block] == {b} \cup IF b = Genesis THEN {} ELSE Ancestry[Parent[b]]

GetAncestor(b, h) == CHOOSE a \in Ancestry[b] : Depth[a] = h

LastCommonAncestor(a, b) ==
    CHOOSE c \in Ancestry[a] \cap Ancestry[b] :
        \A d \in Ancestry[a] \cap Ancestry[b] : Depth[d] <= Depth[c]

Shallower(a, b) == Depth[a] < Depth[b]

Deepest(S) == {b \in S : \A c \in S : Depth[c] <= Depth[b]}

-----------------------------------------------------------------------------
(* Requests *)

Net == [node |-> node, inFlight |-> inFlight, nQueued |-> nQueued]

SetNet(net) == node' = net.node /\ inFlight' = net.inFlight /\ nQueued' = net.nQueued

Count(cond) == IF cond THEN 1 ELSE 0

MarkBlockAsReceived(net, b) ==
    IF b \notin DOMAIN net.inFlight THEN net
    ELSE LET p == net.inFlight[b]
             st == net.node[p]
             it == CHOOSE k \in DOMAIN st.queue : st.queue[k].hash = b
             valid == st.queue[it].valid
         IN  [node |-> [net.node EXCEPT ![p] =
                           [st EXCEPT !.queue = RemoveAt(@, it),
                                      !.n = @ - 1, !.nValid = @ - Count(valid),
                                      !.stalling = FALSE]],
              inFlight |-> [c \in DOMAIN net.inFlight \ {b} |-> net.inFlight[c]],
              nQueued |-> net.nQueued - Count(valid)]

MarkBlockAsInFlight(net, p, b, valid) ==
    LET free == MarkBlockAsReceived(net, b)
        st == free.node[p]
    IN  [node |-> [free.node EXCEPT ![p] =
                      [st EXCEPT !.queue = Append(@, [hash |-> b, valid |-> valid]),
                                 !.n = @ + 1, !.nValid = @ + Count(valid)]],
         inFlight |-> [c \in DOMAIN free.inFlight \cup {b} |->
                          IF c = b THEN p ELSE free.inFlight[c]],
         nQueued |-> free.nQueued + Count(valid)]

\* The blocks of a sequence are asked from p, one after the other.
AskFor(net, p, blocks) ==
    LET asked[k \in 0 .. Len(blocks)] ==
            IF k = 0 THEN net
            ELSE MarkBlockAsInFlight(asked[k - 1], p, blocks[k], TRUE)
    IN  asked[Len(blocks)]

\* An actually better block, or the first, is the best known one.
Better(best, b) == IF best = None \/ Depth[b] >= Depth[best] THEN b ELSE best

ProcessBlockAvailability(idx, st) ==
    IF st.unknown \in idx
    THEN [st EXCEPT !.best = Better(@, st.unknown), !.unknown = None]
    ELSE st

UpdateBlockAvailability(idx, st, b) ==
    LET now == ProcessBlockAvailability(idx, st)
    IN  IF b \in idx THEN [now EXCEPT !.best = Better(@, b)]
        ELSE [now EXCEPT !.unknown = b]

Have(b) == b \in data \cup Ancestry[tip]

\* Fault variant: a block stored ahead of its parent counts.
Linked_Stored(b) == b \in data

\* Fault variant: the active chain does not count.
Linked_Ahead(b) == Ancestry[b] \subseteq data /\ b \notin Ancestry[tip]

\* nChainTx: the block and all before it have been stored.
Linked(b) == Ancestry[b] \subseteq data

\* FindNextBlocksToDownload for p with state st: the blocks to ask for, the
\* staller and the new last common block.  The walk goes up the peer's best
\* chain from the last common block; it ends before a failed block, when
\* enough is found, or at the first missing block past the window.
FindNextBlocksToDownload(p, st) ==
    LET count == MaxTransit - st.n
        guess == IF st.common # None THEN st.common
                 ELSE GetAncestor(tip, Min({Depth[st.best], Depth[tip]}))
        common == LastCommonAncestor(guess, st.best)
        nWindowEnd == Depth[common] + Window
        nMaxHeight == Min({Depth[st.best], nWindowEnd + 1})
        at(h) == GetAncestor(st.best, h)
        sound == {h \in Depth[common] + 1 .. nMaxHeight :
                     \A k \in Depth[common] + 1 .. h : at(k) \notin failed}
        held == {h \in sound : Have(at(h))}
        flying == {h \in sound \ held : at(h) \in DOMAIN inFlight}
        missing == sound \ (held \cup flying)
        ask == {h \in missing : /\ h <= nWindowEnd
                                /\ Cardinality({k \in missing : k <= h}) <= count}
        linked == {h \in held : /\ Linked(at(h))
                                /\ Cardinality(ask) = count => h < Max(ask)}
        waitingfor == IF flying = {} THEN None ELSE inFlight[at(Min(flying))]
    IN  IF st.best = None \/ Depth[st.best] < Depth[tip]
        THEN [fetch |-> {}, common |-> st.common, staller |-> None]
        ELSE [fetch |-> {at(h) : h \in ask},
              common |-> IF linked = {} THEN common ELSE at(Max(linked)),
              staller |-> IF /\ nWindowEnd + 1 \in missing
                             /\ ask = {} /\ waitingfor # p
                          THEN waitingfor ELSE None]

-----------------------------------------------------------------------------
(* Peers come and go *)

NewNode == [best |-> None, unknown |-> None, common |-> None, queue |-> <<>>,
            n |-> 0, nValid |-> 0, stalling |-> FALSE, sync |-> FALSE,
            pref |-> FALSE, ban |-> FALSE, close |-> FALSE, up |-> FALSE,
            owes |-> FALSE]

Init ==
    /\ index = {Genesis} /\ data = {Genesis} /\ failed = {} /\ tip = Genesis
    /\ node = [p \in {} |-> NewNode] /\ inFlight = [b \in {} |-> None]
    /\ nQueued = 0 /\ nSync = 0 /\ nPref = 0 /\ connects = 0

InitializeNode(p) ==
    /\ p \notin DOMAIN node
    /\ p \notin Honest => /\ connects < MaxConnects
                         /\ Cardinality(DOMAIN node \ Honest) < MaxInbound
    /\ node' = [q \in DOMAIN node \cup {p} |-> IF q = p THEN NewNode ELSE node[q]]
    /\ connects' = connects + Count(p \notin Honest)
    /\ UNCHANGED <<chainVars, inFlight, nQueued, nSync, nPref>>

\* The message handler takes messages of p.
Handles(p) == p \in DOMAIN node /\ node[p].up /\ ~node[p].close

\* The "version" message: UpdatePreferredDownload.
Version(p) ==
    /\ p \in DOMAIN node /\ ~node[p].up
    /\ node' = [node EXCEPT ![p] = [node[p] EXCEPT !.up = TRUE, !.pref = p \in Preferred]]
    /\ nPref' = nPref + Count(p \in Preferred)
    /\ UNCHANGED <<chainVars, inFlight, nQueued, nSync, connects>>

\* Fault variant: the blocks asked from the peer are not released.
Released_None(p) == {}

\* The blocks of the peer's queue, which FinalizeNode takes out of the map.
Released(p) == {e.hash : e \in ToSet(node[p].queue)}

\* The socket handler drops a peer that is to be disconnected, or that left.
\* nQueuedValidatedHeaders is not adjusted.
FinalizeNode(p) ==
    /\ p \in DOMAIN node
    /\ node[p].close \/ p \notin Honest
    /\ nSync' = nSync - Count(node[p].sync)
    /\ nPref' = nPref - Count(node[p].pref)
    /\ inFlight' = [b \in DOMAIN inFlight \ Released(p) |-> inFlight[b]]
    /\ node' = [q \in DOMAIN node \ {p} |-> node[q]]
    /\ UNCHANGED <<chainVars, nQueued, connects>>

-----------------------------------------------------------------------------
(* Messages *)

\* "headers": those of the blocks after from, up to b.  Those before one that is
\* refused are kept: a block known to fail is refused, and one that is new and
\* has no good parent, which counts against the peer.
Headers(p, b, from) ==
    LET st == [node[p] EXCEPT !.owes = FALSE]
        sent == Ancestry[b] \ Ancestry[from]
        misfit == (from \notin index \/ from \in failed)
                  /\ \E a \in sent : Parent[a] = from /\ a \notin index
        refused == IF misfit THEN sent
                   ELSE {a \in sent : sent \cap Ancestry[a] \cap failed # {}}
        idx == index \cup (sent \ refused)
    IN  /\ Handles(p) /\ (p \in Honest => from \in index)
        /\ index' = idx
        /\ node' = [node EXCEPT ![p] =
              IF refused = {} THEN UpdateBlockAvailability(idx, st, b)
              ELSE [st EXCEPT !.ban = @ \/ misfit]]
        /\ UNCHANGED <<data, failed, tip, inFlight, nQueued, nSync, nPref, connects>>

\* "inv" of b: its headers are asked for, and when the tip is recent the block
\* itself.
Inv(p, b, recent) ==
    LET new == b \notin index /\ b \notin DOMAIN inFlight
        told == [UpdateBlockAvailability(index, node[p], b) EXCEPT !.owes = @ \/ new]
        net == [Net EXCEPT !.node = [node EXCEPT ![p] = told]]
    IN  /\ Handles(p)
        /\ SetNet(IF new /\ recent /\ node[p].n < MaxTransit
                  THEN MarkBlockAsInFlight(net, p, b, FALSE) ELSE net)
        /\ UNCHANGED <<chainVars, nSync, nPref, connects>>

\* ActivateBestChain: candidates are tried in the order of their work until one
\* connects.  What a failed try walks is marked from the block that does not
\* connect on.  Of equal work the older is tried first, here any of them.
Activate(have, bad) ==
    LET candidates == {b \in have \ bad : /\ Ancestry[b] \subseteq have
                                          /\ Depth[b] > Depth[tip]}
        good == {b \in candidates : Ancestry[b] \cap Bad = {}}
    IN  \E best \in IF good = {} THEN {tip} ELSE Deepest(good),
           even \in SUBSET (candidates \ good) :
           LET tried == {b \in candidates \ good :
                           \/ Depth[b] > Depth[best]
                           \/ Depth[b] = Depth[best] /\ b \in even}
           IN  /\ tip' = best
               /\ failed' = bad \cup {a \in UNION {Ancestry[b] : b \in tried} :
                                        Ancestry[a] \cap Bad # {}}

\* AcceptBlock stores a block that was asked for (ProcessNewBlock counts those of
\* whitelisted peers in), or has more work than the tip and is not too far ahead.
\* No block is pruned: one that was processed before is still stored.
Wanted(p, b, synced) ==
    \/ b \in DOMAIN inFlight
    \/ p \in Whitelisted /\ synced
    \/ Depth[b] > Depth[tip] /\ Depth[b] <= Depth[tip] + MIN_BLOCKS_TO_KEEP

\* The peer's score reaches -banscore, here 10 points.
Misbehaving(net, p) ==
    LET st == [net.node[p] EXCEPT !.ban = TRUE]
    IN  [net EXCEPT !.node = [net.node EXCEPT ![p] = st]]

\* "block": ProcessNewBlock with a block that passes CheckBlock.  One without
\* a good parent is refused and counts against the peer, and so does one that
\* does not connect (InvalidBlockFound; who brought a block that is tried later
\* only, mapBlockSource, is left out).  An honest peer sends what it is asked
\* for, after the headers.  synced: not in the initial block download.
NewBlock(p, b, synced) ==
    LET orphan == b \notin index /\ (Parent[b] \notin index \/ Parent[b] \in failed)
        net == MarkBlockAsReceived(Net, b)
    IN  /\ Handles(p) /\ (p \in Honest => b \in Released(p) /\ ~node[p].owes)
        /\ IF orphan \/ b \in failed THEN UNCHANGED chainVars
           ELSE /\ index' = index \cup {b}
                /\ data' = IF Wanted(p, b, synced) THEN data \cup {b} ELSE data
                /\ Activate(data', failed)
        /\ SetNet(IF orphan \/ b \in Bad \cap (failed' \ failed)
                  THEN Misbehaving(net, p) ELSE net)
        /\ UNCHANGED <<nSync, nPref, connects>>

\* "block" with the header of b and other contents: it is no longer in flight,
\* and counts against the peer.
CorruptBlock(p, b) ==
    /\ Handles(p) /\ p \notin Honest
    /\ SetNet(Misbehaving(MarkBlockAsReceived(Net, b), p))
    /\ UNCHANGED <<chainVars, nSync, nPref, connects>>

\* SendMessages for p: start the header sync; disconnect for misbehaviour (not a
\* whitelisted peer), for stalling or for a request that timed out; ask for blocks, and note who
\* is in the way.  fresh: the best header is recent; late: what p owes has
\* timed out; synced: not in the initial block download.
SendMessages(p, fresh, late, synced) ==
    LET st == node[p]
        fFetch == st.pref \/ nPref = 0
        start == ~st.sync /\ ((nSync = 0 /\ fFetch) \/ fresh)
        close == (st.ban /\ p \notin Whitelisted) \/ (late /\ (st.stalling \/ st.queue # <<>>))
        fetch == ~close /\ (fFetch \/ synced) /\ st.n < MaxTransit
        now == [st EXCEPT !.sync = @ \/ start, !.owes = @ \/ start,
                          !.ban = FALSE, !.close = close]
        known == ProcessBlockAvailability(index, now)
    IN  /\ Handles(p) /\ (late => p \notin Honest)
        /\ nSync' = nSync + Count(start)
        /\ IF fetch
           THEN \E found \in {FindNextBlocksToDownload(p, known)} :
                   LET asking == [known EXCEPT !.common = found.common]
                       net == [Net EXCEPT !.node = [node EXCEPT ![p] = asking]]
                       slow == [net.node[found.staller] EXCEPT !.stalling = TRUE]
                   IN  IF found.fetch = {} /\ st.n = 0 /\ found.staller # None
                       THEN SetNet([net EXCEPT !.node = [net.node EXCEPT ![found.staller] = slow]])
                       ELSE \E blocks \in Listings(found.fetch, Shallower) :
                               SetNet(AskFor(net, p, blocks))
           ELSE SetNet([Net EXCEPT !.node = [node EXCEPT ![p] = now]])
        /\ UNCHANGED <<chainVars, nPref, connects>>

Held(p) == UNION {Ancestry[b] : b \in Offers[p]} \ {Genesis}

Next ==
    \E p \in Peers :
        \/ InitializeNode(p) \/ Version(p) \/ FinalizeNode(p)
        \/ \E b \in Offers[p] : \E from \in Ancestry[b] \ {b} : Headers(p, b, from)
        \/ \E b \in Offers[p], recent \in BOOLEAN : Inv(p, b, recent)
        \/ \E b \in Held(p) : CorruptBlock(p, b)
                             \/ \E synced \in BOOLEAN : NewBlock(p, b, synced)
        \/ \E fresh, late, synced \in BOOLEAN : SendMessages(p, fresh, late, synced)

\* An honest peer has something to say, or to be asked, that would change the
\* node's state.
Announces(p, b) ==
    \/ UpdateBlockAvailability(index, node[p], b) # node[p]
    \/ b \notin index \cup DOMAIN inFlight /\ ~node[p].owes

Asks(p) ==
    \/ ~node[p].sync /\ nSync = 0
    \/ /\ node[p].n < MaxTransit
       /\ LET found == FindNextBlocksToDownload(p, ProcessBlockAvailability(index, node[p]))
          IN  found.fetch # {} \/ found.common # node[p].common

\* The message handler serves every peer in turn, the socket handler drops
\* those to be disconnected, and timeouts expire; an honest peer connects,
\* answers what it is asked and goes on announcing.  Each conjunct is weak
\* fairness of the step that ends the condition, which the step is the only
\* one to end or which another may end as well: FinalizeNode, SendMessages
\* with an expired timeout or a ban, Version, Headers, NewBlock, Inv and
\* SendMessages.  The one conjunct that is no fairness: a whitelisted peer, which
\* the node never bans, does not misbehave for ever (each corrupt block it sends
\* takes the request for that block from whoever owes it).
Fairness ==
    /\ \A p \in Peers :
          /\ []<>~(p \in DOMAIN node /\ node[p].close)
          /\ []<>~(Handles(p) /\ (node[p].ban \/ node[p].queue # <<>>) /\ p \notin Honest)
    /\ \A p \in Whitelisted : <>[]~(p \in DOMAIN node /\ node[p].ban)
    /\ \A p \in Honest :
          /\ []<>Handles(p)
          /\ []<>~(Handles(p) /\ node[p].owes)
          /\ \A b \in Held(p) : []<>~(Handles(p) /\ ~node[p].owes /\ b \in Released(p))
          /\ \A b \in Offers[p] : []<>~(Handles(p) /\ Announces(p, b))
          /\ []<>~(Handles(p) /\ Asks(p))

Spec == Init /\ [][Next]_vars /\ Fairness

-----------------------------------------------------------------------------
(* Properties *)

\* The shape of the index, of the peers' states and of the requests.
TypeOK ==
    /\ {tip} \cup data \cup failed \subseteq index /\ index \subseteq Block
    /\ DOMAIN node \subseteq Peers
    /\ \A p \in DOMAIN node :
          /\ {node[p].best, node[p].common} \subseteq index \cup {None}
          /\ node[p].unknown \in Block \cup {None}
          /\ node[p].n \in 0 .. MaxTransit /\ node[p].nValid \in 0 .. node[p].n
    /\ connects \in 0 .. MaxConnects

\* No block that is stored is still waited for, so no peer times out for a
\* block another peer has brought.
StoredNotAwaited == DOMAIN inFlight \cap data = {}

\* A peer marked as a staller owes a block: what it brings, and what others
\* bring in its place, clears the mark before the timeout can strike.
StallersOwe == \A p \in DOMAIN node : node[p].stalling => node[p].queue # <<>>

\* mapBlocksInFlight and the queues of connected peers hold the same requests,
\* each block once, and the counters count them, through late and duplicate
\* blocks, timeouts and disconnections: no request belongs to a peer that is
\* gone, whose state MarkBlockAsReceived would follow.  nQueuedValidatedHeaders,
\* which FinalizeNode does not lower, counts at least the requests there are.
\* No stored block is awaited, and no peer is a staller that owes nothing.
InFlightConsistent ==
    /\ TypeOK /\ StoredNotAwaited /\ StallersOwe
    /\ \A b \in DOMAIN inFlight :
          /\ inFlight[b] \in DOMAIN node
          /\ Cardinality({k \in DOMAIN node[inFlight[b]].queue :
                            node[inFlight[b]].queue[k].hash = b}) = 1
    /\ \A p \in DOMAIN node :
          LET q == node[p].queue
          IN  /\ \A k \in DOMAIN q : q[k].hash \in DOMAIN inFlight
                                     /\ inFlight[q[k].hash] = p
              /\ node[p].n = Len(q)
              /\ node[p].nValid = Cardinality({k \in DOMAIN q : q[k].valid})
    /\ nSync = Cardinality({p \in DOMAIN node : node[p].sync})
    /\ nPref = Cardinality({p \in DOMAIN node : node[p].pref})
    /\ nQueued >= Cardinality({b \in DOMAIN inFlight :
          \E e \in ToSet(node[inFlight[b]].queue) : e.hash = b /\ e.valid})

\* The last common block of a peer is one all of whose ancestors are stored
\* here ("The last full block we both have").
CommonIsHeld ==
    \A p \in DOMAIN node :
        node[p].common # None => Ancestry[node[p].common] \subseteq data

\* What the peers in the way hold back they lose: the tip reaches the best
\* block of an honest peer, whatever the others announce, ask, drop or delay
\* (only a whitelisted peer that corrupts blocks for ever could prevent it).
Synced == <>[](\A p \in Honest : \A b \in Offers[p] : Depth[tip] >= Depth[b])
=============================================================================
