--------------------------- MODULE WalletRestart ---------------------------
(***************************************************************************)
(* wallet.dat, and a start from what it holds.  SetBestChain writes the    *)
(* notes with the locator of the CHAIN's tip, which the notifier may not   *)
(* have reached; a start without -rescan scans from where that locator     *)
(* meets the chain.                                                        *)
(***************************************************************************)
EXTENDS MCWalletNotify

VARIABLES
    disk,        \* the last committed SetBestChain
    unflushed    \* records AddToWallet wrote since, without a flush

restartVars == <<vars, disk, unflushed>>

InitOnDisk ==
    /\ Init
    /\ disk = [wallet |-> wallet, size |-> 0, locator |-> Genesis]
    /\ unflushed = wallet

\* AddToWallet writes the records that a SyncTransaction step changes.
WritesRecords ==
    LET written == {t \in DOMAIN wallet' :
                       t \notin DOMAIN wallet \/ wallet'[t] # wallet[t]}
    IN  unflushed' =
            IF pc' \in {"decrement", "increment", "sleep"}
            THEN [t \in DOMAIN unflushed \cup written |->
                     IF t \in written THEN wallet'[t] ELSE unflushed[t]]
            ELSE unflushed

\* FlushStateToDisk calls SetBestChain with the locator of the chain's tip.
\* SetBestChainINTERNAL takes no cs_wallet: while the notifier updates the
\* witnesses it may write some notes, and the size, from before the update
\* and the others from after it.
SetBestChain ==
    LET after == CASE pc = "decrement" -> DecrementNoteWitnesses(wallet, lastTip)
                   [] pc = "increment" ->
                        IncrementNoteWitnesses(wallet, Head(batch.stack).block)
                   [] OTHER -> wallet
        sizes == CASE pc = "decrement" -> {cacheSize, cacheSize - 1}
                   [] pc = "increment" -> {cacheSize, IncrementedSize(cacheSize)}
                   [] OTHER -> {cacheSize}
    IN  /\ Unlocked
        /\ crashes < MaxCrashes   \* afterwards nothing reads it
        /\ \E later \in SUBSET DOMAIN wallet, n \in sizes :
              disk' = [wallet |-> [t \in DOMAIN wallet |->
                                     IF t \in later THEN after[t] ELSE wallet[t]],
                       size |-> n, locator |-> tip]
        /\ unflushed' = [t \in {} |-> NewNote(None)]
        /\ UNCHANGED vars

\* What a crash leaves of wallet.dat: the committed state, and any of the
\* records written since without a flush.
Survivors ==
    {[t \in DOMAIN disk.wallet \cup kept |->
         IF t \in kept THEN unflushed[t] ELSE disk.wallet[t]] :
        kept \in SUBSET DOMAIN unflushed}

\* The process dies and starts again on what is on disk.
Restart ==
    /\ ChainRestarts
    /\ \E w \in Survivors :
          /\ wallet' = [t \in DOMAIN w |->
                          [w[t] EXCEPT !.wit = [k \in DOMAIN @ |-> Reloaded(@[k])]]]
          /\ nfMap' = LoadedNullifiers(w)
          /\ disk' = [disk EXCEPT !.wallet = w]
    /\ cacheSize' = disk.size
    /\ ScanForWalletTransactions(FindFork(dbTip, disk.locator))
    /\ unflushed' = [t \in {} |-> NewNote(None)]

\* A step of the notifier, or of the scan, after which InitLoadWallet calls
\* SetBestChain.
NotifyOnDisk ==
    /\ Notify
    /\ IF batch.scan /\ ~batch'.scan
       THEN /\ disk' = [wallet |-> wallet', size |-> cacheSize', locator |-> tip]
            /\ unflushed' = [t \in {} |-> NewNote(None)]
       ELSE WritesRecords /\ UNCHANGED disk

NextOnDisk ==
    \/ /\ \/ \E b \in Blocks : ActivateBestChainStep(b) \/ InvalidateBlock(b)
          \/ \E t \in Txs : AddToMempool(t)
          \/ FlushChainState
       /\ UNCHANGED <<disk, unflushed>>
    \/ NotifyOnDisk
    \/ SetBestChain
    \/ Restart

SpecOnDisk == InitOnDisk /\ [][NextOnDisk]_restartVars
=============================================================================
