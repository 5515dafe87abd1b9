-------------------------- MODULE SaplingMigration --------------------------
(***************************************************************************)
(* The Sprout-to-Sapling migration: CWallet::RunSaplingMigration           *)
(* (src/src/wallet/wallet.cpp), called by the notification thread for each *)
(* connected block, and AsyncRPCOperation_saplingmigration, which it runs  *)
(* through the operation queue.  At height 495 modulo 500 a batch is       *)
(* started, at height 499 its transactions are sent; reorganisations, and  *)
(* enabling the migration half way, let the two come in any order.         *)
(*                                                                         *)
(* RunSaplingMigration holds cs_main and cs_wallet throughout; a step that *)
(* needs the wallet waits for it.                                          *)
(***************************************************************************)
EXTENDS AsyncRPC

CONSTANT MaxBatch     \* most transactions of one batch (5 in the code)

VARIABLES mpc,           \* where RunSaplingMigration is
          last,          \* saplingMigrationOperationId
          pending,       \* pendingSaplingMigrationTxs, by creator
          numTxCreated,  \* transactions an operation has built
          tested         \* operations between isCancelled() and cs_wallet

migrationVars == <<mpc, last, pending, numTxCreated, tested>>
vars == <<asyncVars, migrationVars>>

TypeOK ==
    /\ AsyncTypeOK
    /\ mpc \in {"off", "start", "send", "cancelStart", "cancelSend"}
    /\ last \in Migrations \cup {NoOp}
    /\ pending \in Seq(Migrations)
    /\ numTxCreated \in [Migrations -> 0..MaxBatch]
    /\ tested \subseteq Migrations

Init ==
    /\ AsyncInit
    /\ mpc = "off" /\ last = NoOp /\ pending = <<>>
    /\ numTxCreated = [o \in Migrations |-> 0]
    /\ tested = {}

\* main_impl has built one more transaction and was not cancelled ...
BuildMigrationTx(w) ==
    LET o == wop[w] IN
    /\ wpc[w] = "running" /\ o \in Migrations \ tested
    /\ state[o] # "CANCELLED"
    /\ numTxCreated[o] < MaxBatch
    /\ tested' = tested \cup {o}
    /\ UNCHANGED <<asyncVars, mpc, last, pending, numTxCreated>>

\* ... and stores it once it has cs_wallet, without a second look.
AddPendingSaplingMigrationTx(w) ==
    LET o == wop[w] IN
    /\ mpc = "off" /\ o \in tested
    /\ pending' = Append(pending, o)
    /\ numTxCreated' = [numTxCreated EXCEPT ![o] = @ + 1]
    /\ tested' = tested \ {o}
    /\ UNCHANGED <<asyncVars, mpc, last>>

\* lastOperation->cancel() through a base pointer: cancel() is not virtual,
\* so this is AsyncRPCOperation::cancel, which leaves a running batch alone.
MigrationTest(phase) ==
    /\ mpc = "off" /\ QueueFree
    /\ mpc' = IF last \in operation_map /\ state[last] = "READY"
              THEN IF phase = "start" THEN "cancelStart" ELSE "cancelSend"
              ELSE phase
    /\ UNCHANGED <<asyncVars, last, pending, numTxCreated, tested>>

MigrationCancel ==
    /\ mpc \in {"cancelStart", "cancelSend"}
    /\ state' = [state EXCEPT ![last] = "CANCELLED"]
    /\ mpc' = IF mpc = "cancelStart" THEN "start" ELSE "send"
    /\ UNCHANGED <<queueVars, walletVars, closeVars, wpc, wop, runs, last,
                   pending, numTxCreated, tested>>

\* Height 495: a new operation takes the place of the last one.
MigrationStart(o) ==
    /\ mpc = "start" /\ QueueFree
    /\ o \in Migrations /\ state[o] = "none"
    /\ pending' = <<>>
    /\ last' = o
    /\ state' = [state EXCEPT ![o] = "READY"]
    /\ addOperation(o)
    /\ mpc' = "off"
    /\ UNCHANGED <<closed, walletVars, closeVars, wop, runs, numTxCreated,
                   tested>>

\* Height 499: CommitTransaction for every pending transaction.
MigrationSend ==
    /\ mpc = "send"
    /\ pending' = <<>>
    /\ mpc' = "off"
    /\ UNCHANGED <<asyncVars, last, numTxCreated, tested>>

Next ==
    \/ /\ mpc = "off"
       /\ \/ \E o \in Ops : z_sendmany(o) \/ z_shieldcoinbase(o)
                          \/ z_mergetoaddress(o) \/ z_getoperationresult(o)
          \/ \E w \in Workers : wop[w] \notin tested /\ WalletStep(w)
       /\ UNCHANGED migrationVars
    \/ \E w \in Workers : BuildMigrationTx(w) \/ AddPendingSaplingMigrationTx(w)
    \/ \E w \in Workers :
          (QueueStep(w) \/ SpuriousWakeup(w)) /\ UNCHANGED migrationVars
    \/ (Close \/ CloserStep) /\ UNCHANGED migrationVars
    \/ \E phase \in {"start", "send"} : MigrationTest(phase)
    \/ MigrationCancel
    \/ \E o \in Migrations : MigrationStart(o)
    \/ MigrationSend

Spec == Init /\ [][Next]_vars

\* Pending transactions belong to the current batch: RunSaplingMigration
\* cancels the last operation before it starts a batch or sends one.
PendingOfCurrentBatch == \A i \in DOMAIN pending : pending[i] = last
=============================================================================
