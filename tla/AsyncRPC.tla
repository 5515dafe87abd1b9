------------------------------ MODULE AsyncRPC ------------------------------
(***************************************************************************)
(* The asynchronous operations of the wallet RPCs: AsyncRPCQueue           *)
(* (src/src/asyncrpcqueue.cpp) and AsyncRPCOperation with its subclasses   *)
(* (src/src/asyncrpcoperation.*, src/src/wallet/asyncrpcoperation_*.cpp).  *)
(*                                                                         *)
(* Every critical section of the queue's lock_ is one action, except that  *)
(* of cancelAllOperations, which tests and stores the state of one         *)
(* operation after the other: workers read and store operation states      *)
(* without lock_, so each of these accesses is an action of its own.       *)
(* finish() is called by tests only and is left out.                       *)
(*                                                                         *)
(* Coins stand for the UTXOs and notes an operation spends.                *)
(***************************************************************************)
EXTENDS Integers, Sequences, FiniteSets, SequencesExt

CONSTANTS Sends,       \* z_sendmany: selects its inputs when it runs
          Shields,     \* z_shieldcoinbase: locks its inputs when it is made
          Merges,      \* z_mergetoaddress: locks its inputs when it is made
          Migrations,  \* the operations RunSaplingMigration creates
          Workers,     \* threads added by addWorker
          Coins,
          NoOp         \* no operation

Locks == Shields \cup Merges
Ops == Sends \cup Locks \cup Migrations

ASSUME OpsAssumption ==
    /\ Sends \cap Locks = {} /\ Migrations \cap (Sends \cup Locks) = {}
    /\ Shields \cap Merges = {}
    /\ NoOp \notin Ops

VARIABLES state,          \* AsyncRPCOperation::state_, "none" before construction
          inputs,         \* the coins an operation will spend
          operation_map,  \* ids an RPC can still ask for
          queue,          \* operation_id_queue_
          closed,         \* the queue's flag closed_
          wpc, wop,       \* each worker's place in run() and its operation
          shut,           \* the thread in closeAndWait
          todo,           \* operations cancelAllOperations has not reached
          testing,        \* the one it found READY and is about to cancel
          lockedCoins,    \* CWallet::setLockedCoins
          spent,          \* coins spent by a committed transaction
          runs            \* how often main() set an operation EXECUTING

queueVars == <<operation_map, queue, closed>>
walletVars == <<inputs, lockedCoins, spent>>
closeVars == <<shut, todo, testing>>
asyncVars == <<state, queueVars, walletVars, closeVars, wpc, wop, runs>>

Final == {"CANCELLED", "FAILED", "SUCCESS"}

\* Where a worker is inside an operation: from pop to the end of main().
InMain == {"main", "execute", "running", "unlock"}

AsyncTypeOK ==
    /\ state \in [Ops -> Final \cup {"none", "READY", "EXECUTING"}]
    /\ inputs \in [Ops -> SUBSET Coins]
    /\ operation_map \subseteq Ops
    /\ queue \in Seq(Ops) /\ IsInjective(queue)
    /\ closed \in BOOLEAN
    /\ wpc \in [Workers -> InMain \cup {"loop", "waiting", "popped", "exited"}]
    /\ wop \in [Workers -> Ops \cup {NoOp}]
    /\ shut \in {"open", "closing", "cancelling", "joining", "done"}
    /\ todo \subseteq Ops /\ testing \in Ops \cup {NoOp}
    /\ lockedCoins \subseteq Coins /\ spent \subseteq Coins
    /\ runs \in [Ops -> Nat]

AsyncInit ==
    /\ state = [o \in Ops |-> "none"]
    /\ inputs = [o \in Ops |-> {}]
    /\ operation_map = {} /\ queue = <<>>
    /\ closed = FALSE
    /\ wpc = [w \in Workers |-> "loop"]
    /\ wop = [w \in Workers |-> NoOp]
    /\ shut = "open" /\ todo = {} /\ testing = NoOp
    /\ lockedCoins = {} /\ spent = {}
    /\ runs = [o \in Ops |-> 0]

\* lock_ is free: cancelAllOperations is the only holder across steps.
QueueFree == shut # "cancelling"

-----------------------------------------------------------------------------
(***************************************************************************)
(* Calls from RPC handlers.                                                *)
(***************************************************************************)

Waiting == {w \in Workers : wpc[w] = "waiting"}

\* Fault variant: the new operation is queued without a wake-up.
NotifyOne_Lost == UNCHANGED wpc

\* condition_.notify_one().
NotifyOne ==
    \/ Waiting = {} /\ UNCHANGED wpc
    \/ \E w \in Waiting : wpc' = [wpc EXCEPT ![w] = "loop"]

\* Fault variant: the queue takes operations after close().
Accepting_Always == TRUE

Accepting == ~closed

\* addOperation: refused, silently, once the queue is closed.
addOperation(o) ==
    IF ~Accepting
    THEN UNCHANGED <<operation_map, queue, wpc>>
    ELSE /\ operation_map' = operation_map \cup {o}
         /\ queue' = Append(queue, o)
         /\ NotifyOne

\* AvailableCoins: neither spent nor locked.
AvailableCoins == Coins \ (lockedCoins \cup spent)

\* lock_utxos and lock_notes, called by the constructor.
lock_utxos(ins) == lockedCoins \cup ins

\* A parameter error leaves everything as it is and is not modelled.
z_sendmany(o) ==
    /\ QueueFree
    /\ o \in Sends /\ state[o] = "none"
    /\ state' = [state EXCEPT ![o] = "READY"]
    /\ addOperation(o)
    /\ UNCHANGED <<closed, walletVars, closeVars, wop, runs>>

SubmitWithInputs(o) ==
    /\ QueueFree
    /\ state[o] = "none"
    /\ \E ins \in SUBSET AvailableCoins \ {{}} :
          /\ inputs' = [inputs EXCEPT ![o] = ins]
          /\ lockedCoins' = lock_utxos(ins)
    /\ state' = [state EXCEPT ![o] = "READY"]
    /\ addOperation(o)
    /\ UNCHANGED <<closed, spent, closeVars, wop, runs>>

z_shieldcoinbase(o) == o \in Shields /\ SubmitWithInputs(o)

z_mergetoaddress(o) == o \in Merges /\ SubmitWithInputs(o)

\* Reports a finished operation and forgets it.
z_getoperationresult(o) ==
    /\ QueueFree
    /\ o \in operation_map /\ state[o] \in Final
    /\ operation_map' = operation_map \ {o}
    /\ UNCHANGED <<state, queue, closed, walletVars, closeVars, wpc, wop,
                   runs>>

-----------------------------------------------------------------------------
(***************************************************************************)
(* AsyncRPCQueue::run, the worker thread.                                  *)
(***************************************************************************)

WaitForWork(w) ==
    /\ wpc[w] = "loop" /\ QueueFree
    /\ queue = <<>> /\ ~closed
    /\ wpc' = [wpc EXCEPT ![w] = "waiting"]
    /\ UNCHANGED <<state, queueVars, walletVars, closeVars, wop, runs>>

SpuriousWakeup(w) ==
    /\ wpc[w] = "waiting"
    /\ wpc' = [wpc EXCEPT ![w] = "loop"]
    /\ UNCHANGED <<state, queueVars, walletVars, closeVars, wop, runs>>

\* The queue is closed: what it still holds is dropped.
ExitWorker(w) ==
    /\ wpc[w] = "loop" /\ QueueFree
    /\ closed
    /\ wpc' = [wpc EXCEPT ![w] = "exited"]
    /\ queue' = <<>>
    /\ UNCHANGED <<state, operation_map, closed, walletVars, closeVars, wop,
                   runs>>

\* operation_id_queue_.pop().
Popped(q) == Tail(q)

\* Take the first id; the operation may have been removed from the map.
TakeOperation(w) ==
    /\ wpc[w] = "loop" /\ QueueFree
    /\ queue # <<>> /\ ~closed
    /\ queue' = Popped(queue)
    /\ IF Head(queue) \in operation_map
       THEN /\ wpc' = [wpc EXCEPT ![w] = "popped"]
            /\ wop' = [wop EXCEPT ![w] = Head(queue)]
       ELSE UNCHANGED <<wpc, wop>>
    /\ UNCHANGED <<state, operation_map, closed, walletVars, closeVars, runs>>

Leave(w, pc) ==
    /\ wpc' = [wpc EXCEPT ![w] = pc]
    /\ wop' = [wop EXCEPT ![w] = IF pc = "loop" THEN NoOp ELSE @]

\* run() skips a cancelled operation; its inputs stay locked.
TestInRun(w) ==
    /\ wpc[w] = "popped"
    /\ Leave(w, IF state[wop[w]] = "CANCELLED" THEN "loop" ELSE "main")
    /\ UNCHANGED <<state, queueVars, walletVars, closeVars, runs>>

\* The first test of main(): a cancelled operation unlocks and returns.
TestInMain(w) ==
    /\ wpc[w] = "main"
    /\ Leave(w, IF state[wop[w]] = "CANCELLED" THEN "unlock" ELSE "execute")
    /\ UNCHANGED <<state, queueVars, walletVars, closeVars, runs>>

Execute(w) ==
    /\ wpc[w] = "execute"
    /\ state' = [state EXCEPT ![wop[w]] = "EXECUTING"]
    /\ runs' = [runs EXCEPT ![wop[w]] = @ + 1]
    /\ Leave(w, "running")
    /\ UNCHANGED <<queueVars, walletVars, closeVars>>

\* z_sendmany's main_impl: find_utxos, find_unspent_notes.
SelectInputs(w) ==
    LET o == wop[w] IN
    /\ wpc[w] = "running" /\ o \in Sends
    /\ inputs[o] = {}
    /\ \E ins \in SUBSET AvailableCoins \ {{}} :
          inputs' = [inputs EXCEPT ![o] = ins]
    /\ UNCHANGED <<state, queueVars, lockedCoins, spent, closeVars, wpc, wop,
                   runs>>

\* main_impl has inputs and SendTransaction finds none of them spent.
Payable(o) == inputs[o] \cap spent = {} /\ (o \in Sends => inputs[o] # {})

\* main_impl ends: with a transaction whose inputs are still unspent, or not.
Finish(w, result) ==
    LET o == wop[w] IN
    /\ wpc[w] = "running"
    /\ result = "SUCCESS" => Payable(o)
    /\ spent' = IF result = "SUCCESS" THEN spent \cup inputs[o] ELSE spent
    /\ state' = [state EXCEPT ![o] = result]
    /\ Leave(w, "unlock")
    /\ UNCHANGED <<queueVars, inputs, lockedCoins, closeVars, runs>>

\* Fault variant: everything is unlocked, the coins of others too.
Unlock_All(w) ==
    /\ wpc[w] = "unlock"
    /\ lockedCoins' = {}
    /\ Leave(w, "loop")
    /\ UNCHANGED <<state, queueVars, inputs, spent, closeVars, runs>>

\* unlock_utxos and unlock_notes at the end of main().
Unlock(w) ==
    LET o == wop[w] IN
    /\ wpc[w] = "unlock"
    /\ lockedCoins' = IF o \in Locks THEN lockedCoins \ inputs[o] ELSE lockedCoins
    /\ Leave(w, "loop")
    /\ UNCHANGED <<state, queueVars, inputs, spent, closeVars, runs>>

\* Steps of an operation that need cs_wallet, and the others.
WalletStep(w) ==
    SelectInputs(w) \/ Finish(w, "SUCCESS") \/ Finish(w, "FAILED") \/ Unlock(w)

QueueStep(w) ==
    \/ WaitForWork(w) \/ ExitWorker(w) \/ TakeOperation(w)
    \/ TestInRun(w) \/ TestInMain(w) \/ Execute(w)

-----------------------------------------------------------------------------
(***************************************************************************)
(* closeAndWait.                                                           *)
(***************************************************************************)

\* close() raises its flag before it takes lock_.
Close ==
    /\ shut = "open"
    /\ closed' = TRUE
    /\ shut' = "closing"
    /\ UNCHANGED <<state, operation_map, queue, walletVars, todo, testing,
                   wpc, wop, runs>>

\* Fault variant: only operations that are still queued are cancelled.
CancelTargets_Queued == operation_map \cap Range(queue)

CancelTargets == operation_map

\* cancelAllOperations takes lock_.
BeginCancelAll ==
    /\ shut = "closing"
    /\ shut' = "cancelling"
    /\ todo' = CancelTargets
    /\ UNCHANGED <<state, queueVars, walletVars, testing, wpc, wop, runs>>

\* AsyncRPCOperation::cancel tests for READY ...
CancelTest(o) ==
    /\ shut = "cancelling" /\ testing = NoOp /\ o \in todo
    /\ todo' = todo \ {o}
    /\ testing' = IF state[o] = "READY" THEN o ELSE NoOp
    /\ UNCHANGED <<state, queueVars, walletVars, shut, wpc, wop, runs>>

\* ... and then stores CANCELLED, whatever the worker has stored meanwhile.
CancelStore ==
    /\ testing # NoOp
    /\ state' = [state EXCEPT ![testing] = "CANCELLED"]
    /\ testing' = NoOp
    /\ UNCHANGED <<queueVars, walletVars, shut, todo, wpc, wop, runs>>

\* condition_.notify_all().
NotifyAll == wpc' = [w \in Workers |-> IF wpc[w] = "waiting" THEN "loop" ELSE wpc[w]]

\* wait_for_worker_threads (after close, cancelAllOperations has notified too).
BeginJoin ==
    /\ shut = "cancelling" /\ todo = {} /\ testing = NoOp
    /\ shut' = "joining"
    /\ NotifyAll
    /\ UNCHANGED <<state, queueVars, walletVars, todo, testing, wop, runs>>

Joined ==
    /\ shut = "joining"
    /\ \A w \in Workers : wpc[w] = "exited"
    /\ shut' = "done"
    /\ UNCHANGED <<state, queueVars, walletVars, todo, testing, wpc, wop,
                   runs>>

CloserStep ==
    \/ BeginCancelAll
    \/ \E o \in Ops : CancelTest(o)
    \/ CancelStore
    \/ BeginJoin \/ Joined

-----------------------------------------------------------------------------
Held(o) == \E w \in Workers : wop[w] = o

\* An operation runs at most once, and never on two workers at a time: the
\* worker that pops an id is the only one that calls main().
RunsAtMostOnce ==
    /\ \A o \in Ops : runs[o] <= 1
    /\ \A v, w \in Workers : wop[v] = wop[w] /\ wop[v] # NoOp => v = w

\* No accepted operation is forgotten or run twice: while it is READY it is in
\* the queue, with a worker, or about to be cancelled by the thread that closed
\* the queue.
NoneForgotten ==
    /\ AsyncTypeOK
    /\ RunsAtMostOnce
    /\ \A o \in operation_map :
          state[o] = "READY" =>
              \/ o \in Range(queue)
              \/ Held(o)
              \/ shut = "closing"
              \/ shut = "cancelling" /\ o \in todo \cup {testing}

\* Operations that locked their inputs and may still spend them.
Live == {o \in Locks : state[o] \in {"READY", "EXECUTING"} \/ Held(o)}

\* The inputs of an operation that locked them are its own until main() is
\* over, whatever other operations lock, fail and unlock meanwhile; and they are
\* free once it is: what stays locked belongs to an operation that is live or
\* that was cancelled (run() skips it without unlocking).
InputsReserved ==
    /\ \A o \in Live : inputs[o] \subseteq lockedCoins
    /\ \A o, p \in Live : o # p => inputs[o] \cap inputs[p] = {}
    /\ \A c \in lockedCoins :
          \E o \in Locks : c \in inputs[o] /\ (o \in Live \/ state[o] = "CANCELLED")

\* When closeAndWait has returned, no operation is running
\* and every operation an RPC can still ask for has a final status.
ShutdownSettles ==
    shut = "done" =>
        /\ \A w \in Workers : wop[w] = NoOp
        /\ \A o \in operation_map : state[o] \in Final
=============================================================================
