----------------------------- MODULE CheckQueue -----------------------------
(***************************************************************************)
(* CCheckQueue and CCheckQueueControl (src/src/checkqueue.h): the pool of  *)
(* script-verification threads that ConnectBlock (src/src/main.cpp) feeds. *)
(*                                                                         *)
(* One thread, the master, is connecting a block under cs_main.  It        *)
(* constructs a CCheckQueueControl, Adds the checks of one transaction at  *)
(* a time, and finally calls Wait, in which it joins the pool until every  *)
(* check is done.  Every critical section of the class's mutex is one      *)
(* action here; the work done outside the mutex touches only locals and is *)
(* one action per batch.                                                   *)
(*                                                                         *)
(* Condition variables: a thread blocked in wait() is "waiting"; a notify  *)
(* or a spurious wake-up makes it "woken", after which it competes for the *)
(* mutex.  At shutdown init.cpp interrupts the whole thread group; wait()  *)
(* is then an interruption point that throws with nIdle already            *)
(* incremented, so a thread that dies there is never subtracted from       *)
(* nIdle and nTotal again.  If the interrupted thread is the master, the   *)
(* destructor of its CCheckQueueControl calls Wait a second time.          *)
(*                                                                         *)
(* No code sets fQuit, so the worker's own return path is unreachable and  *)
(* is left out.                                                            *)
(***************************************************************************)
EXTENDS Integers, FiniteSets

CONSTANTS Workers,     \* the ThreadScriptCheck threads
          Master,      \* the thread that runs ConnectBlock
          nBatchSize,  \* most checks a thread takes at a time
          MaxChecks,   \* bound: checks of one block
          MaxBlocks    \* bound: blocks that are connected

ASSUME ConstantsAssumption ==
    /\ Master \notin Workers
    /\ IsFiniteSet(Workers)
    /\ nBatchSize \in Nat \ {0}
    /\ MaxChecks \in Nat
    /\ MaxBlocks \in Nat

Threads == Workers \cup {Master}

(***************************************************************************)
(* A check is the number of its Add within the block, so the back of the   *)
(* vector `queue` (used as a stack) is its largest element.  `bad` is the  *)
(* set of checks of this block whose operator() returns false.             *)
(***************************************************************************)
Checks == 1..MaxChecks

VARIABLES queue,       \* checks pushed and not yet taken
          nIdle,       \* threads counted as blocked in wait()
          nTotal,      \* threads counted as inside Loop
          nTodo,       \* checks added and not yet accounted for
          fAllOk,      \* conjunction of the results accounted for so far
          pc,          \* where each thread is
          vChecks,     \* each thread's own batch
          fOk,         \* each thread's running result
          nAdded,      \* number of checks added for this block
          bad,         \* which of them fail
          fRet,        \* what Wait returned for this block, or "none"
          interrupted, \* threads with a pending interruption request
          shutdown,    \* interrupt_all() has been called
          nBlocks      \* blocks started

vars == <<queue, nIdle, nTotal, nTodo, fAllOk, pc, vChecks, fOk, nAdded, bad,
          fRet, interrupted, shutdown, nBlocks>>

LoopStates == {"enter", "work", "executed", "waiting", "woken"}

TypeOK ==
    /\ queue \in SUBSET Checks
    /\ nIdle \in Nat /\ nTotal \in Nat /\ nTodo \in Nat
    /\ fAllOk \in BOOLEAN
    /\ pc \in [Threads -> LoopStates \cup {"idle", "adding", "gone"}]
    /\ vChecks \in [Threads -> SUBSET Checks]
    /\ fOk \in [Threads -> BOOLEAN]
    /\ nAdded \in 0..MaxChecks
    /\ bad \in SUBSET Checks
    /\ fRet \in {"none", "ok", "failed"}
    /\ interrupted \in SUBSET Threads
    /\ shutdown \in BOOLEAN
    /\ nBlocks \in 0..MaxBlocks

Init ==
    /\ queue = {}
    /\ nIdle = 0 /\ nTotal = 0 /\ nTodo = 0
    /\ fAllOk = TRUE
    /\ pc = [t \in Threads |-> IF t = Master THEN "idle" ELSE "enter"]
    /\ vChecks = [t \in Threads |-> {}]
    /\ fOk = [t \in Threads |-> TRUE]
    /\ nAdded = 0
    /\ bad = {}
    /\ fRet = "none"
    /\ interrupted = {}
    /\ shutdown = FALSE
    /\ nBlocks = 0

-----------------------------------------------------------------------------
(***************************************************************************)
(* The master between its calls of Loop.                                   *)
(***************************************************************************)

\* CCheckQueue::IsIdle, asserted by the constructor of CCheckQueueControl.
IsIdle == nTotal = nIdle /\ nTodo = 0 /\ fAllOk

\* ConnectBlock constructs its CCheckQueueControl.
Begin ==
    /\ pc[Master] = "idle"
    /\ nBlocks < MaxBlocks
    /\ nBlocks' = nBlocks + 1
    /\ pc' = [pc EXCEPT ![Master] = "adding"]
    /\ nAdded' = 0
    /\ bad' = {}
    /\ fRet' = "none"
    /\ UNCHANGED <<queue, nIdle, nTotal, nTodo, fAllOk, vChecks, fOk,
                   interrupted, shutdown>>

Waiting == {w \in Workers : pc[w] = "waiting"}

\* notify_one for a single check, notify_all for more.
NotifyWorkers(n) ==
    IF n = 1 /\ Waiting # {}
    THEN \E w \in Waiting : pc' = [pc EXCEPT ![w] = "woken"]
    ELSE pc' = [t \in Threads |-> IF n > 1 /\ t \in Waiting THEN "woken" ELSE pc[t]]

\* Add: push the checks of one transaction; failing says which of them fail.
Add(n, failing) ==
    /\ pc[Master] = "adding"
    /\ nAdded + n <= MaxChecks
    /\ failing \subseteq (nAdded + 1)..(nAdded + n)
    /\ queue' = queue \cup ((nAdded + 1)..(nAdded + n))
    /\ nTodo' = nTodo + n
    /\ nAdded' = nAdded + n
    /\ bad' = bad \cup failing
    /\ NotifyWorkers(n)
    /\ UNCHANGED <<nIdle, nTotal, fAllOk, vChecks, fOk, fRet, interrupted,
                   shutdown, nBlocks>>

\* Wait, from ConnectBlock or (on an early return) from ~CCheckQueueControl.
Wait ==
    /\ pc[Master] = "adding"
    /\ pc' = [pc EXCEPT ![Master] = "enter"]
    /\ UNCHANGED <<queue, nIdle, nTotal, nTodo, fAllOk, vChecks, fOk, nAdded,
                   bad, fRet, interrupted, shutdown, nBlocks>>

-----------------------------------------------------------------------------
(***************************************************************************)
(* Loop.  LoopTop is the part of the critical section from `while          *)
(* (queue.empty())' on, with the values the part before it computed.       *)
(***************************************************************************)
nNow(total, idle) ==
    LET share == Cardinality(queue) \div (total + idle + 1)
        capped == IF share < nBatchSize THEN share ELSE nBatchSize
    IN IF capped < 1 THEN 1 ELSE capped

\* Fault variant: fAllOk keeps the verdict of the previous block.
Return_NoReset(t, todo, total, idle, allOk, pcs) ==
    /\ t = Master
    /\ todo = 0
    /\ nTotal' = total - 1
    /\ nIdle' = idle
    /\ fRet' = IF allOk THEN "ok" ELSE "failed"
    /\ fAllOk' = allOk
    /\ pc' = [pcs EXCEPT ![t] = "idle"]

\* Every check done: only the master leaves, and it resets fAllOk.
Return(t, todo, total, idle, allOk, pcs) ==
    /\ t = Master
    /\ todo = 0
    /\ nTotal' = total - 1
    /\ nIdle' = idle
    /\ fRet' = IF allOk THEN "ok" ELSE "failed"
    /\ fAllOk' = TRUE
    /\ pc' = [pcs EXCEPT ![t] = "idle"]

\* Nothing to take: block on the condition variable.
Block(t, todo, total, idle, allOk, pcs) ==
    /\ ~ (t = Master /\ todo = 0)
    /\ nTotal' = total
    /\ nIdle' = idle + 1
    /\ fAllOk' = allOk
    /\ pc' = [pcs EXCEPT ![t] = "waiting"]
    /\ UNCHANGED fRet

\* Take a batch off the back of the queue.
Take(t, total, idle, allOk, pcs) ==
    \E batch \in SUBSET queue :
        /\ Cardinality(batch) = nNow(total, idle)
        /\ \A c \in batch, d \in queue \ batch : d < c
        /\ queue' = queue \ batch
        /\ vChecks' = [vChecks EXCEPT ![t] = batch]
        /\ fOk' = [fOk EXCEPT ![t] = allOk]
        /\ nTotal' = total
        /\ nIdle' = idle
        /\ fAllOk' = allOk
        /\ pc' = [pcs EXCEPT ![t] = "work"]
        /\ UNCHANGED fRet

LoopTop(t, todo, total, idle, allOk, pcs) ==
    /\ nTodo' = todo
    /\ \/ /\ queue = {}
          /\ \/ Return(t, todo, total, idle, allOk, pcs)
             \/ Block(t, todo, total, idle, allOk, pcs)
          /\ vChecks' = [vChecks EXCEPT ![t] = {}]
          /\ UNCHANGED <<queue, fOk>>
       \/ /\ queue # {}
          /\ Take(t, total, idle, allOk, pcs)
    /\ UNCHANGED <<nAdded, bad, interrupted, shutdown, nBlocks>>

\* The first pass of a call of Loop.
Enter(t) ==
    /\ pc[t] = "enter"
    /\ LoopTop(t, nTodo, nTotal + 1, nIdle, fAllOk, pc)

\* Fault variant: the last worker does not tell the master.
NotifyMaster_Lost == pc

\* condMaster.notify_one
NotifyMaster ==
    IF pc[Master] = "waiting" THEN [pc EXCEPT ![Master] = "woken"] ELSE pc

\* Fault variant: the result of the batch is dropped.
Account_ForgetResult(t) ==
    LET todo == nTodo - Cardinality(vChecks[t])
    IN /\ pc[t] = "executed"
       /\ LoopTop(t, todo, nTotal, nIdle, fAllOk,
                  IF todo = 0 /\ t # Master THEN NotifyMaster ELSE pc)

\* Fault variant: the batch is counted as a full one.
Account_FullBatch(t) ==
    LET todo == nTodo - nBatchSize
    IN /\ pc[t] = "executed"
       /\ LoopTop(t, todo, nTotal, nIdle, fAllOk /\ fOk[t],
                  IF todo = 0 /\ t # Master THEN NotifyMaster ELSE pc)

\* Back in the critical section after a batch: account for it.
Account(t) ==
    LET todo == nTodo - Cardinality(vChecks[t])
    IN /\ pc[t] = "executed"
       /\ LoopTop(t, todo, nTotal, nIdle, fAllOk /\ fOk[t],
                  IF todo = 0 /\ t # Master THEN NotifyMaster ELSE pc)

\* The wait returned and the mutex is held again.
Resume(t) ==
    /\ pc[t] = "woken"
    /\ LoopTop(t, nTodo, nTotal, nIdle - 1, fAllOk, pc)

\* Outside the mutex: run the batch, skipping what follows a failure.
Execute(t) ==
    /\ pc[t] = "work"
    /\ fOk' = [fOk EXCEPT ![t] = @ /\ vChecks[t] \cap bad = {}]
    /\ pc' = [pc EXCEPT ![t] = "executed"]
    /\ UNCHANGED <<queue, nIdle, nTotal, nTodo, fAllOk, vChecks, nAdded, bad,
                   fRet, interrupted, shutdown, nBlocks>>

-----------------------------------------------------------------------------
(***************************************************************************)
(* Wake-ups nobody asked for, and shutdown.                                *)
(***************************************************************************)

\* A condition variable may wake a thread without a notify.
SpuriousWakeup(t) ==
    /\ pc[t] = "waiting"
    /\ pc' = [pc EXCEPT ![t] = "woken"]
    /\ UNCHANGED <<queue, nIdle, nTotal, nTodo, fAllOk, vChecks, fOk, nAdded,
                   bad, fRet, interrupted, shutdown, nBlocks>>

\* threadGroup.interrupt_all(); an RPC thread that connects a block is not in
\* the group.
InterruptAll ==
    /\ ~ shutdown
    /\ shutdown' = TRUE
    /\ interrupted' \in {Workers, Threads}
    /\ UNCHANGED <<queue, nIdle, nTotal, nTodo, fAllOk, pc, vChecks, fOk,
                   nAdded, bad, fRet, nBlocks>>

\* Fault variant: unwinding without the destructor's Wait.
Interrupted_NoDestructorWait(t) ==
    /\ t \in interrupted
    /\ pc[t] \in {"waiting", "woken"}
    /\ interrupted' = interrupted \ {t}
    /\ pc' = [pc EXCEPT ![t] = IF t = Master THEN "idle" ELSE "gone"]
    /\ UNCHANGED <<queue, nIdle, nTotal, nTodo, fAllOk, vChecks, fOk, nAdded,
                   bad, fRet, shutdown, nBlocks>>

\* wait() throws thread_interrupted and the request is consumed.  A worker
\* ends; the master unwinds into ~CCheckQueueControl, which calls Wait again.
Interrupted(t) ==
    /\ t \in interrupted
    /\ pc[t] \in {"waiting", "woken"}
    /\ interrupted' = interrupted \ {t}
    /\ pc' = [pc EXCEPT ![t] = IF t = Master THEN "enter" ELSE "gone"]
    /\ UNCHANGED <<queue, nIdle, nTotal, nTodo, fAllOk, vChecks, fOk, nAdded,
                   bad, fRet, shutdown, nBlocks>>

-----------------------------------------------------------------------------
\* What thread t does when it is scheduled.
Step(t) == Enter(t) \/ Account(t) \/ Resume(t) \/ Execute(t) \/ Interrupted(t)

Next ==
    \/ Begin
    \/ \E n \in Checks : \E failing \in SUBSET Checks : Add(n, failing)
    \/ Wait
    \/ InterruptAll
    \/ \E t \in Threads : Step(t) \/ SpuriousWakeup(t)

Spec == Init /\ [][Next]_vars

(***************************************************************************)
(* Every thread that can run is eventually run; the master, once it has    *)
(* its checks, calls Wait.  Nothing is assumed of spurious wake-ups.       *)
(***************************************************************************)
FairSpec ==
    /\ Spec
    /\ \A t \in Threads : WF_vars(Step(t))
    /\ WF_vars(Wait)

-----------------------------------------------------------------------------
(***************************************************************************)
(* Properties.                                                             *)
(***************************************************************************)

\* The assertion of CCheckQueueControl's constructor: whenever the master is
\* outside a block the queue IsIdle(), also after an interrupted Wait.
IdleBetweenBlocks == pc[Master] = "idle" => IsIdle

\* Wait returns true exactly when every check added for the block passes,
\* whoever ran it and whatever was skipped.
VerdictCorrect == fRet # "none" => (fRet = "ok" <=> bad = {})

\* A CScriptCheck points into the block and the coins view of ConnectBlock;
\* once the master has left, no thread holds one.
NoDanglingCheck ==
    pc[Master] = "idle" => queue = {} /\ \A t \in Threads : vChecks[t] = {}

\* Wait always returns: no notify is lost, also while threads are interrupted.
WaitReturns == pc[Master] \in LoopStates ~> pc[Master] = "idle"

=============================================================================
