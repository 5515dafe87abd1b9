----------------------------- MODULE HttpServer -----------------------------
(***************************************************************************)
(* The RPC server's work queue (src/src/httpserver.cpp): WorkQueue, the    *)
(* detached worker threads that run it, the libevent thread that feeds it  *)
(* and the thread that interrupts, drains and deletes it at shutdown.      *)
(*                                                                         *)
(* Each critical section of WorkQueue::cs is one action.  Workers and the  *)
(* thread in WaitExit share one condition variable.  A worker is counted   *)
(* in numThreads from the moment its thread runs, not from its creation.   *)
(***************************************************************************)
EXTENDS Integers, Sequences, SequencesExt, FiniteSets

CONSTANTS Requests,     \* requests clients send
          HttpWorkers,  \* the zcash-httpworker threads
          NoRequest,
          maxDepth      \* -rpcworkqueue

ASSUME HttpAssumption ==
    /\ maxDepth \in Nat \ {0}
    /\ NoRequest \notin Requests
    /\ IsFiniteSet(HttpWorkers)

VARIABLES reply,       \* each request: where it is, or how it was answered
          workQueue,   \* WorkQueue::queue
          running,     \* WorkQueue::running
          numThreads,  \* WorkQueue::numThreads
          hpc, item,   \* each worker's place in Run() and its work item
          callback,    \* the request http_request_cb is about to enqueue
          stop         \* the thread that shuts the server down

httpVars == <<reply, workQueue, running, numThreads, hpc, item, callback, stop>>

Answers == {"ok", "full", "rejected", "unhandled"}

HttpTypeOK ==
    /\ reply \in [Requests -> Answers \cup {"new", "open", "lost"}]
    /\ workQueue \in Seq(Requests) /\ Len(workQueue) <= maxDepth
    /\ running \in BOOLEAN
    /\ numThreads \in 0..Cardinality(HttpWorkers)
    /\ hpc \in [HttpWorkers -> {"created", "loop", "waiting", "handling",
                                "leaving", "gone", "stray"}]
    /\ item \in [HttpWorkers -> Requests \cup {NoRequest}]
    /\ callback \in Requests \cup {NoRequest}
    /\ stop \in {"up", "interrupted", "exitwait", "waiting", "deleted"}

\* StartHTTPServer has created the threads.
HttpInit ==
    /\ reply = [r \in Requests |-> "new"]
    /\ workQueue = <<>>
    /\ running = TRUE
    /\ numThreads = 0
    /\ hpc = [h \in HttpWorkers |-> "created"]
    /\ item = [h \in HttpWorkers |-> NoRequest]
    /\ callback = NoRequest
    /\ stop = "up"

\* http_request_cb is entered; after InterruptHTTPServer its place is taken
\* by http_reject_request_cb.
RequestArrives(r) ==
    /\ callback = NoRequest /\ reply[r] = "new"
    /\ IF stop = "up"
       THEN callback' = r /\ reply' = [reply EXCEPT ![r] = "open"]
       ELSE callback' = callback /\ reply' = [reply EXCEPT ![r] = "rejected"]
    /\ UNCHANGED <<workQueue, running, numThreads, hpc, item, stop>>

Idle == {h \in HttpWorkers : hpc[h] = "waiting"}

Full == Len(workQueue) >= maxDepth

\* WorkQueue::Enqueue, which does not look at `running`.  A callback that
\* outlives the queue uses freed memory; its request is lost.
Enqueue ==
    /\ callback # NoRequest
    /\ callback' = NoRequest
    /\ IF stop = "deleted"
       THEN /\ reply' = [reply EXCEPT ![callback] = "lost"]
            /\ UNCHANGED <<workQueue, hpc, stop>>
       ELSE IF Full
       THEN /\ reply' = [reply EXCEPT ![callback] = "full"]
            /\ UNCHANGED <<workQueue, hpc, stop>>
       ELSE /\ workQueue' = Append(workQueue, callback)
            /\ UNCHANGED reply
            /\ \/ \E h \in Idle : hpc' = [hpc EXCEPT ![h] = "loop"] /\ UNCHANGED stop
               \/ stop = "waiting" /\ stop' = "exitwait" /\ UNCHANGED hpc
               \/ Idle = {} /\ stop # "waiting" /\ UNCHANGED <<hpc, stop>>
    /\ UNCHANGED <<running, numThreads, item>>

\* The thread function starts: ThreadCounter.
StartWorker(h) ==
    /\ hpc[h] = "created"
    /\ IF stop = "deleted"
       THEN hpc' = [hpc EXCEPT ![h] = "stray"] /\ UNCHANGED numThreads
       ELSE hpc' = [hpc EXCEPT ![h] = "loop"] /\ numThreads' = numThreads + 1
    /\ UNCHANGED <<reply, workQueue, running, item, callback, stop>>

MayTake == running /\ workQueue # <<>>

\* One turn of Run(): leave, wait, or take an item.
LoopWorker(h) ==
    /\ hpc[h] = "loop"
    /\ \/ /\ MayTake
          /\ item' = [item EXCEPT ![h] = Head(workQueue)]
          /\ workQueue' = Tail(workQueue)
          /\ hpc' = [hpc EXCEPT ![h] = "handling"]
       \/ /\ ~MayTake
          /\ hpc' = [hpc EXCEPT ![h] = IF running THEN "waiting" ELSE "leaving"]
          /\ UNCHANGED <<workQueue, item>>
    /\ UNCHANGED <<reply, running, numThreads, callback, stop>>

\* The handler has called WriteReply and the item is deleted.
Handled(h) ==
    /\ hpc[h] = "handling"
    /\ reply' = [reply EXCEPT ![item[h]] = "ok"]
    /\ item' = [item EXCEPT ![h] = NoRequest]
    /\ hpc' = [hpc EXCEPT ![h] = "loop"]
    /\ UNCHANGED <<workQueue, running, numThreads, callback, stop>>

\* Fault variant: the counter goes down without a notification.
WakeExit_Silent == stop

\* The thread waiting on the condition variable in WaitExit is woken.
WakeExit == IF stop = "waiting" THEN "exitwait" ELSE stop

\* ~ThreadCounter.
LeaveWorker(h) ==
    /\ hpc[h] = "leaving"
    /\ numThreads' = numThreads - 1
    /\ hpc' = [g \in HttpWorkers |-> IF g = h THEN "gone"
                                     ELSE IF hpc[g] = "waiting" THEN "loop"
                                     ELSE hpc[g]]
    /\ stop' = WakeExit
    /\ UNCHANGED <<reply, workQueue, running, item, callback>>

HttpWorkerStep(h) == StartWorker(h) \/ LoopWorker(h) \/ LeaveWorker(h)

\* InterruptHTTPServer.
Interrupt ==
    /\ stop = "up"
    /\ stop' = "interrupted"
    /\ running' = FALSE
    /\ hpc' = [h \in HttpWorkers |-> IF hpc[h] = "waiting" THEN "loop" ELSE hpc[h]]
    /\ UNCHANGED <<reply, workQueue, numThreads, item, callback>>

AllLeft == numThreads = 0

\* StopHTTPServer: WaitExit ...
WaitExit ==
    /\ stop = "exitwait" /\ ~AllLeft
    /\ stop' = "waiting"
    /\ UNCHANGED <<reply, workQueue, running, numThreads, hpc, item,
                   callback>>

\* Fault variant: the items left in the queue are leaked, not deleted.
Unhandled_Leaked(r) == FALSE

\* ~HTTPRequest answers what no handler has answered.
Unhandled(r) == r \in Range(workQueue)

\* ... and delete workQueue.
DeleteQueue ==
    /\ stop = "exitwait" /\ AllLeft
    /\ stop' = "deleted"
    /\ workQueue' = <<>>
    /\ reply' = [r \in Requests |-> IF Unhandled(r) THEN "unhandled" ELSE reply[r]]
    /\ UNCHANGED <<running, numThreads, hpc, item, callback>>

StopStep == WaitExit \/ DeleteQueue

-----------------------------------------------------------------------------
\* No worker that ever ran the queue is still in it when it is deleted.
WorkersLeftFirst ==
    stop = "deleted" => \A h \in HttpWorkers : hpc[h] \in {"created", "gone", "stray"}

\* A request is answered at most once: it is open exactly while the callback,
\* the queue or one worker has it, and no worker has any when the queue is
\* deleted.  (It is not answered at all if the callback was about to queue it
\* when the queue was deleted: "lost".)
OneOwner ==
    /\ HttpTypeOK
    /\ WorkersLeftFirst
    /\ \A r \in Requests :
          LET owners == (IF callback = r THEN 1 ELSE 0)
                        + Cardinality({k \in DOMAIN workQueue : workQueue[k] = r})
                        + Cardinality({h \in HttpWorkers : item[h] = r})
          IN  owners = IF reply[r] = "open" THEN 1 ELSE 0
=============================================================================
