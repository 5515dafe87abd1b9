----------------------------- MODULE RpcServer ------------------------------
(***************************************************************************)
(* The RPC interface as a whole: HTTP worker threads run the handlers that *)
(* submit and collect asynchronous operations, and Shutdown (src/src/      *)
(* init.cpp) takes the two apart in order: Interrupt() stops the HTTP      *)
(* queue, StopRPC() closes the operation queue and joins its workers, and  *)
(* only then does StopHTTPServer() wait for the HTTP workers, which may    *)
(* still be inside a handler.                                              *)
(***************************************************************************)
EXTENDS AsyncRPC, HttpServer

vars == <<asyncVars, httpVars>>

Init == AsyncInit /\ HttpInit

\* A handler: z_sendmany, z_shieldcoinbase, z_mergetoaddress,
\* z_getoperationresult, or an RPC that has nothing to do with the queue.  The
\* operator's override lockunspent, which may unlock any coin under an operation
\* (UnlockAllCoins, rpcwallet.cpp:2173), is left out.
Handle(h) ==
    /\ Handled(h)
    /\ \/ \E o \in Ops : z_sendmany(o) \/ z_shieldcoinbase(o) \/ z_mergetoaddress(o)
                       \/ z_getoperationresult(o)
       \/ UNCHANGED asyncVars

\* Shutdown() after StopRPC() has returned.
StopHTTPServer ==
    /\ stop = "interrupted" /\ shut = "done"
    /\ stop' = "exitwait"
    /\ UNCHANGED <<reply, workQueue, running, numThreads, hpc, item, callback,
                   asyncVars>>

\* StopRPC(), after Interrupt().
StopRPC == stop = "interrupted" /\ Close /\ UNCHANGED httpVars

Next ==
    \/ \E r \in Requests : RequestArrives(r) /\ UNCHANGED asyncVars
    \/ Enqueue /\ UNCHANGED asyncVars
    \/ \E h \in HttpWorkers : Handle(h) \/ (HttpWorkerStep(h) /\ UNCHANGED asyncVars)
    \/ \E w \in Workers : 
          (WalletStep(w) \/ QueueStep(w) \/ SpuriousWakeup(w)) /\ UNCHANGED httpVars
    \/ CloserStep /\ UNCHANGED httpVars
    \/ Interrupt /\ UNCHANGED asyncVars
    \/ StopRPC
    \/ StopHTTPServer
    \/ StopStep /\ UNCHANGED asyncVars

(***************************************************************************)
(* Fairness: every thread that can go on does.  The one lock that is held  *)
(* over several steps is lock_ in cancelAllOperations, which ends.         *)
(***************************************************************************)
Fairness ==
    /\ WF_vars(Enqueue /\ UNCHANGED asyncVars)
    /\ \A h \in HttpWorkers :
          /\ WF_vars(Handle(h))
          /\ WF_vars(HttpWorkerStep(h) /\ UNCHANGED asyncVars)
    /\ \A w \in Workers :
          /\ WF_vars(WalletStep(w) /\ UNCHANGED httpVars)
          /\ WF_vars(QueueStep(w) /\ UNCHANGED httpVars)
    /\ WF_vars(CloserStep /\ UNCHANGED httpVars)
    /\ WF_vars(StopRPC)
    /\ WF_vars(StopHTTPServer)
    /\ WF_vars(StopStep /\ UNCHANGED asyncVars)

Spec == Init /\ [][Next]_vars

FairSpec == Spec /\ Fairness

-----------------------------------------------------------------------------
\* Every accepted operation is finished or cancelled in the end, before and
\* during shutdown.
OperationsSettle ==
    \A o \in Ops : (o \in operation_map /\ state[o] = "READY") ~> state[o] \in Final

\* Once interrupted, the server stops: Shutdown() joins the operation workers
\* and waits for the HTTP workers without either waiting for the other.
ShutdownReturns == stop = "interrupted" ~> stop = "deleted"
=============================================================================
