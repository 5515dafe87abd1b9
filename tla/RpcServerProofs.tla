--------------------------- MODULE RpcServerProofs ---------------------------
(***************************************************************************)
(* Safety of the RPC server for every set of requests, HTTP workers,       *)
(* operations, coins and operation workers.                                *)
(***************************************************************************)
EXTENDS RpcServer, FiniteSetTheorems, TLAPS

-----------------------------------------------------------------------------
(***************************************************************************)
(* Sequences used as queues.                                               *)
(***************************************************************************)

\* push_back: the new element is the last one.
LEMMA PushFacts ==
    ASSUME NEW S, NEW q \in Seq(S), NEW x \in S
    PROVE  /\ Append(q, x) \in Seq(S)
           /\ Len(Append(q, x)) = Len(q) + 1 /\ Len(q) \in Nat
           /\ DOMAIN q = 1..Len(q)
           /\ DOMAIN Append(q, x) = 1..(Len(q) + 1)
           /\ \A k \in 1..Len(q) : Append(q, x)[k] = q[k]
           /\ Append(q, x)[Len(q) + 1] = x
  OBVIOUS

\* push_back adds one element, and repeats none that was not there.
LEMMA PushElements ==
    ASSUME NEW S, NEW q \in Seq(S), NEW x \in S, NEW r, r = Append(q, x)
    PROVE  \A y : (\E k \in DOMAIN r : r[k] = y) <=> (\E k \in DOMAIN q : q[k] = y) \/ y = x
  <1>1. Len(q) + 1 \in DOMAIN r /\ r[Len(q) + 1] = x
    BY PushFacts
  <1>2. \A k \in DOMAIN q : k \in DOMAIN r /\ r[k] = q[k]
    BY PushFacts
  <1>3. \A k \in DOMAIN r : k \in DOMAIN q \/ k = Len(q) + 1
    BY PushFacts
  <1> QED
    BY <1>1, <1>2, <1>3

LEMMA PushKeepsInjective ==
    ASSUME NEW S, NEW q \in Seq(S), NEW x \in S, NEW r, r = Append(q, x), IsInjective(q),
           \A k \in DOMAIN q : q[k] # x
    PROVE  r \in Seq(S) /\ IsInjective(r)
  <1>1. r[Len(q) + 1] = x
    BY PushFacts
  <1>2. \A k \in DOMAIN q : r[k] = q[k]
    BY PushFacts
  <1>3. \A k \in DOMAIN r : k \in DOMAIN q \/ k = Len(q) + 1
    BY PushFacts
  <1>4. r \in Seq(S)
    BY PushFacts
  <1>5. IsInjective(r)
    BY <1>1, <1>2, <1>3 DEF IsInjective
  <1> QED
    BY <1>4, <1>5

\* front and pop_front: the others move up by one place.
LEMMA PopFacts ==
    ASSUME NEW S, NEW q \in Seq(S), q # <<>>
    PROVE  /\ Head(q) \in S /\ Head(q) = q[1]
           /\ Tail(q) \in Seq(S)
           /\ Len(q) \in Nat \ {0} /\ Len(Tail(q)) = Len(q) - 1
           /\ DOMAIN q = 1..Len(q)
           /\ DOMAIN Tail(q) = 1..(Len(q) - 1)
           /\ \A k \in 1..(Len(q) - 1) : Tail(q)[k] = q[k + 1]
  OBVIOUS

LEMMA PopKeepsInjective ==
    ASSUME NEW S, NEW q \in Seq(S), q # <<>>, IsInjective(q)
    PROVE  Tail(q) \in Seq(S) /\ IsInjective(Tail(q))
  <1>1. ASSUME NEW j \in DOMAIN Tail(q), NEW k \in DOMAIN Tail(q), Tail(q)[j] = Tail(q)[k]
        PROVE  j = k
    <2>1. /\ j + 1 \in DOMAIN q /\ k + 1 \in DOMAIN q /\ q[j + 1] = q[k + 1]
          /\ j \in Int /\ k \in Int
      BY <1>1, PopFacts
    <2>2. j + 1 = k + 1
      BY <2>1 DEF IsInjective
    <2> QED
      BY <2>1, <2>2
  <1>2. Tail(q) \in Seq(S)
    BY PopFacts
  <1> QED
    BY <1>1, <1>2 DEF IsInjective

\* What pop_front leaves is what was not in front.
LEMMA PopElements ==
    ASSUME NEW S, NEW q \in Seq(S), q # <<>>
    PROVE  /\ 1 \in DOMAIN q
           /\ \A k \in DOMAIN Tail(q) : \E j \in DOMAIN q : j # 1 /\ Tail(q)[k] = q[j]
           /\ \A j \in DOMAIN q : j # 1 => \E k \in DOMAIN Tail(q) : Tail(q)[k] = q[j]
  <1>1. ASSUME NEW k \in DOMAIN Tail(q)
        PROVE  \E j \in DOMAIN q : j # 1 /\ Tail(q)[k] = q[j]
    <2>1. k + 1 \in DOMAIN q /\ k + 1 # 1 /\ Tail(q)[k] = q[k + 1]
      BY PopFacts
    <2> QED
      BY <2>1
  <1>2. ASSUME NEW j \in DOMAIN q, j # 1
        PROVE  \E k \in DOMAIN Tail(q) : Tail(q)[k] = q[j]
    <2>1. j - 1 \in DOMAIN Tail(q) /\ Tail(q)[j - 1] = q[j]
      BY <1>2, PopFacts
    <2> QED
      BY <2>1
  <1>3. 1 \in DOMAIN q
    BY PopFacts
  <1> QED
    BY <1>1, <1>2, <1>3

-----------------------------------------------------------------------------
(***************************************************************************)
(* The HTTP work queue.                                                    *)
(***************************************************************************)

\* The workers that are counted in numThreads.
Inside(pcs) == {h \in HttpWorkers : pcs[h] \in {"loop", "waiting", "handling", "leaving"}}

\* Who has a request.
InCallback(r) == callback = r
InQueue(r) == \E k \in DOMAIN workQueue : workQueue[k] = r
WithWorker(r) == \E h \in HttpWorkers : item[h] = r

\* No request has two owners.
Exclusive ==
    /\ \A k \in DOMAIN workQueue : workQueue[k] # callback
    /\ \A j, k \in DOMAIN workQueue : workQueue[j] = workQueue[k] => j = k
    /\ \A h \in HttpWorkers : item[h] # NoRequest =>
          /\ item[h] # callback
          /\ \A k \in DOMAIN workQueue : workQueue[k] # item[h]
          /\ \A g \in HttpWorkers : item[g] = item[h] => g = h

\* The open requests are those that have an owner.
OwnedIffOpen ==
    \A r \in Requests : reply[r] = "open" <=> InCallback(r) \/ InQueue(r) \/ WithWorker(r)

HttpInv ==
    /\ HttpTypeOK
    /\ numThreads = Cardinality(Inside(hpc))
    /\ \A h \in HttpWorkers : item[h] # NoRequest <=> hpc[h] = "handling"
    /\ stop = "deleted" => Inside(hpc) = {} /\ workQueue = <<>>
    /\ Exclusive
    /\ OwnedIffOpen

\* A worker that comes or goes changes the count by one.
LEMMA InsideFinite ==
    ASSUME NEW pcs
    PROVE  /\ IsFiniteSet(Inside(pcs))
           /\ Cardinality(Inside(pcs)) \in 0..Cardinality(HttpWorkers)
  <1>1. Inside(pcs) \subseteq HttpWorkers
    BY DEF Inside
  <1>2. IsFiniteSet(HttpWorkers)
    BY HttpAssumption
  <1> QED
    BY <1>1, <1>2, FS_Subset, FS_CardinalityType

LEMMA HttpInitInv == HttpInit => HttpInv
  <1> SUFFICES ASSUME HttpInit PROVE HttpInv
    OBVIOUS
  <1>1. Inside(hpc) = {}
    BY DEF HttpInit, Inside
  <1>2. Cardinality(Inside(hpc)) = 0
    BY <1>1, FS_EmptySet
  <1>3. HttpTypeOK
    <2>1. Cardinality(HttpWorkers) \in Nat
      BY HttpAssumption, FS_CardinalityType
    <2> QED
      BY <2>1, HttpAssumption DEF HttpInit, HttpTypeOK, Answers
  <1>4. Exclusive /\ OwnedIffOpen
    BY HttpAssumption DEF HttpInit, Exclusive, OwnedIffOpen, InCallback, InQueue, WithWorker
  <1> QED
    BY <1>1, <1>2, <1>3, <1>4 DEF HttpInit, HttpInv

LEMMA RequestArrivesInv ==
    ASSUME HttpInv, NEW r \in Requests, RequestArrives(r)
    PROVE  HttpInv'
  <1>1. HttpTypeOK'
    BY DEF HttpInv, HttpTypeOK, RequestArrives, Answers
  <1>2. Exclusive' /\ OwnedIffOpen'
    <2>1. ~InCallback(r) /\ ~InQueue(r) /\ ~WithWorker(r)
      BY DEF HttpInv, HttpTypeOK, OwnedIffOpen, RequestArrives
    <2>2. Exclusive'
      BY <2>1, HttpAssumption DEF HttpInv, Exclusive, RequestArrives, InQueue, WithWorker
    <2>3. OwnedIffOpen'
      BY <2>1, HttpAssumption
      DEF HttpInv, HttpTypeOK, OwnedIffOpen, RequestArrives, InCallback, InQueue, WithWorker
    <2> QED
      BY <2>2, <2>3
  <1> QED
    BY <1>1, <1>2 DEF HttpInv, RequestArrives, Inside

LEMMA EnqueueInv ==
    ASSUME HttpInv, Enqueue
    PROVE  HttpInv'
  <1> USE DEF HttpInv, HttpTypeOK
  <1>0. callback \in Requests /\ reply[callback] = "open"
    BY DEF Enqueue, OwnedIffOpen, InCallback
  <1>1. CASE UNCHANGED workQueue
    <2>1. /\ reply' \in [Requests -> Answers \cup {"new", "open", "lost"}]
          /\ \A r \in Requests : reply'[r] = IF r = callback THEN reply'[callback] ELSE reply[r]
          /\ reply'[callback] # "open"
          /\ UNCHANGED <<hpc, stop>>
      BY <1>0, <1>1, PushFacts DEF Enqueue, Answers
    <2>2. Exclusive'
      BY <1>1, HttpAssumption DEF Exclusive, Enqueue
    <2>3. OwnedIffOpen'
      BY <1>0, <1>1, <2>1, HttpAssumption
      DEF OwnedIffOpen, Exclusive, Enqueue, InCallback, InQueue, WithWorker
    <2> QED
      BY <1>1, <2>1, <2>2, <2>3 DEF Enqueue, Inside
  <1>2. CASE ~ UNCHANGED workQueue
    <2>1. /\ workQueue' = Append(workQueue, callback) /\ Len(workQueue) < maxDepth
          /\ UNCHANGED <<reply, running, numThreads, item>>
          /\ stop # "deleted" /\ callback' = NoRequest
          /\ \/ \E h \in Idle : hpc' = [hpc EXCEPT ![h] = "loop"] /\ UNCHANGED stop
             \/ stop = "waiting" /\ stop' = "exitwait" /\ UNCHANGED hpc
             \/ UNCHANGED <<hpc, stop>>
      BY <1>2, HttpAssumption DEF Enqueue, Full
    <2>2. /\ hpc' \in [HttpWorkers -> {"created", "loop", "waiting", "handling",
                                      "leaving", "gone", "stray"}]
          /\ Inside(hpc') = Inside(hpc)
          /\ \A h \in HttpWorkers : hpc'[h] = "handling" <=> hpc[h] = "handling"
          /\ stop' \in {"up", "interrupted", "exitwait", "waiting", "deleted"}
          /\ stop' # "deleted"
      BY <2>1 DEF Inside, Idle
    <2>3. /\ workQueue' \in Seq(Requests) /\ Len(workQueue') = Len(workQueue) + 1
          /\ Len(workQueue) \in Nat
          /\ DOMAIN workQueue = 1..Len(workQueue)
          /\ DOMAIN workQueue' = 1..(Len(workQueue) + 1)
          /\ \A k \in 1..Len(workQueue) : workQueue'[k] = workQueue[k]
          /\ workQueue'[Len(workQueue) + 1] = callback
      BY <1>0, <2>1, PushFacts
    <2>4. HttpTypeOK'
      BY <2>1, <2>2, <2>3, HttpAssumption
    <2>5. Exclusive'
      <3>1. \A k \in DOMAIN workQueue' : workQueue'[k] # callback'
        BY <2>1, <2>3, HttpAssumption, <1>0
      <3>2. \A j, k \in DOMAIN workQueue' : workQueue'[j] = workQueue'[k] => j = k
        BY <2>3 DEF Exclusive
      <3>3. \A h \in HttpWorkers : item'[h] # NoRequest =>
                \A k \in DOMAIN workQueue' : workQueue'[k] # item'[h]
        BY <2>1, <2>3 DEF Exclusive
      <3> QED
        BY <3>1, <3>2, <3>3, <2>1 DEF Exclusive
    <2>6. OwnedIffOpen'
      <3>1. \A r \in Requests : InQueue(r)' <=> InQueue(r) \/ r = callback
        BY <2>3 DEF InQueue
      <3>2. \A r \in Requests : ~InCallback(r)'
        BY <2>1, HttpAssumption DEF InCallback
      <3> QED
        BY <3>1, <3>2, <2>1, <1>0 DEF OwnedIffOpen, InCallback, WithWorker
    <2> QED
      BY <2>1, <2>2, <2>4, <2>5, <2>6
  <1> QED
    BY <1>1, <1>2

LEMMA StartWorkerInv ==
    ASSUME HttpInv, NEW h \in HttpWorkers, StartWorker(h)
    PROVE  HttpInv'
  <1> USE DEF HttpInv, HttpTypeOK
  <1>1. Exclusive' /\ OwnedIffOpen'
    BY DEF StartWorker, Exclusive, OwnedIffOpen, InCallback, InQueue, WithWorker
  <1>2. CASE stop = "deleted"
    <2>1. hpc' = [hpc EXCEPT ![h] = "stray"] /\ numThreads' = numThreads
      BY <1>2 DEF StartWorker
    <2>2. Inside(hpc') = Inside(hpc)
      BY <2>1 DEF Inside, StartWorker
    <2> QED
      BY <1>1, <2>1, <2>2 DEF StartWorker
  <1>3. CASE stop # "deleted"
    <2>1. hpc' = [hpc EXCEPT ![h] = "loop"] /\ numThreads' = numThreads + 1
      BY <1>3 DEF StartWorker
    <2>2. Inside(hpc') = Inside(hpc) \cup {h} /\ h \notin Inside(hpc)
      BY <2>1 DEF Inside, StartWorker
    <2>3. Cardinality(Inside(hpc')) = Cardinality(Inside(hpc)) + 1
      BY <2>2, InsideFinite, FS_AddElement
    <2>4. Cardinality(Inside(hpc')) \in 0..Cardinality(HttpWorkers)
      BY InsideFinite
    <2> QED
      BY <1>1, <1>3, <2>1, <2>3, <2>4 DEF StartWorker
  <1> QED
    BY <1>2, <1>3

LEMMA LoopWorkerInv ==
    ASSUME HttpInv, NEW h \in HttpWorkers, LoopWorker(h)
    PROVE  HttpInv'
  <1> USE DEF HttpInv, HttpTypeOK
  <1>1. stop # "deleted" /\ item[h] = NoRequest
    BY DEF Inside, LoopWorker
  <1>2. CASE MayTake
    <2>1. /\ workQueue # <<>>
          /\ item' = [item EXCEPT ![h] = Head(workQueue)]
          /\ workQueue' = Tail(workQueue)
          /\ hpc' = [hpc EXCEPT ![h] = "handling"]
          /\ UNCHANGED <<reply, running, numThreads, callback, stop>>
      BY <1>2 DEF LoopWorker, MayTake
    <2>2. /\ Head(workQueue) \in Requests /\ Head(workQueue) = workQueue[1]
          /\ Head(workQueue) # NoRequest
          /\ workQueue' \in Seq(Requests)
          /\ Len(workQueue) \in Nat \ {0} /\ Len(workQueue') = Len(workQueue) - 1
          /\ DOMAIN workQueue = 1..Len(workQueue)
          /\ DOMAIN workQueue' = 1..(Len(workQueue) - 1)
          /\ \A k \in 1..(Len(workQueue) - 1) : workQueue'[k] = workQueue[k + 1]
      BY <2>1, PopFacts, HttpAssumption
    <2>3. Inside(hpc') = Inside(hpc)
      BY <2>1 DEF Inside, LoopWorker
    <2>4. HttpTypeOK'
      BY <2>1, <2>2, HttpAssumption
    <2>5. Exclusive'
      <3>1. \A k \in DOMAIN workQueue' : workQueue'[k] # callback' /\ workQueue'[k] # Head(workQueue)
        BY <2>1, <2>2 DEF Exclusive
      <3>2. \A j, k \in DOMAIN workQueue' : workQueue'[j] = workQueue'[k] => j = k
        <4> SUFFICES ASSUME NEW j \in DOMAIN workQueue', NEW k \in DOMAIN workQueue',
                            workQueue'[j] = workQueue'[k]
                     PROVE  j = k
          OBVIOUS
        <4>1. j + 1 \in DOMAIN workQueue /\ k + 1 \in DOMAIN workQueue
              /\ workQueue[j + 1] = workQueue[k + 1]
          BY <2>2
        <4> QED
          BY <4>1, <2>2 DEF Exclusive
      <3>3. \A g \in HttpWorkers \ {h} : item[g] # Head(workQueue)
        BY <2>2 DEF Exclusive
      <3>4. \A k \in DOMAIN workQueue' : \E j \in DOMAIN workQueue : workQueue'[k] = workQueue[j]
        BY <2>1, PopElements
      <3>5. Head(workQueue) # callback
        BY <2>2 DEF Exclusive
      <3> QED
        BY <2>1, <2>2, <3>1, <3>2, <3>3, <3>4, <3>5 DEF Exclusive
    <2>6. OwnedIffOpen'
      <3>1. ASSUME NEW r \in Requests
            PROVE  InQueue(r) <=> InQueue(r)' \/ r = Head(workQueue)
        <4>1. /\ 1 \in DOMAIN workQueue
              /\ \A k \in DOMAIN workQueue' : \E j \in DOMAIN workQueue : workQueue'[k] = workQueue[j]
              /\ \A j \in DOMAIN workQueue : j # 1 =>
                    \E k \in DOMAIN workQueue' : workQueue'[k] = workQueue[j]
          BY <2>1, PopElements
        <4>2. ASSUME InQueue(r), r # Head(workQueue) PROVE InQueue(r)'
          BY <4>1, <4>2, <2>2 DEF InQueue
        <4>3. ASSUME InQueue(r)' PROVE InQueue(r)
          BY <4>1, <4>3 DEF InQueue
        <4>4. InQueue(Head(workQueue))
          BY <4>1, <2>2 DEF InQueue
        <4> QED
          BY <4>2, <4>3, <4>4
      <3>2. \A r \in Requests : WithWorker(r)' <=> WithWorker(r) \/ r = Head(workQueue)
        BY <1>1, <2>1, HttpAssumption DEF WithWorker
      <3> QED
        BY <3>1, <3>2, <2>1 DEF OwnedIffOpen, InCallback
    <2>7. \A g \in HttpWorkers : item'[g] # NoRequest <=> hpc'[g] = "handling"
      BY <2>1, <2>2
    <2> QED
      BY <1>1, <2>1, <2>3, <2>4, <2>5, <2>6, <2>7
  <1>3. CASE ~MayTake
    <2>1. /\ hpc' = [hpc EXCEPT ![h] = IF running THEN "waiting" ELSE "leaving"]
          /\ UNCHANGED <<reply, workQueue, running, numThreads, item, callback, stop>>
      BY <1>3 DEF LoopWorker
    <2>2. Inside(hpc') = Inside(hpc)
      BY <2>1 DEF Inside, LoopWorker
    <2>3. Exclusive' /\ OwnedIffOpen'
      BY <2>1 DEF Exclusive, OwnedIffOpen, InCallback, InQueue, WithWorker
    <2> QED
      BY <2>1, <2>2, <2>3 DEF LoopWorker
  <1> QED
    BY <1>2, <1>3

LEMMA HandledInv ==
    ASSUME HttpInv, NEW h \in HttpWorkers, Handled(h)
    PROVE  HttpInv'
  <1> USE DEF HttpInv, HttpTypeOK
  <1>1. item[h] \in Requests /\ item[h] # NoRequest
    BY DEF Handled
  <1>2. Inside(hpc') = Inside(hpc)
    BY DEF Inside, Handled
  <1>3. HttpTypeOK'
    BY <1>1 DEF Handled, Answers
  <1>4. Exclusive'
    BY DEF Exclusive, Handled
  <1>5. OwnedIffOpen'
    <2>1. \A r \in Requests : WithWorker(r)' <=> WithWorker(r) /\ r # item[h]
      BY <1>1, HttpAssumption DEF WithWorker, Exclusive, Handled
    <2>2. ~InQueue(item[h]) /\ ~InCallback(item[h])
      BY <1>1 DEF Exclusive, InQueue, InCallback
    <2> QED
      BY <1>1, <2>1, <2>2 DEF OwnedIffOpen, Handled, InQueue, InCallback
  <1> QED
    BY <1>2, <1>3, <1>4, <1>5 DEF Handled

LEMMA LeaveWorkerInv ==
    ASSUME HttpInv, NEW h \in HttpWorkers, LeaveWorker(h)
    PROVE  HttpInv'
  <1> USE DEF HttpInv, HttpTypeOK
  <1>1. Inside(hpc') = Inside(hpc) \ {h} /\ h \in Inside(hpc)
    BY DEF Inside, LeaveWorker
  <1>2. Cardinality(Inside(hpc')) = Cardinality(Inside(hpc)) - 1
    BY <1>1, InsideFinite, FS_RemoveElement
  <1>3. Cardinality(Inside(hpc')) \in 0..Cardinality(HttpWorkers)
    BY InsideFinite
  <1>4. Exclusive' /\ OwnedIffOpen'
    BY DEF LeaveWorker, Exclusive, OwnedIffOpen, InCallback, InQueue, WithWorker
  <1> QED
    BY <1>1, <1>2, <1>3, <1>4 DEF LeaveWorker, WakeExit

LEMMA InterruptInv ==
    ASSUME HttpInv, Interrupt
    PROVE  HttpInv'
  <1> USE DEF HttpInv, HttpTypeOK
  <1>1. Inside(hpc') = Inside(hpc)
    BY DEF Inside, Interrupt
  <1>2. Exclusive' /\ OwnedIffOpen'
    BY DEF Interrupt, Exclusive, OwnedIffOpen, InCallback, InQueue, WithWorker
  <1> QED
    BY <1>1, <1>2 DEF Interrupt

\* WaitExit and StopHTTPServer move the stopping thread only.
LEMMA StopMovesInv ==
    ASSUME HttpInv, stop' \in {"exitwait", "waiting"},
           UNCHANGED <<reply, workQueue, running, numThreads, hpc, item, callback>>
    PROVE  HttpInv'
  BY DEF HttpInv, HttpTypeOK, Inside, Exclusive, OwnedIffOpen, InCallback, InQueue, WithWorker

LEMMA DeleteQueueInv ==
    ASSUME HttpInv, DeleteQueue
    PROVE  HttpInv'
  <1> USE DEF HttpInv, HttpTypeOK
  <1>1. Inside(hpc) = {}
    <2>1. Cardinality(Inside(hpc)) = 0
      BY DEF DeleteQueue, AllLeft
    <2> QED
      BY <2>1, InsideFinite, FS_EmptySet
  <1>2. HttpTypeOK'
    BY HttpAssumption DEF DeleteQueue, Answers
  <1>3. Exclusive'
    BY DEF Exclusive, DeleteQueue
  <1>4. OwnedIffOpen'
    <2>1. \A r \in Requests : Unhandled(r) <=> InQueue(r)
      BY DEF Unhandled, InQueue, Range
    <2>2. \A r \in Requests : ~InQueue(r)'
      BY DEF DeleteQueue, InQueue
    <2>3. \A r \in Requests : ~WithWorker(r)
      BY <1>1, HttpAssumption DEF WithWorker, Inside
    <2>4. \A r \in Requests : InQueue(r) => ~InCallback(r)
      BY DEF Exclusive, InQueue, InCallback
    <2> QED
      BY <2>1, <2>2, <2>3, <2>4 DEF OwnedIffOpen, DeleteQueue, InCallback, WithWorker
  <1> QED
    BY <1>1, <1>2, <1>3, <1>4 DEF DeleteQueue, Inside

\* One owner each, counted.
LEMMA HttpInvOneOwner == HttpInv => OneOwner
  <1> SUFFICES ASSUME HttpInv PROVE OneOwner
    OBVIOUS
  <1>1. HttpTypeOK /\ WorkersLeftFirst
    BY DEF HttpInv, HttpTypeOK, WorkersLeftFirst, Inside
  <1>2. ASSUME NEW r \in Requests
        PROVE  (IF callback = r THEN 1 ELSE 0)
                 + Cardinality({k \in DOMAIN workQueue : workQueue[k] = r})
                 + Cardinality({h \in HttpWorkers : item[h] = r})
               = IF reply[r] = "open" THEN 1 ELSE 0
    <2> DEFINE K == {k \in DOMAIN workQueue : workQueue[k] = r}
               H == {h \in HttpWorkers : item[h] = r}
    <2>1. /\ IF InQueue(r) THEN Cardinality(K) = 1 ELSE Cardinality(K) = 0
      <3>1. CASE InQueue(r)
        <4>1. PICK k \in DOMAIN workQueue : workQueue[k] = r
          BY <3>1 DEF InQueue
        <4>2. K = {k}
          BY <4>1 DEF HttpInv, Exclusive
        <4> QED
          BY <3>1, <4>2, FS_Singleton
      <3>2. CASE ~InQueue(r)
        <4>1. K = {}
          BY <3>2 DEF InQueue
        <4> QED
          BY <3>2, <4>1, FS_EmptySet
      <3> QED
        BY <3>1, <3>2
    <2>2. /\ IF WithWorker(r) THEN Cardinality(H) = 1 ELSE Cardinality(H) = 0
      <3>1. CASE WithWorker(r)
        <4>1. PICK h \in HttpWorkers : item[h] = r
          BY <3>1 DEF WithWorker
        <4>2. H = {h}
          BY <4>1, HttpAssumption DEF HttpInv, Exclusive
        <4> QED
          BY <3>1, <4>2, FS_Singleton
      <3>2. CASE ~WithWorker(r)
        <4>1. H = {}
          BY <3>2 DEF WithWorker
        <4> QED
          BY <3>2, <4>1, FS_EmptySet
      <3> QED
        BY <3>1, <3>2
    <2>3. /\ InCallback(r) => ~InQueue(r) /\ ~WithWorker(r)
          /\ InQueue(r) => ~WithWorker(r)
      BY HttpAssumption DEF HttpInv, Exclusive, InCallback, InQueue, WithWorker
    <2>4. reply[r] = "open" <=> InCallback(r) \/ InQueue(r) \/ WithWorker(r)
      BY DEF HttpInv, OwnedIffOpen
    <2> HIDE DEF K, H
    <2>5. (IF callback = r THEN 1 ELSE 0) + Cardinality(K) + Cardinality(H)
               = IF reply[r] = "open" THEN 1 ELSE 0
      BY <2>1, <2>2, <2>3, <2>4 DEF InCallback
    <2> QED
      BY <2>5 DEF K, H
  <1> QED
    BY <1>1, <1>2 DEF OneOwner

\* Every step of RpcServer keeps the queue's invariant, whatever the handlers
\* do to the operations.
LEMMA HttpNextInv == HttpInv /\ [Next]_vars => HttpInv'
  <1> SUFFICES ASSUME HttpInv, [Next]_vars PROVE HttpInv'
    OBVIOUS
  <1>1. CASE UNCHANGED httpVars
    BY <1>1 DEF httpVars, HttpInv, HttpTypeOK, Inside, Exclusive, OwnedIffOpen, InCallback,
                InQueue, WithWorker
  <1>2. ASSUME NEW r \in Requests, RequestArrives(r) PROVE HttpInv'
    BY <1>2, RequestArrivesInv
  <1>3. CASE Enqueue
    BY <1>3, EnqueueInv
  <1>4. ASSUME NEW h \in HttpWorkers, Handle(h) PROVE HttpInv'
    BY <1>4, HandledInv DEF Handle
  <1>5. ASSUME NEW h \in HttpWorkers, HttpWorkerStep(h) PROVE HttpInv'
    BY <1>5, StartWorkerInv, LoopWorkerInv, LeaveWorkerInv DEF HttpWorkerStep
  <1>6. CASE Interrupt
    BY <1>6, InterruptInv
  <1>7. CASE StopHTTPServer \/ WaitExit
    BY <1>7, StopMovesInv DEF StopHTTPServer, WaitExit
  <1>8. CASE DeleteQueue
    BY <1>8, DeleteQueueInv
  <1> QED
    BY <1>1, <1>2, <1>3, <1>4, <1>5, <1>6, <1>7, <1>8 DEF Next, vars, StopRPC, StopStep

\* The HTTP work queue of httpserver.cpp answers every request once: a request
\* is open exactly while http_request_cb, the queue or one worker has it, and no
\* worker is inside Run() when StopHTTPServer deletes the queue, for any number
\* of workers and any -rpcworkqueue.
THEOREM AlwaysOneOwner == Spec => []OneOwner
  <1>1. Init => HttpInv
    BY HttpInitInv DEF Init
  <1> QED
    BY <1>1, HttpNextInv, HttpInvOneOwner, PTL DEF Spec

-----------------------------------------------------------------------------
(***************************************************************************)
(* The queue of asynchronous operations.                                   *)
(***************************************************************************)

Queued(o) == \E k \in DOMAIN queue : queue[k] = o

\* A worker has an operation exactly from pop to the end of main(), and no two
\* workers have the same one.
HandedOut ==
    /\ \A w \in Workers : wop[w] # NoOp <=> wpc[w] \in InMain \cup {"popped"}
    /\ \A v, w \in Workers : wop[v] = wop[w] /\ wop[v] # NoOp => v = w
    /\ \A o \in Ops : Queued(o) => ~Held(o)

\* What has not been constructed is nowhere; what is queued, or held and not
\* yet executing, has not run.
NotYetRun ==
    /\ \A o \in Ops : state[o] = "none" =>
          o \notin operation_map /\ ~Queued(o) /\ ~Held(o) /\ runs[o] = 0
    /\ \A o \in Ops : runs[o] <= 1 /\ (Queued(o) => runs[o] = 0)
    /\ \A w \in Workers : wpc[w] \in {"popped", "main", "execute"} => runs[wop[w]] = 0

\* How far an operation's status and the worker that has it may be apart.
Statuses ==
    /\ \A w \in Workers : wpc[w] = "unlock" => state[wop[w]] \in Final
    /\ \A w \in Workers : wpc[w] = "running" => state[wop[w]] \in {"EXECUTING", "CANCELLED"}
    /\ \A o \in Ops : state[o] = "EXECUTING" => Held(o)

\* The thread in closeAndWait: once cancelAllOperations has the lock, it has
\* dealt with every operation that is not in todo.
Closing ==
    /\ closed <=> shut # "open"
    /\ shut # "cancelling" => todo = {} /\ testing = NoOp
    /\ shut = "done" => \A w \in Workers : wpc[w] = "exited"
    /\ shut = "open" =>
          \A o \in operation_map : state[o] = "READY" => Queued(o) \/ Held(o)
    /\ shut \in {"cancelling", "joining", "done"} =>
          \A o \in operation_map : state[o] = "READY" => o \in todo \cup {testing}

\* An operation that may still spend what it locked.
Active(o) == state[o] \in {"READY", "EXECUTING"} \/ Held(o) \/ Queued(o)

Reserved ==
    \A o \in Locks : Active(o) =>
        /\ inputs[o] \subseteq lockedCoins
        /\ \A p \in Locks : p # o /\ Active(p) => inputs[o] \cap inputs[p] = {}

\* An operation that has not given its inputs back: it is not over, or it was
\* cancelled and run() skips it.
Claims(o) == state[o] \in {"READY", "EXECUTING", "CANCELLED"} \/ Held(o)

\* Nothing stays locked for an operation that is over.
Released == \A c \in lockedCoins : \E o \in Locks : c \in inputs[o] /\ Claims(o)

AsyncInv ==
    /\ AsyncTypeOK
    /\ HandedOut
    /\ NotYetRun
    /\ Statuses
    /\ Closing
    /\ Reserved
    /\ Released

\* A step that locks nothing keeps Released if an operation that ceases to claim
\* its inputs has them unlocked.
LEMMA ReleasedKept ==
    ASSUME Released, lockedCoins' \subseteq lockedCoins,
           \A o \in Locks : inputs'[o] = inputs[o],
           \A o \in Locks : Claims(o) => (Claims(o)' \/ inputs[o] \cap lockedCoins' = {})
    PROVE  Released'
  BY DEF Released

LEMMA AsyncInitInv == AsyncInit => AsyncInv
  <1> SUFFICES ASSUME AsyncInit PROVE AsyncInv
    OBVIOUS
  <1>1. AsyncTypeOK
    <2>1. IsInjective(<<>>)
      BY DEF IsInjective
    <2>2. queue \in Seq(Ops) /\ IsInjective(queue)
      BY <2>1 DEF AsyncInit
    <2>3. wpc \in [Workers -> InMain \cup {"loop", "waiting", "popped", "exited"}]
      BY DEF AsyncInit
    <2> QED
      BY <2>2, <2>3 DEF AsyncInit, AsyncTypeOK
  <1>2. \A o \in Ops : ~Queued(o) /\ ~Held(o)
    BY OpsAssumption DEF AsyncInit, Queued, Held
  <1>3. HandedOut /\ NotYetRun /\ Statuses /\ Closing
    BY <1>2 DEF AsyncInit, HandedOut, NotYetRun, Statuses, Closing, InMain
  <1>4. Reserved
    BY <1>2 DEF AsyncInit, Reserved, Active, Ops, Locks
  <1>5. Released
    BY DEF AsyncInit, Released
  <1> QED
    BY <1>1, <1>3, <1>4, <1>5 DEF AsyncInv

\* A step that only moves workers between "loop" and "waiting".
LEMMA WakeInv ==
    ASSUME AsyncInv,
           wpc' \in [Workers -> InMain \cup {"loop", "waiting", "popped", "exited"}],
           \A w \in Workers : \/ wpc'[w] = wpc[w]
                              \/ wpc[w] \in {"loop", "waiting"} /\ wpc'[w] \in {"loop", "waiting"},
           UNCHANGED <<state, queueVars, walletVars, closeVars, wop, runs>>
    PROVE  AsyncInv'
  <1> USE DEF AsyncInv, queueVars, walletVars, closeVars
  <1>1. AsyncTypeOK'
    BY DEF AsyncTypeOK
  <1>2. \A o \in Ops : /\ Queued(o)' <=> Queued(o)
                       /\ Held(o)' <=> Held(o)
                       /\ Active(o)' <=> Active(o)
    BY DEF Queued, Held, Active
  <1>3. HandedOut'
    BY <1>2 DEF HandedOut, InMain
  <1>4. NotYetRun' /\ Statuses'
    BY <1>2 DEF NotYetRun, Statuses
  <1>5. Closing'
    BY <1>2 DEF Closing, AsyncTypeOK
  <1>6. Reserved'
    BY <1>2 DEF Reserved, Ops
  <1>7. Released'
    BY <1>2, ReleasedKept DEF Claims, Ops, Locks
  <1> QED
    BY <1>1, <1>3, <1>4, <1>5, <1>6, <1>7

\* z_sendmany, z_shieldcoinbase and z_mergetoaddress: a new operation is READY,
\* has the coins it locked to itself, and is queued unless the queue is closed.
LEMMA SubmitInv ==
    ASSUME AsyncInv, NEW o \in Ops,
           state[o] = "none", QueueFree,
           state' = [state EXCEPT ![o] = "READY"],
           addOperation(o),
           \/ o \in Sends /\ UNCHANGED <<inputs, lockedCoins>>
           \/ o \in Locks /\ \E ins \in SUBSET AvailableCoins :
                 inputs' = [inputs EXCEPT ![o] = ins] /\ lockedCoins' = lockedCoins \cup ins,
           UNCHANGED <<closed, spent, closeVars, wop, runs>>
    PROVE  AsyncInv'
  <1> USE DEF AsyncInv, AsyncTypeOK, closeVars
  <1>0. /\ o \notin operation_map /\ ~Queued(o) /\ ~Held(o) /\ runs[o] = 0
        /\ \A p \in Ops : state'[p] = IF p = o THEN "READY" ELSE state[p]
        /\ todo = {} /\ testing = NoOp
    BY DEF NotYetRun, Closing, QueueFree
  <1>1. /\ wpc' \in [Workers -> InMain \cup {"loop", "waiting", "popped", "exited"}]
        /\ \A w \in Workers : \/ wpc'[w] = wpc[w]
                              \/ wpc[w] = "waiting" /\ wpc'[w] = "loop"
    BY DEF addOperation, NotifyOne, Waiting
  <1>2. /\ queue' \in Seq(Ops) /\ IsInjective(queue')
        /\ \A p \in Ops : Queued(p)' <=> Queued(p) \/ (~closed /\ p = o)
        /\ operation_map' = IF closed THEN operation_map ELSE operation_map \cup {o}
    <2>1. CASE closed
      BY <2>1 DEF addOperation, Accepting, Queued
    <2>2. CASE ~closed
      <3>1. queue' = Append(queue, o) /\ operation_map' = operation_map \cup {o}
        BY <2>2 DEF addOperation, Accepting
      <3>2. \A k \in DOMAIN queue : queue[k] # o
        BY <1>0 DEF Queued
      <3>3. queue' \in Seq(Ops) /\ IsInjective(queue')
        BY <3>1, <3>2, PushKeepsInjective, Zenon
      <3>4. \A p : (\E k \in DOMAIN queue' : queue'[k] = p)
                       <=> (\E k \in DOMAIN queue : queue[k] = p) \/ p = o
        <4>1. queue \in Seq(Ops) /\ o \in Ops /\ queue' = Append(queue, o)
          BY <3>1
        <4> QED
          BY ONLY <4>1, PushElements
      <3>5. \A p \in Ops : Queued(p)' <=> Queued(p) \/ p = o
        BY <3>1, <3>4 DEF Queued
      <3> QED
        BY <2>2, <3>1, <3>3, <3>5
    <2> QED
      BY <2>1, <2>2
  <1>3. \A p \in Ops : Held(p)' <=> Held(p)
    BY DEF Held
  <1>4. inputs' \in [Ops -> SUBSET Coins] /\ lockedCoins' \subseteq Coins
    BY DEF AvailableCoins
  <1>5. AsyncTypeOK'
    BY <1>0, <1>1, <1>2, <1>4
  <1>6. HandedOut'
    BY <1>0, <1>1, <1>2, <1>3 DEF HandedOut, InMain
  <1>7. NotYetRun'
    BY <1>0, <1>1, <1>2, <1>3 DEF NotYetRun
  <1>8. Statuses'
    BY <1>0, <1>1, <1>3 DEF Statuses, Held, HandedOut, InMain
  <1>9. Closing'
    BY <1>0, <1>1, <1>2, <1>3 DEF Closing
  <1>10. Reserved'
    <2>1. \A p \in Locks \ {o} : (Active(p)' <=> Active(p)) /\ inputs'[p] = inputs[p]
      BY <1>0, <1>2, <1>3 DEF Active, Ops
    <2>2. lockedCoins \subseteq lockedCoins'
      OBVIOUS
    <2>3. o \in Locks => inputs'[o] \subseteq lockedCoins' /\ inputs'[o] \cap lockedCoins = {}
      BY OpsAssumption DEF AvailableCoins
    <2> QED
      BY <2>1, <2>2, <2>3 DEF Reserved
  <1>11. Released'
    <2>1. \A p \in Locks \ {o} : (Claims(p) => Claims(p)') /\ inputs'[p] = inputs[p]
      BY <1>0, <1>3 DEF Claims, Ops, Locks
    <2>2. ~Claims(o) /\ Claims(o)'
      BY <1>0 DEF Claims
    <2>3. lockedCoins' = lockedCoins \/ (o \in Locks /\ lockedCoins' = lockedCoins \cup inputs'[o])
      OBVIOUS
    <2> QED
      BY <2>1, <2>2, <2>3 DEF Released
  <1> QED
    BY <1>5, <1>6, <1>7, <1>8, <1>9, <1>10, <1>11

LEMMA GetResultInv ==
    ASSUME AsyncInv, NEW o \in Ops, z_getoperationresult(o)
    PROVE  AsyncInv'
  <1> USE DEF AsyncInv, z_getoperationresult, walletVars, closeVars
  <1>1. AsyncTypeOK'
    BY DEF AsyncTypeOK
  <1>2. \A p \in Ops : /\ Queued(p)' <=> Queued(p)
                       /\ Held(p)' <=> Held(p)
                       /\ Active(p)' <=> Active(p)
    BY DEF Queued, Held, Active
  <1>3. HandedOut' /\ NotYetRun' /\ Statuses'
    BY <1>2 DEF HandedOut, NotYetRun, Statuses
  <1>4. Closing'
    BY <1>2 DEF Closing, AsyncTypeOK
  <1>5. Reserved'
    BY <1>2 DEF Reserved, Ops
  <1>6. Released'
    BY <1>2, ReleasedKept DEF Claims, Ops, Locks
  <1> QED
    BY <1>1, <1>3, <1>4, <1>5, <1>6

\* What a handler does to the queue.
LEMMA HandlerInv ==
    ASSUME AsyncInv, NEW o \in Ops,
           z_sendmany(o) \/ z_shieldcoinbase(o) \/ z_mergetoaddress(o) \/ z_getoperationresult(o)
    PROVE  AsyncInv'
  <1>1. CASE z_sendmany(o)
    BY <1>1, SubmitInv DEF z_sendmany, walletVars
  <1>2. CASE z_shieldcoinbase(o) \/ z_mergetoaddress(o)
    <2>1. SubmitWithInputs(o) /\ o \in Locks
      BY <1>2 DEF z_shieldcoinbase, z_mergetoaddress, Locks
    <2> QED
      BY <2>1, SubmitInv DEF SubmitWithInputs, lock_utxos
  <1>3. CASE z_getoperationresult(o)
    BY <1>3, GetResultInv
  <1> QED
    BY <1>1, <1>2, <1>3

\* The worker loop.
LEMMA WaitInv ==
    ASSUME AsyncInv, NEW w \in Workers, WaitForWork(w) \/ SpuriousWakeup(w)
    PROVE  AsyncInv'
  <1>1. /\ wpc' \in [Workers -> InMain \cup {"loop", "waiting", "popped", "exited"}]
        /\ \A v \in Workers : \/ wpc'[v] = wpc[v]
                              \/ wpc[v] \in {"loop", "waiting"} /\ wpc'[v] \in {"loop", "waiting"}
    BY DEF WaitForWork, SpuriousWakeup, AsyncInv, AsyncTypeOK
  <1> QED
    BY <1>1, WakeInv DEF WaitForWork, SpuriousWakeup

LEMMA ExitInv ==
    ASSUME AsyncInv, NEW w \in Workers, ExitWorker(w)
    PROVE  AsyncInv'
  <1> USE DEF AsyncInv, ExitWorker, walletVars, closeVars
  <1>0. \A v \in Workers : wpc'[v] = IF v = w THEN "exited" ELSE wpc[v]
    BY DEF AsyncTypeOK
  <1>1. AsyncTypeOK'
    <2>1. queue' \in Seq(Ops) /\ IsInjective(queue')
      BY DEF IsInjective
    <2> QED
      BY <2>1 DEF AsyncTypeOK
  <1>2. \A o \in Ops : /\ ~Queued(o)'
                       /\ Held(o)' <=> Held(o)
                       /\ Active(o)' => Active(o)
    BY DEF Queued, Held, Active
  <1>3. HandedOut'
    BY <1>0, <1>2 DEF HandedOut, InMain
  <1>4. NotYetRun' /\ Statuses'
    BY <1>0, <1>2 DEF NotYetRun, Statuses
  <1>5. Closing'
    BY <1>0, <1>2 DEF Closing, AsyncTypeOK
  <1>6. Reserved'
    BY <1>2 DEF Reserved, Ops
  <1>7. Released'
    BY <1>2, ReleasedKept DEF Claims, Ops, Locks
  <1> QED
    BY <1>1, <1>3, <1>4, <1>5, <1>6, <1>7

LEMMA TakeInv ==
    ASSUME AsyncInv, NEW w \in Workers, TakeOperation(w)
    PROVE  AsyncInv'
  <1> USE DEF AsyncInv, walletVars, closeVars
  <1> DEFINE o == Head(queue)
  <1>0. /\ UNCHANGED <<state, operation_map, closed, inputs, lockedCoins, spent, shut, todo,
                       testing, runs>>
        /\ wpc[w] = "loop" /\ shut = "open"
        /\ queue # <<>> /\ queue' = Tail(queue)
    BY DEF TakeOperation, Popped, Closing
  <1>1. /\ o \in Ops /\ queue' \in Seq(Ops) /\ IsInjective(queue')
        /\ Queued(o)
        /\ \A p \in Ops : Queued(p)' <=> Queued(p) /\ p # o
    <2>1. queue \in Seq(Ops) /\ IsInjective(queue) /\ queue # <<>> /\ queue' = Tail(queue)
      BY <1>0 DEF AsyncTypeOK
    <2>2. o \in Ops /\ o = queue[1] /\ 1 \in DOMAIN queue
      BY ONLY <2>1, PopFacts, PopElements
    <2>3. queue' \in Seq(Ops) /\ IsInjective(queue')
      BY ONLY <2>1, PopKeepsInjective
    <2>4. /\ \A k \in DOMAIN queue' : \E j \in DOMAIN queue : j # 1 /\ queue'[k] = queue[j]
          /\ \A j \in DOMAIN queue : j # 1 => \E k \in DOMAIN queue' : queue'[k] = queue[j]
      BY ONLY <2>1, PopElements
    <2>5. \A j \in DOMAIN queue : j # 1 => queue[j] # o
      BY <2>1, <2>2 DEF IsInjective
    <2> HIDE DEF o
    <2>6. \A p \in Ops : Queued(p)' <=> Queued(p) /\ p # o
      BY ONLY <2>2, <2>4, <2>5 DEF Queued
    <2> QED
      BY <2>2, <2>3, <2>6 DEF Queued
  <1>2. /\ state[o] # "none" /\ ~Held(o) /\ runs[o] = 0 /\ o # NoOp
    BY <1>1, OpsAssumption DEF NotYetRun, HandedOut
  <1> HIDE DEF o
  <1>3. CASE o \in operation_map
    <2>1. /\ wpc' = [wpc EXCEPT ![w] = "popped"]
          /\ wop' = [wop EXCEPT ![w] = o]
      BY <1>3 DEF TakeOperation, o
    <2>2. /\ \A v \in Workers : wpc'[v] = IF v = w THEN "popped" ELSE wpc[v]
          /\ \A v \in Workers : wop'[v] = IF v = w THEN o ELSE wop[v]
          /\ wop[w] = NoOp
      BY <1>0, <2>1 DEF AsyncTypeOK, HandedOut, InMain
    <2>3. AsyncTypeOK'
      BY <1>0, <1>1, <2>1 DEF AsyncTypeOK
    <2>4. \A p \in Ops : Held(p)' <=> Held(p) \/ p = o
      BY <1>2, <2>2, OpsAssumption DEF Held
    <2>5. HandedOut'
      BY <1>1, <1>2, <2>2, <2>4 DEF HandedOut, InMain, Held
    <2>6. NotYetRun'
      BY <1>0, <1>1, <1>2, <2>2, <2>4 DEF NotYetRun
    <2>7. Statuses'
      BY <1>0, <1>2, <2>2, <2>4 DEF Statuses
    <2>8. Closing'
      BY <1>0, <1>1, <2>2, <2>4 DEF Closing, AsyncTypeOK
    <2>9. \A p \in Ops : Active(p)' <=> Active(p)
      BY <1>0, <1>1, <2>4 DEF Active
    <2>10. Reserved'
      BY <1>0, <2>9 DEF Reserved, Ops
    <2>11. Released'
      BY <1>0, <2>4, ReleasedKept DEF Claims, Ops, Locks
    <2> QED
      BY <2>3, <2>5, <2>6, <2>7, <2>8, <2>10, <2>11
  <1>4. CASE o \notin operation_map
    <2>1. UNCHANGED <<wpc, wop>>
      BY <1>4 DEF TakeOperation, o
    <2>2. AsyncTypeOK'
      BY <1>0, <1>1, <2>1 DEF AsyncTypeOK
    <2>3. \A p \in Ops : Held(p)' <=> Held(p)
      BY <2>1 DEF Held
    <2>4. HandedOut' /\ NotYetRun' /\ Statuses'
      BY <1>0, <1>1, <2>1, <2>3 DEF HandedOut, NotYetRun, Statuses
    <2>5. Closing'
      BY <1>0, <1>1, <1>4, <2>1, <2>3 DEF Closing, AsyncTypeOK
    <2>6. \A p \in Ops : Active(p)' => Active(p)
      BY <1>0, <1>1, <2>3 DEF Active
    <2>7. Reserved'
      BY <1>0, <2>6 DEF Reserved, Ops
    <2>8. Released'
      BY <1>0, <2>3, ReleasedKept DEF Claims, Ops, Locks
    <2> QED
      BY <2>2, <2>4, <2>5, <2>7, <2>8
  <1> QED
    BY <1>3, <1>4

\* A worker between pop and the end of main() has an operation.
LEMMA HasOperation ==
    ASSUME AsyncInv, NEW w \in Workers, wpc[w] \in InMain \cup {"popped"}
    PROVE  /\ wop[w] \in Ops /\ wop[w] # NoOp
           /\ Held(wop[w]) /\ ~Queued(wop[w])
           /\ \A v \in Workers : wop[v] = wop[w] => v = w
           /\ state[wop[w]] # "none"
  <1>1. wop[w] \in Ops /\ wop[w] # NoOp /\ \A v \in Workers : wop[v] = wop[w] => v = w
    BY DEF AsyncInv, AsyncTypeOK, HandedOut
  <1>2. Held(wop[w])
    BY DEF Held
  <1> QED
    BY <1>1, <1>2 DEF AsyncInv, HandedOut, NotYetRun

\* A worker that goes on with its operation keeps it to itself.
LEMMA GoesOn ==
    ASSUME AsyncInv, NEW w \in Workers, wpc[w] \in InMain \cup {"popped"},
           NEW pc \in InMain, Leave(w, pc), UNCHANGED queue
    PROVE  /\ wpc' \in [Workers -> InMain \cup {"loop", "waiting", "popped", "exited"}]
           /\ wop' = wop
           /\ \A v \in Workers : wpc'[v] = IF v = w THEN pc ELSE wpc[v]
           /\ \A o \in Ops : (Held(o)' <=> Held(o)) /\ (Queued(o)' <=> Queued(o))
           /\ HandedOut'
  <1>1. wop' = wop
    BY DEF Leave, InMain, AsyncInv, AsyncTypeOK
  <1>2. /\ \A v \in Workers : wpc'[v] = IF v = w THEN pc ELSE wpc[v]
        /\ wpc' \in [Workers -> InMain \cup {"loop", "waiting", "popped", "exited"}]
    BY DEF Leave, AsyncInv, AsyncTypeOK
  <1>3. \A o \in Ops : (Held(o)' <=> Held(o)) /\ (Queued(o)' <=> Queued(o))
    BY <1>1 DEF Held, Queued
  <1>4. HandedOut'
    BY <1>1, <1>2, <1>3 DEF HandedOut, AsyncInv
  <1> QED
    BY <1>1, <1>2, <1>3, <1>4

\* The tests for CANCELLED in run() and in main() that do not end there.
LEMMA TestGoesOnInv ==
    ASSUME AsyncInv, NEW w \in Workers, NEW pc \in InMain, Leave(w, pc),
           \/ wpc[w] = "popped" /\ pc = "main"
           \/ wpc[w] = "main" /\ pc = "execute"
           \/ wpc[w] = "main" /\ pc = "unlock" /\ state[wop[w]] = "CANCELLED",
           UNCHANGED <<state, queueVars, walletVars, closeVars, runs>>
    PROVE  AsyncInv'
  <1> USE DEF AsyncInv, queueVars, walletVars, closeVars
  <1>1. /\ wpc' \in [Workers -> InMain \cup {"loop", "waiting", "popped", "exited"}]
        /\ wop' = wop
        /\ \A v \in Workers : wpc'[v] = IF v = w THEN pc ELSE wpc[v]
        /\ \A o \in Ops : (Held(o)' <=> Held(o)) /\ (Queued(o)' <=> Queued(o))
        /\ HandedOut'
    BY GoesOn DEF InMain
  <1>2. AsyncTypeOK'
    BY <1>1 DEF AsyncTypeOK
  <1>3. NotYetRun' /\ Statuses'
    BY <1>1 DEF NotYetRun, Statuses, Final
  <1>4. Closing'
    BY <1>1 DEF Closing, AsyncTypeOK
  <1>5. \A o \in Ops : Active(o)' <=> Active(o)
    BY <1>1 DEF Active
  <1>6. Reserved'
    BY <1>5 DEF Reserved, Ops
  <1>7. Released'
    BY <1>1, ReleasedKept DEF Claims, Ops, Locks
  <1> QED
    BY <1>1, <1>2, <1>3, <1>4, <1>6, <1>7

\* A worker that is done with its operation: it was CANCELLED before main(), or
\* main() has ended and its inputs are unlocked.
LEMMA DropInv ==
    ASSUME AsyncInv, NEW w \in Workers, wpc[w] \in {"popped", "unlock"}, Leave(w, "loop"),
           state[wop[w]] \in Final,
           \/ UNCHANGED lockedCoins /\ (state[wop[w]] = "CANCELLED" \/ wop[w] \notin Locks)
           \/ wop[w] \in Locks /\ lockedCoins' = lockedCoins \ inputs[wop[w]],
           UNCHANGED <<state, queueVars, inputs, spent, closeVars, runs>>
    PROVE  AsyncInv'
  <1> USE DEF AsyncInv, queueVars, closeVars
  <1> DEFINE o == wop[w]
  <1>1. /\ wpc' = [wpc EXCEPT ![w] = "loop"]
        /\ wop' = [wop EXCEPT ![w] = NoOp]
    BY DEF Leave
  <1>2. /\ \A v \in Workers : wpc'[v] = IF v = w THEN "loop" ELSE wpc[v]
        /\ \A v \in Workers : wop'[v] = IF v = w THEN NoOp ELSE wop[v]
    BY <1>1 DEF AsyncTypeOK
  <1>3. /\ o \in Ops /\ o # NoOp /\ ~Queued(o)
        /\ \A v \in Workers : wop[v] = o => v = w
    BY HasOperation DEF InMain
  <1>4. state[o] \in Final
    OBVIOUS
  <1> HIDE DEF o
  <1>5. AsyncTypeOK'
    BY <1>1 DEF AsyncTypeOK
  <1>6. \A p \in Ops : /\ Held(p)' <=> Held(p) /\ p # o
                       /\ Queued(p)' <=> Queued(p)
    BY <1>2, <1>3, OpsAssumption DEF Held, Queued, o
  <1>7. HandedOut'
    BY <1>2, <1>6 DEF HandedOut, InMain
  <1>8. NotYetRun'
    BY <1>2, <1>6 DEF NotYetRun
  <1>9. Statuses'
    BY <1>2, <1>4, <1>6 DEF Statuses, Final
  <1>10. Closing'
    BY <1>2, <1>4, <1>6 DEF Closing, AsyncTypeOK, Final
  <1>11. Reserved'
    <2>1. \A p \in Ops : Active(p)' => Active(p) /\ p # o
      BY <1>3, <1>4, <1>6 DEF Active, Final
    <2>2. o \in Locks => Active(o)
      BY <1>3 DEF Active, Held, o
    <2>3. \A p \in Locks : Active(p)' => inputs[p] \subseteq lockedCoins'
      BY <2>1, <2>2 DEF Reserved, Ops, o
    <2> QED
      BY <2>1, <2>3 DEF Reserved, Ops
  <1>12. Released'
    <2>1. \A p \in Locks : Claims(p) /\ p # o => Claims(p)'
      BY <1>6 DEF Claims, Ops, Locks
    <2>2. \A p \in Locks : p = o => (Claims(p)' \/ inputs[p] \cap lockedCoins' = {})
      BY DEF Claims, o
    <2> QED
      BY <2>1, <2>2, ReleasedKept
  <1> QED
    BY <1>5, <1>7, <1>8, <1>9, <1>10, <1>11, <1>12

LEMMA ExecuteInv ==
    ASSUME AsyncInv, NEW w \in Workers, Execute(w)
    PROVE  AsyncInv'
  <1> USE DEF AsyncInv, queueVars, walletVars, closeVars
  <1> DEFINE o == wop[w]
  <1>1. /\ wpc' \in [Workers -> InMain \cup {"loop", "waiting", "popped", "exited"}]
        /\ wop' = wop
        /\ \A v \in Workers : wpc'[v] = IF v = w THEN "running" ELSE wpc[v]
        /\ \A p \in Ops : (Held(p)' <=> Held(p)) /\ (Queued(p)' <=> Queued(p))
        /\ HandedOut'
    BY GoesOn DEF InMain, Execute
  <1>2. /\ o \in Ops /\ o # NoOp /\ Held(o) /\ ~Queued(o)
        /\ \A v \in Workers : wop[v] = o => v = w
    BY HasOperation DEF InMain, Execute
  <1>3. runs[o] = 0
    BY DEF NotYetRun, Execute
  <1>4. /\ state' = [state EXCEPT ![o] = "EXECUTING"]
        /\ runs' = [runs EXCEPT ![o] = @ + 1]
        /\ UNCHANGED <<queueVars, walletVars, closeVars>>
        /\ wpc[w] = "execute"
    BY DEF Execute
  <1>5. \A v \in Workers : (wop[v] = o) <=> (v = w)
    BY <1>2
  <1> HIDE DEF o
  <1>6. AsyncTypeOK'
    BY <1>1, <1>2, <1>4 DEF AsyncTypeOK
  <1>7. NotYetRun'
    <2>1. \A p \in Ops : /\ state'[p] = IF p = o THEN "EXECUTING" ELSE state[p]
                         /\ runs'[p] = IF p = o THEN 1 ELSE runs[p]
      BY <1>2, <1>3, <1>4 DEF AsyncTypeOK
    <2>2. \A v \in Workers \ {w} : wpc[v] \in {"popped", "main", "execute"} => wop[v] \in Ops \ {o}
      BY <1>5 DEF HandedOut, AsyncTypeOK, InMain
    <2> QED
      BY <1>1, <1>2, <1>4, <2>1, <2>2 DEF NotYetRun
  <1>8. Statuses'
    <2>1. \A p \in Ops : state'[p] = IF p = o THEN "EXECUTING" ELSE state[p]
      BY <1>2, <1>4 DEF AsyncTypeOK
    <2>2. \A v \in Workers \ {w} : wpc[v] \in InMain => wop[v] \in Ops \ {o}
      BY <1>5 DEF HandedOut, AsyncTypeOK
    <2>3. state'[wop'[w]] = "EXECUTING"
      BY <1>1, <1>2, <2>1 DEF o
    <2> QED
      BY <1>1, <1>2, <2>1, <2>2, <2>3 DEF Statuses, InMain
  <1>9. Closing'
    BY <1>1, <1>2, <1>4, <1>5 DEF Closing, AsyncTypeOK
  <1>10. Reserved'
    <2>1. \A p \in Ops : Active(p)' => Active(p)
      BY <1>1, <1>2, <1>4 DEF Active, AsyncTypeOK
    <2> QED
      BY <1>4, <2>1 DEF Reserved, Ops
  <1>11. Released'
    BY <1>1, <1>2, <1>4, ReleasedKept DEF Claims, Ops, Locks
  <1> QED
    BY <1>1, <1>6, <1>7, <1>8, <1>9, <1>10, <1>11

\* z_sendmany's inputs are not locked: they concern no other operation.
LEMMA SelectInv ==
    ASSUME AsyncInv, NEW w \in Workers, SelectInputs(w)
    PROVE  AsyncInv'
  <1> USE DEF AsyncInv, queueVars, closeVars
  <1>1. /\ inputs' \in [Ops -> SUBSET Coins]
        /\ \A o \in Locks : inputs'[o] = inputs[o]
        /\ UNCHANGED <<state, queueVars, lockedCoins, spent, closeVars, wpc, wop, runs>>
    BY OpsAssumption DEF SelectInputs, AsyncTypeOK, AvailableCoins, Ops
  <1>2. AsyncTypeOK'
    BY <1>1 DEF AsyncTypeOK
  <1>3. \A o \in Ops : (Held(o)' <=> Held(o)) /\ (Queued(o)' <=> Queued(o)) /\ (Active(o)' <=> Active(o))
    BY <1>1 DEF Held, Queued, Active
  <1>4. HandedOut' /\ NotYetRun' /\ Statuses'
    BY <1>1, <1>3 DEF HandedOut, NotYetRun, Statuses
  <1>5. Closing'
    BY <1>1, <1>3 DEF Closing, AsyncTypeOK
  <1>6. Reserved'
    BY <1>1, <1>3 DEF Reserved, Ops
  <1>7. Released'
    BY <1>1, <1>3, ReleasedKept DEF Claims, Ops, Locks
  <1> QED
    BY <1>2, <1>4, <1>5, <1>6, <1>7

LEMMA FinishInv ==
    ASSUME AsyncInv, NEW w \in Workers, NEW result \in {"SUCCESS", "FAILED"}, Finish(w, result)
    PROVE  AsyncInv'
  <1> USE DEF AsyncInv, queueVars, closeVars
  <1> DEFINE o == wop[w]
  <1>1. /\ wpc' \in [Workers -> InMain \cup {"loop", "waiting", "popped", "exited"}]
        /\ wop' = wop
        /\ \A v \in Workers : wpc'[v] = IF v = w THEN "unlock" ELSE wpc[v]
        /\ \A p \in Ops : (Held(p)' <=> Held(p)) /\ (Queued(p)' <=> Queued(p))
        /\ HandedOut'
    BY GoesOn DEF InMain, Finish
  <1>2. /\ o \in Ops /\ o # NoOp /\ Held(o) /\ ~Queued(o)
        /\ \A v \in Workers : wop[v] = o => v = w
    BY HasOperation DEF InMain, Finish
  <1>3. /\ state' = [state EXCEPT ![o] = result]
        /\ spent' \subseteq Coins
        /\ UNCHANGED <<queueVars, inputs, lockedCoins, closeVars, runs>>
        /\ wpc[w] = "running"
    BY <1>2 DEF Finish, AsyncTypeOK
  <1>4. \A p \in Ops : state'[p] = IF p = o THEN result ELSE state[p]
    BY <1>2, <1>3 DEF AsyncTypeOK
  <1>5. \A v \in Workers \ {w} : wpc[v] \in InMain => wop[v] \in Ops \ {o}
    BY <1>2 DEF HandedOut, AsyncTypeOK
  <1>6. state'[wop'[w]] \in Final
    BY <1>1, <1>2, <1>4 DEF Final
  <1> HIDE DEF o
  <1>7. AsyncTypeOK'
    BY <1>1, <1>2, <1>3 DEF AsyncTypeOK, Final
  <1>8. NotYetRun'
    BY <1>1, <1>2, <1>3, <1>4 DEF NotYetRun
  <1>9. Statuses'
    BY <1>1, <1>2, <1>4, <1>5, <1>6 DEF Statuses, InMain
  <1>10. Closing'
    BY <1>1, <1>2, <1>3, <1>4 DEF Closing, AsyncTypeOK
  <1>11. Reserved'
    <2>1. \A p \in Ops : Active(p)' => Active(p)
      BY <1>1, <1>2, <1>4 DEF Active
    <2> QED
      BY <1>3, <2>1 DEF Reserved, Ops
  <1>12. Released'
    <2>1. \A p \in Ops : Claims(p) => Claims(p)'
      BY <1>1, <1>2, <1>4 DEF Claims
    <2> QED
      BY <1>3, <2>1, ReleasedKept DEF Ops, Locks
  <1> QED
    BY <1>1, <1>7, <1>8, <1>9, <1>10, <1>11, <1>12

\* The steps of a worker.
LEMMA WorkerInv ==
    ASSUME AsyncInv, NEW w \in Workers, WalletStep(w) \/ QueueStep(w) \/ SpuriousWakeup(w)
    PROVE  AsyncInv'
  <1>1. CASE WaitForWork(w) \/ SpuriousWakeup(w)
    BY <1>1, WaitInv
  <1>2. CASE ExitWorker(w)
    BY <1>2, ExitInv
  <1>3. CASE TakeOperation(w)
    BY <1>3, TakeInv
  <1>4. CASE TestInRun(w)
    <2>1. CASE state[wop[w]] = "CANCELLED"
      BY <1>4, <2>1, DropInv DEF TestInRun, Final, walletVars
    <2>2. CASE state[wop[w]] # "CANCELLED"
      BY <1>4, <2>2, TestGoesOnInv DEF TestInRun, InMain
    <2> QED
      BY <2>1, <2>2
  <1>5. CASE TestInMain(w)
    BY <1>5, TestGoesOnInv DEF TestInMain, InMain
  <1>6. CASE Execute(w)
    BY <1>6, ExecuteInv
  <1>7. CASE SelectInputs(w)
    BY <1>7, SelectInv
  <1>8. CASE Finish(w, "SUCCESS") \/ Finish(w, "FAILED")
    BY <1>8, FinishInv
  <1>9. CASE Unlock(w)
    <2>1. state[wop[w]] \in Final
      BY <1>9 DEF AsyncInv, Statuses, Unlock
    <2> QED
      BY <1>9, <2>1, DropInv DEF Unlock
  <1> QED
    BY <1>1, <1>2, <1>3, <1>4, <1>5, <1>6, <1>7, <1>8, <1>9 DEF WalletStep, QueueStep

\* closeAndWait: a step that moves the closing thread only.
LEMMA CloseInv ==
    ASSUME AsyncInv, Close \/ BeginCancelAll \/ Joined
    PROVE  AsyncInv'
  <1> USE DEF AsyncInv, queueVars, walletVars, closeVars, Close, BeginCancelAll, Joined
  <1>1. AsyncTypeOK'
    BY DEF AsyncTypeOK, CancelTargets
  <1>2. \A o \in Ops : (Held(o)' <=> Held(o)) /\ (Queued(o)' <=> Queued(o)) /\ (Active(o)' <=> Active(o))
    BY DEF Held, Queued, Active
  <1>3. HandedOut' /\ NotYetRun' /\ Statuses'
    BY <1>2 DEF HandedOut, NotYetRun, Statuses
  <1>4. Closing'
    BY <1>2 DEF Closing, AsyncTypeOK, CancelTargets
  <1>5. Reserved'
    BY <1>2 DEF Reserved, Ops
  <1>6. Released'
    BY <1>2, ReleasedKept DEF Claims, Ops, Locks
  <1> QED
    BY <1>1, <1>3, <1>4, <1>5, <1>6

LEMMA CancelTestInv ==
    ASSUME AsyncInv, NEW o \in Ops, CancelTest(o)
    PROVE  AsyncInv'
  <1> USE DEF AsyncInv, queueVars, walletVars, CancelTest
  <1>1. AsyncTypeOK'
    BY DEF AsyncTypeOK
  <1>2. \A p \in Ops : (Held(p)' <=> Held(p)) /\ (Queued(p)' <=> Queued(p)) /\ (Active(p)' <=> Active(p))
    BY DEF Held, Queued, Active
  <1>3. HandedOut' /\ NotYetRun' /\ Statuses'
    BY <1>2 DEF HandedOut, NotYetRun, Statuses
  <1>4. Closing'
    BY <1>2, OpsAssumption DEF Closing, AsyncTypeOK
  <1>5. Reserved'
    BY <1>2 DEF Reserved, Ops
  <1>6. Released'
    BY <1>2, ReleasedKept DEF Claims, Ops, Locks
  <1> QED
    BY <1>1, <1>3, <1>4, <1>5, <1>6

\* The status is overwritten without a second look; a worker that has the
\* operation carries on and overwrites it in turn.
LEMMA CancelStoreInv ==
    ASSUME AsyncInv, CancelStore
    PROVE  AsyncInv'
  <1> USE DEF AsyncInv, queueVars, walletVars
  <1>0. /\ testing \in Ops /\ shut = "cancelling"
        /\ \A p \in Ops : state'[p] = IF p = testing THEN "CANCELLED" ELSE state[p]
        /\ state' \in [Ops -> Final \cup {"none", "READY", "EXECUTING"}]
        /\ testing' = NoOp
        /\ UNCHANGED <<queueVars, walletVars, shut, todo, wpc, wop, runs>>
    BY DEF CancelStore, AsyncTypeOK, Closing, Final
  <1>1. AsyncTypeOK'
    BY <1>0 DEF AsyncTypeOK
  <1>2. \A p \in Ops : (Held(p)' <=> Held(p)) /\ (Queued(p)' <=> Queued(p)) /\ (Active(p)' => Active(p))
    BY <1>0 DEF Held, Queued, Active
  <1>4. HandedOut'
    BY <1>0, <1>2 DEF HandedOut
  <1>5. NotYetRun'
    BY <1>0, <1>2 DEF NotYetRun
  <1>6. Statuses'
    <2>1. \A w \in Workers : wpc[w] \in InMain => wop[w] \in Ops
      BY DEF HandedOut, AsyncTypeOK
    <2> QED
      BY <1>0, <1>2, <2>1 DEF Statuses, Final, InMain
  <1>7. Closing'
    BY <1>0, <1>2 DEF Closing, AsyncTypeOK
  <1>8. Reserved'
    BY <1>0, <1>2 DEF Reserved, Ops
  <1>9. Released'
    BY <1>0, <1>2, ReleasedKept DEF Claims, Ops, Locks
  <1> QED
    BY <1>1, <1>4, <1>5, <1>6, <1>7, <1>8, <1>9

LEMMA BeginJoinInv ==
    ASSUME AsyncInv, BeginJoin
    PROVE  AsyncInv'
  <1> USE DEF AsyncInv, queueVars, walletVars, BeginJoin
  <1>0. \A w \in Workers : wpc'[w] = IF wpc[w] = "waiting" THEN "loop" ELSE wpc[w]
    BY DEF NotifyAll
  <1>1. AsyncTypeOK'
    BY <1>0 DEF AsyncTypeOK, NotifyAll
  <1>2. \A p \in Ops : (Held(p)' <=> Held(p)) /\ (Queued(p)' <=> Queued(p)) /\ (Active(p)' <=> Active(p))
    BY DEF Held, Queued, Active
  <1>3. HandedOut'
    BY <1>0, <1>2 DEF HandedOut, InMain
  <1>4. NotYetRun' /\ Statuses'
    BY <1>0, <1>2 DEF NotYetRun, Statuses
  <1>5. Closing'
    BY <1>2, OpsAssumption DEF Closing, AsyncTypeOK
  <1>6. Reserved'
    BY <1>2 DEF Reserved, Ops
  <1>7. Released'
    BY <1>2, ReleasedKept DEF Claims, Ops, Locks
  <1> QED
    BY <1>1, <1>3, <1>4, <1>5, <1>6, <1>7

LEMMA AsyncNextInv == AsyncInv /\ [Next]_vars => AsyncInv'
  <1> SUFFICES ASSUME AsyncInv, [Next]_vars PROVE AsyncInv'
    OBVIOUS
  <1>1. CASE UNCHANGED asyncVars
    <2> USE <1>1 DEF asyncVars, queueVars, walletVars, closeVars
    <2>1. wpc' \in [Workers -> InMain \cup {"loop", "waiting", "popped", "exited"}]
      BY DEF AsyncInv, AsyncTypeOK
    <2> QED
      BY <2>1, WakeInv
  <1>2. ASSUME NEW h \in HttpWorkers, Handle(h) PROVE AsyncInv'
    BY <1>1, <1>2, HandlerInv DEF Handle
  <1>3. ASSUME NEW w \in Workers, WalletStep(w) \/ QueueStep(w) \/ SpuriousWakeup(w)
        PROVE  AsyncInv'
    BY <1>3, WorkerInv
  <1>4. CASE CloserStep
    BY <1>4, CloseInv, CancelTestInv, CancelStoreInv, BeginJoinInv DEF CloserStep
  <1>5. CASE StopRPC
    BY <1>5, CloseInv DEF StopRPC
  <1> QED
    BY <1>1, <1>2, <1>3, <1>4, <1>5 DEF Next, vars, StopHTTPServer

\* The inductive invariant holds of every reachable state.
LEMMA AsyncAlways == Spec => []AsyncInv
  <1>1. Init => AsyncInv
    BY AsyncInitInv DEF Init
  <1> QED
    BY <1>1, AsyncNextInv, PTL DEF Spec

\* No operation an RPC has queued is forgotten or run twice: while it is READY it
\* is in operation_id_queue_, with the one worker that popped it, or about to be
\* cancelled by closeAndWait, for any number of workers and operations.
THEOREM AlwaysNoneForgotten == Spec => []NoneForgotten
  <1>1. AsyncInv => NoneForgotten
    <2> SUFFICES ASSUME AsyncInv PROVE NoneForgotten
      OBVIOUS
    <2>1. AsyncTypeOK /\ RunsAtMostOnce
      BY DEF AsyncInv, NotYetRun, HandedOut, RunsAtMostOnce
    <2>2. ASSUME NEW o \in operation_map, state[o] = "READY"
          PROVE  \/ o \in Range(queue) \/ Held(o) \/ shut = "closing"
                 \/ (shut = "cancelling" /\ o \in todo \cup {testing})
      <3>1. o \in Ops /\ o # NoOp
        BY OpsAssumption DEF AsyncInv, AsyncTypeOK
      <3>2. Queued(o) => o \in Range(queue)
        BY DEF Queued, Range
      <3>3. CASE shut = "open"
        BY <2>2, <3>2, <3>3 DEF AsyncInv, Closing
      <3>4. CASE shut # "open"
        BY <2>2, <3>1, <3>4 DEF AsyncInv, Closing, AsyncTypeOK
      <3> QED
        BY <3>3, <3>4
    <2> QED
      BY <2>1, <2>2 DEF NoneForgotten
  <1> QED
    BY <1>1, AsyncAlways, PTL

\* The UTXOs and notes that z_shieldcoinbase and z_mergetoaddress lock in their
\* constructors stay locked, and no other operation's, until main() is over; and
\* none stays locked for an operation that is over, unless it was cancelled.
THEOREM AlwaysInputsReserved == Spec => []InputsReserved
  <1>1. AsyncInv => InputsReserved
    <2> SUFFICES ASSUME AsyncInv PROVE InputsReserved
      OBVIOUS
    <2>1. \A o \in Live : o \in Locks /\ Active(o)
      BY DEF Live, Active
    <2>2. \A c \in lockedCoins : \E o \in Locks : c \in inputs[o] /\ (o \in Live \/ state[o] = "CANCELLED")
      BY DEF AsyncInv, Released, Claims, Live
    <2> QED
      BY <2>1, <2>2 DEF AsyncInv, Reserved, InputsReserved
  <1> QED
    BY <1>1, AsyncAlways, PTL

\* When closeAndWait returns, no worker is inside an operation and every operation
\* the map still has is CANCELLED, FAILED or SUCCESS, however the cancelling
\* thread's stores fell between those of the workers.
THEOREM AlwaysShutdownSettles == Spec => []ShutdownSettles
  <1>1. AsyncInv => ShutdownSettles
    <2> SUFFICES ASSUME AsyncInv, shut = "done"
                 PROVE  /\ \A w \in Workers : wop[w] = NoOp
                        /\ \A o \in operation_map : state[o] \in Final
      BY DEF ShutdownSettles
    <2>1. \A w \in Workers : wpc[w] = "exited"
      BY DEF AsyncInv, Closing
    <2>2. \A w \in Workers : wop[w] = NoOp
      BY <2>1 DEF AsyncInv, HandedOut, InMain
    <2>3. ASSUME NEW o \in operation_map PROVE state[o] \in Final
      <3>1. o \in Ops /\ o # NoOp /\ todo = {} /\ testing = NoOp
        BY OpsAssumption DEF AsyncInv, AsyncTypeOK, Closing
      <3>2. state[o] # "none" /\ state[o] # "READY"
        BY <3>1 DEF AsyncInv, NotYetRun, Closing
      <3>3. state[o] # "EXECUTING"
        BY <2>2, <3>1 DEF AsyncInv, Statuses, Held
      <3> QED
        BY <3>1, <3>2, <3>3 DEF AsyncInv, AsyncTypeOK
    <2> QED
      BY <2>2, <2>3
  <1> QED
    BY <1>1, AsyncAlways, PTL
=============================================================================
