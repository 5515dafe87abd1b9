-------------------------- MODULE CheckQueueProofs --------------------------
(***************************************************************************)
(* Safety of CheckQueue for every number of threads, batch size, number of *)
(* checks and number of blocks.                                            *)
(*                                                                         *)
(* The invariants that matter are not inductive: what Wait returns depends *)
(* on the counters nTodo, nTotal and nIdle, which the threads maintain     *)
(* separately from the queue and from their batches.  IInv ties each       *)
(* counter to the set it counts, and accounts for every failing check.     *)
(***************************************************************************)
EXTENDS CheckQueue, FiniteSetTheorems, TLAPS

States == LoopStates \cup {"idle", "adding", "gone"}

\* Threads with a batch, and threads inside wait(), other than those in X.
Busy(pcs, X) == {u \in Threads \ X : pcs[u] \in {"work", "executed"}}
Blocked(pcs, X) == {u \in Threads \ X : pcs[u] \in {"waiting", "woken"}}

\* Checks added and not yet accounted for, not counting the batches of X.
Outstanding(X) ==
    {c \in Checks : c \in queue \/ \E u \in Threads \ X : c \in vChecks[u]}

\* A failing check that some thread other than X has still to run.
Unrun(pcs, X) ==
    \E c \in bad : \/ c \in queue
                   \/ \E u \in Threads \ X : pcs[u] = "work" /\ c \in vChecks[u]

\* A failure some thread other than X has seen and not yet accounted for.
Seen(pcs, X) == \E u \in Busy(pcs, X) : ~ fOk[u]

(***************************************************************************)
(* The inductive invariant, parameterised by a thread (or none) that is    *)
(* inside the critical section, and by the values that thread has computed *)
(* and not yet stored.                                                     *)
(***************************************************************************)
Counted(X, todo, idle, pcs) ==
    /\ Cardinality(Blocked(pcs, X)) <= idle
    /\ todo = Cardinality(Outstanding(X))

Batches(X, pcs) ==
    /\ \A u \in Threads \ X :
          /\ vChecks[u] \cap queue = {}
          /\ vChecks[u] # {} <=> pcs[u] \in {"work", "executed"}
          /\ \A v \in Threads \ X : u # v => vChecks[u] \cap vChecks[v] = {}
    /\ Outstanding(X) \subseteq 1..nAdded
    /\ bad \subseteq 1..nAdded

Failures(X, allOk, pcs) ==
    /\ ~ allOk \/ Seen(pcs, X) => bad # {}
    /\ (Master \in X \/ pcs[Master] # "idle") /\ bad # {} =>
           ~ allOk \/ Seen(pcs, X) \/ Unrun(pcs, X)

Verdict(X, todo, allOk, pcs) ==
    /\ Master \notin X /\ pcs[Master] = "idle" => todo = 0 /\ allOk
    /\ fRet # "none" => /\ Master \notin X
                        /\ pcs[Master] = "idle"
                        /\ fRet = "ok" <=> bad = {}

Consistent(X, todo, idle, allOk, pcs) ==
    /\ Counted(X, todo, idle, pcs)
    /\ Batches(X, pcs)
    /\ Failures(X, allOk, pcs)
    /\ Verdict(X, todo, allOk, pcs)

IInv ==
    /\ TypeOK
    /\ nTotal = nIdle + Cardinality(Busy(pc, {}))
    /\ Consistent({}, nTodo, nIdle, fAllOk, pc)

-----------------------------------------------------------------------------
(***************************************************************************)
(* Facts about the finite sets that are counted.                           *)
(***************************************************************************)

\* The thread set is finite, and so are the sets of threads IInv counts.
LEMMA FiniteThreads ==
    ASSUME NEW pcs, NEW X
    PROVE  /\ IsFiniteSet(Busy(pcs, X)) /\ Cardinality(Busy(pcs, X)) \in Nat
           /\ IsFiniteSet(Blocked(pcs, X)) /\ Cardinality(Blocked(pcs, X)) \in Nat
  <1>1. IsFiniteSet(Threads)
    BY FS_AddElement, ConstantsAssumption DEF Threads
  <1>2. Busy(pcs, X) \subseteq Threads /\ Blocked(pcs, X) \subseteq Threads
    BY DEF Busy, Blocked
  <1> QED
    BY <1>1, <1>2, FS_Subset, FS_CardinalityType

\* A set of checks is finite.
LEMMA FiniteChecks ==
    ASSUME NEW S \in SUBSET Checks
    PROVE  IsFiniteSet(S) /\ Cardinality(S) \in Nat
  <1>1. IsFiniteSet(Checks)
    BY ConstantsAssumption, FS_Interval DEF Checks
  <1> QED
    BY <1>1, FS_Subset, FS_CardinalityType

\* Counting what is left of a finite set when a part of it is removed.
LEMMA CardinalityOfRest ==
    ASSUME NEW S, IsFiniteSet(S), NEW T \in SUBSET S
    PROVE  Cardinality(S \ T) = Cardinality(S) - Cardinality(T)
  <1>1. IsFiniteSet(T) /\ IsFiniteSet(S \ T)
    BY FS_Subset
  <1>2. (S \ T) \cup T = S /\ (S \ T) \cap T = {}
    OBVIOUS
  <1>3. Cardinality(S) = Cardinality(S \ T) + Cardinality(T) - Cardinality({})
    BY <1>1, <1>2, FS_Union
  <1> QED
    BY <1>1, <1>3, FS_EmptySet, FS_CardinalityType

\* Adding or removing one thread changes the count by one.
LEMMA CardinalityPlusOne ==
    ASSUME NEW S, IsFiniteSet(S), NEW x, x \notin S
    PROVE  Cardinality(S \cup {x}) = Cardinality(S) + 1
  BY FS_AddElement

-----------------------------------------------------------------------------
(***************************************************************************)
(* Initiation.                                                             *)
(***************************************************************************)
LEMMA InitIInv == Init => IInv
  <1> SUFFICES ASSUME Init PROVE IInv
    OBVIOUS
  <1>1. TypeOK
    <2>1. pc \in [Threads -> LoopStates \cup {"idle", "adding", "gone"}]
      BY DEF Init, LoopStates
    <2>2. vChecks \in [Threads -> SUBSET Checks] /\ fOk \in [Threads -> BOOLEAN]
      BY DEF Init
    <2>3. /\ nAdded \in 0..MaxChecks /\ nBlocks \in 0..MaxBlocks
          /\ nIdle \in Nat /\ nTotal \in Nat /\ nTodo \in Nat
      BY ConstantsAssumption DEF Init
    <2>4. fAllOk \in BOOLEAN /\ shutdown \in BOOLEAN
      BY DEF Init
    <2>5. /\ queue \in SUBSET Checks /\ bad \in SUBSET Checks
          /\ interrupted \in SUBSET Threads /\ fRet \in {"none", "ok", "failed"}
      BY DEF Init
    <2> QED
      BY <2>1, <2>2, <2>3, <2>4, <2>5 DEF TypeOK
  <1>2. Busy(pc, {}) = {} /\ Blocked(pc, {}) = {} /\ Outstanding({}) = {}
    BY DEF Init, Busy, Blocked, Outstanding, Threads
  <1>3. Consistent({}, nTodo, nIdle, fAllOk, pc)
    <2>1. Counted({}, nTodo, nIdle, pc)
      BY <1>2, FS_EmptySet DEF Init, Counted
    <2>2. Batches({}, pc)
      BY <1>2 DEF Init, Batches, Threads
    <2>3. Failures({}, fAllOk, pc)
      BY <1>2 DEF Init, Failures, Seen
    <2>4. Verdict({}, nTodo, fAllOk, pc)
      BY DEF Init, Verdict
    <2> QED
      BY <2>1, <2>2, <2>3, <2>4 DEF Consistent
  <1>4. nTotal = nIdle + Cardinality(Busy(pc, {}))
    BY <1>2, FS_EmptySet DEF Init
  <1> QED
    BY <1>1, <1>3, <1>4 DEF IInv

(***************************************************************************)
(* The rest of the critical section: if the values thread t has computed   *)
(* are consistent with the other threads, what it stores is too.           *)
(***************************************************************************)
LEMMA LoopTopIInv ==
    ASSUME TypeOK,
           NEW t \in Threads, NEW todo \in Nat, NEW total \in Nat,
           NEW idle \in Nat, NEW allOk \in BOOLEAN,
           NEW pcs \in [Threads -> States],
           total = idle + Cardinality(Busy(pcs, {t})) + 1,
           Consistent({t}, todo, idle, allOk, pcs),
           LoopTop(t, todo, total, idle, allOk, pcs)
    PROVE  IInv'
  <1> USE DEF Consistent
  <1>0. /\ Cardinality(Busy(pcs, {t})) \in Nat
        /\ Cardinality(Blocked(pcs, {t})) \in Nat
        /\ IsFiniteSet(Busy(pcs, {t})) /\ IsFiniteSet(Blocked(pcs, {t}))
    BY FiniteThreads
  <1>1. CASE /\ queue = {} /\ vChecks' = [vChecks EXCEPT ![t] = {}]
             /\ UNCHANGED <<queue, fOk>>
             /\ Return(t, todo, total, idle, allOk, pcs)
    <2> USE <1>1 DEF Return, LoopTop
    <2>1. TypeOK'
      BY <1>0 DEF TypeOK, States
    <2>2. /\ Busy(pc, {})' = Busy(pcs, {t})
          /\ Blocked(pc, {})' = Blocked(pcs, {t})
      BY DEF TypeOK, Busy, Blocked
    <2>3. Outstanding({})' = Outstanding({t})
      BY DEF TypeOK, Outstanding
    <2>4. Outstanding({t}) = {}
      BY FiniteChecks, FS_EmptySet DEF Counted, Outstanding
    <2>5. Counted({}, nTodo, nIdle, pc)'
      BY <2>2, <2>3 DEF Counted
    <2>6. Batches({}, pc)'
      <3>1. ASSUME NEW u \in Threads
            PROVE  /\ vChecks'[u] \cap queue' = {}
                   /\ vChecks'[u] # {} <=> pc'[u] \in {"work", "executed"}
        BY DEF TypeOK, Batches
      <3>2. ASSUME NEW u \in Threads, NEW v \in Threads, u # v
            PROVE  vChecks'[u] \cap vChecks'[v] = {}
        BY <3>2 DEF TypeOK, Batches
      <3>3. Outstanding({t}) \subseteq 1..nAdded /\ bad \subseteq 1..nAdded
        BY Zenon DEF Batches
      <3>4. Outstanding({})' \subseteq 1..nAdded' /\ bad' \subseteq 1..nAdded'
        BY <2>3, <3>3, Zenon
      <3> QED
        BY <3>1, <3>2, <3>4, Zenon DEF Batches
    <2>7. ~ Seen(pcs, {t}) /\ ~ Unrun(pcs, {t})
      BY <2>4 DEF Seen, Unrun, Batches, Busy, Outstanding, TypeOK
    <2>8. allOk <=> bad = {}
      BY <2>7 DEF Failures
    <2>9. Failures({}, fAllOk, pc)'
      <3>1. ~ Seen(pc, {})'
        BY <2>2, <2>7 DEF Seen, Busy
      <3> QED
        BY <3>1 DEF Failures, TypeOK
    <2>10. Verdict({}, nTodo, fAllOk, pc)'
      BY <2>8 DEF Verdict, TypeOK
    <2>11. (nTotal = nIdle + Cardinality(Busy(pc, {})))'
      BY <1>0, <2>2
    <2> QED
      BY <2>1, <2>5, <2>6, <2>9, <2>10, <2>11 DEF IInv
  <1>2. CASE /\ queue = {} /\ vChecks' = [vChecks EXCEPT ![t] = {}]
             /\ UNCHANGED <<queue, fOk>>
             /\ Block(t, todo, total, idle, allOk, pcs)
    <2> USE <1>2 DEF Block, LoopTop
    <2>1. TypeOK'
      BY <1>0 DEF TypeOK, States, LoopStates
    <2>2. /\ Busy(pc, {})' = Busy(pcs, {t})
          /\ Blocked(pc, {})' = Blocked(pcs, {t}) \cup {t}
      BY DEF TypeOK, Busy, Blocked
    <2>3. Outstanding({})' = Outstanding({t})
      BY DEF TypeOK, Outstanding
    <2>4. Cardinality(Blocked(pc, {})') = Cardinality(Blocked(pcs, {t})) + 1
      <3>1. t \notin Blocked(pcs, {t})
        BY DEF Blocked
      <3> QED
        BY <2>2, <1>0, <3>1, CardinalityPlusOne
    <2>5. Counted({}, nTodo, nIdle, pc)'
      BY <1>0, <2>3, <2>4 DEF Counted
    <2>6. Batches({}, pc)'
      <3>1. ASSUME NEW u \in Threads
            PROVE  /\ vChecks'[u] \cap queue' = {}
                   /\ vChecks'[u] # {} <=> pc'[u] \in {"work", "executed"}
        BY DEF TypeOK, Batches
      <3>2. ASSUME NEW u \in Threads, NEW v \in Threads, u # v
            PROVE  vChecks'[u] \cap vChecks'[v] = {}
        BY <3>2 DEF TypeOK, Batches
      <3> QED
        BY <2>3, <3>1, <3>2 DEF Batches
    <2>7. Seen(pc, {})' <=> Seen(pcs, {t})
      BY <2>2 DEF Seen
    <2>8. Unrun(pc, {})' <=> Unrun(pcs, {t})
      BY DEF Unrun, TypeOK
    <2>9. Failures({}, fAllOk, pc)'
      BY <2>7, <2>8 DEF Failures, TypeOK, Threads
    <2>10. Verdict({}, nTodo, fAllOk, pc)'
      BY DEF Verdict, TypeOK, Threads
    <2>11. (nTotal = nIdle + Cardinality(Busy(pc, {})))'
      BY <1>0, <2>2
    <2> QED
      BY <2>1, <2>5, <2>6, <2>9, <2>10, <2>11 DEF IInv
  <1>3. CASE queue # {} /\ Take(t, total, idle, allOk, pcs)
    <2>1. PICK batch \in SUBSET queue :
             /\ Cardinality(batch) = nNow(total, idle)
             /\ queue' = queue \ batch
             /\ vChecks' = [vChecks EXCEPT ![t] = batch]
             /\ fOk' = [fOk EXCEPT ![t] = allOk]
             /\ nTotal' = total /\ nIdle' = idle /\ fAllOk' = allOk
             /\ pc' = [pcs EXCEPT ![t] = "work"]
             /\ UNCHANGED fRet
      BY <1>3 DEF Take
    <2> USE <2>1 DEF LoopTop
    <2>2. batch # {}
      <3>1. nNow(total, idle) # 0
        BY ConstantsAssumption DEF nNow
      <3> QED
        BY <3>1, FS_EmptySet
    <2>3. TypeOK'
      BY DEF TypeOK, States, LoopStates
    <2>4. /\ Busy(pc, {})' = Busy(pcs, {t}) \cup {t}
          /\ Blocked(pc, {})' = Blocked(pcs, {t})
      BY DEF TypeOK, Busy, Blocked
    <2>5. Cardinality(Busy(pc, {})') = Cardinality(Busy(pcs, {t})) + 1
      <3>1. t \notin Busy(pcs, {t})
        BY DEF Busy
      <3> QED
        BY <2>4, <1>0, <3>1, CardinalityPlusOne
    <2>6. Outstanding({})' = Outstanding({t})
      BY DEF TypeOK, Outstanding
    <2>7. Counted({}, nTodo, nIdle, pc)'
      BY <2>4, <2>6 DEF Counted
    <2>8. Batches({}, pc)'
      <3>1. ASSUME NEW u \in Threads
            PROVE  /\ vChecks'[u] \cap queue' = {}
                   /\ vChecks'[u] # {} <=> pc'[u] \in {"work", "executed"}
        BY <2>2 DEF TypeOK, Batches
      <3>2. ASSUME NEW u \in Threads, NEW v \in Threads, u # v
            PROVE  vChecks'[u] \cap vChecks'[v] = {}
        <4>0. \A w \in Threads : w # t => /\ vChecks'[w] = vChecks[w]
                                          /\ vChecks[w] \cap queue = {}
          BY DEF TypeOK, Batches
        <4>1. CASE u # t /\ v # t
          BY <3>2, <4>1 DEF TypeOK, Batches
        <4>2. CASE u = t
          <5>1. vChecks'[u] = batch
            BY <4>2 DEF TypeOK
          <5> QED
            BY ONLY <3>2, <4>0, <4>2, <5>1, batch \in SUBSET queue, Zenon
        <4>3. CASE v = t
          <5>1. vChecks'[v] = batch
            BY <4>3 DEF TypeOK
          <5> QED
            BY ONLY <3>2, <4>0, <4>3, <5>1, batch \in SUBSET queue, Zenon
        <4> QED
          BY <4>1, <4>2, <4>3
      <3>3. Outstanding({})' \subseteq 1..nAdded' /\ bad' \subseteq 1..nAdded'
        BY <2>6 DEF Batches
      <3> QED
        BY <3>1, <3>2, <3>3 DEF Batches
    <2>9. ~ allOk \/ Seen(pcs, {t}) <=> (~ fAllOk \/ Seen(pc, {}))'
      BY <2>4 DEF Seen, TypeOK, Busy
    <2>10. Unrun(pc, {})' <=> Unrun(pcs, {t})
      BY DEF Unrun, TypeOK
    <2>11. Failures({}, fAllOk, pc)'
      BY <2>9, <2>10 DEF Failures, TypeOK, Threads
    <2>12. Verdict({}, nTodo, fAllOk, pc)'
      BY DEF Verdict, TypeOK, Threads
    <2> QED
      BY <1>0, <2>3, <2>5, <2>7, <2>8, <2>11, <2>12 DEF IInv
  <1> QED
    BY <1>1, <1>2, <1>3 DEF LoopTop

-----------------------------------------------------------------------------
(***************************************************************************)
(* The first part of the critical section.                                 *)
(***************************************************************************)

\* A thread without a batch counts for nothing but its being blocked.
LEMMA WithoutBatch ==
    ASSUME IInv, NEW t \in Threads, pc[t] \in {"enter", "waiting", "woken"},
           NEW idle \in Nat, Cardinality(Blocked(pc, {t})) <= idle
    PROVE  /\ Busy(pc, {t}) = Busy(pc, {})
           /\ Consistent({t}, nTodo, idle, fAllOk, pc)
  <1> USE DEF IInv, Consistent
  <1>1. vChecks[t] = {}
    BY DEF Batches
  <1>2. Busy(pc, {t}) = Busy(pc, {})
    BY DEF Busy
  <1>3. Outstanding({t}) = Outstanding({})
    BY <1>1 DEF Outstanding
  <1>4. Counted({t}, nTodo, idle, pc)
    BY <1>3 DEF Counted
  <1>5. Batches({t}, pc)
    BY <1>3 DEF Batches
  <1>6. Seen(pc, {t}) <=> Seen(pc, {})
    BY <1>2 DEF Seen
  <1>7. Unrun(pc, {t}) <=> Unrun(pc, {})
    BY <1>1 DEF Unrun
  <1>8. Failures({t}, fAllOk, pc)
    BY <1>6, <1>7 DEF Failures
  <1>9. Verdict({t}, nTodo, fAllOk, pc)
    BY DEF Verdict
  <1> QED
    BY <1>2, <1>4, <1>5, <1>8, <1>9

\* The first pass of a call of Loop.
LEMMA EnterIInv ==
    ASSUME IInv, NEW t \in Threads, Enter(t)
    PROVE  IInv'
  <1>1. Blocked(pc, {t}) = Blocked(pc, {})
    BY DEF Enter, Blocked
  <1>2. TypeOK /\ Cardinality(Blocked(pc, {t})) <= nIdle
    BY <1>1 DEF IInv, Consistent, Counted
  <1>3. /\ nIdle \in Nat /\ nTodo \in Nat /\ fAllOk \in BOOLEAN
        /\ pc \in [Threads -> States]
    BY <1>2 DEF TypeOK, States
  <1>4. /\ Busy(pc, {t}) = Busy(pc, {})
        /\ Consistent({t}, nTodo, nIdle, fAllOk, pc)
    BY <1>2, <1>3, WithoutBatch DEF Enter
  <1>5. nTotal + 1 = nIdle + Cardinality(Busy(pc, {t})) + 1 /\ nTotal + 1 \in Nat
    BY <1>2, <1>3, <1>4, FiniteThreads DEF IInv, TypeOK
  <1> QED
    BY <1>2, <1>3, <1>4, <1>5, LoopTopIInv DEF Enter

\* The wait returned: nIdle still counts the thread, so it is at least one.
LEMMA ResumeIInv ==
    ASSUME IInv, NEW t \in Threads, Resume(t)
    PROVE  IInv'
  <1>1. Blocked(pc, {}) = Blocked(pc, {t}) \cup {t} /\ t \notin Blocked(pc, {t})
    BY DEF Resume, Blocked
  <1>2. Cardinality(Blocked(pc, {})) = Cardinality(Blocked(pc, {t})) + 1
    BY <1>1, FiniteThreads, CardinalityPlusOne
  <1>3. Cardinality(Blocked(pc, {t})) \in Nat /\ Cardinality(Busy(pc, {t})) \in Nat
    BY FiniteThreads
  <1>4. /\ TypeOK /\ nIdle \in Nat /\ nTodo \in Nat /\ fAllOk \in BOOLEAN
        /\ nTotal \in Nat /\ pc \in [Threads -> States]
    BY DEF IInv, TypeOK, States
  <1>5. nIdle - 1 \in Nat /\ Cardinality(Blocked(pc, {t})) <= nIdle - 1
    BY <1>2, <1>3, <1>4 DEF IInv, Consistent, Counted
  <1>6. /\ Busy(pc, {t}) = Busy(pc, {})
        /\ Consistent({t}, nTodo, nIdle - 1, fAllOk, pc)
    BY <1>5, WithoutBatch DEF Resume
  <1>7. nTotal = (nIdle - 1) + Cardinality(Busy(pc, {t})) + 1
    BY <1>3, <1>4, <1>6 DEF IInv
  <1> QED
    BY <1>4, <1>5, <1>6, <1>7, LoopTopIInv DEF Resume

\* A thread with a batch is enough to keep the master inside Wait.
LEMMA BusyMeansTodo ==
    ASSUME IInv, NEW t \in Threads, pc[t] \in {"work", "executed"}
    PROVE  nTodo # 0 /\ pc[Master] # "idle" /\ fRet = "none"
  <1> USE DEF IInv, Consistent
  <1>1. vChecks[t] # {} /\ vChecks[t] \subseteq Outstanding({})
    BY DEF Batches, Outstanding, TypeOK
  <1>2. Outstanding({}) # {} /\ IsFiniteSet(Outstanding({}))
    BY <1>1, FiniteChecks DEF Outstanding
  <1>3. nTodo # 0
    BY <1>2, FS_EmptySet DEF Counted
  <1> QED
    BY <1>3 DEF Verdict

\* Accounting for a batch: its checks leave nTodo and its failures enter fAllOk.
LEMMA AccountIInv ==
    ASSUME IInv, NEW t \in Threads, Account(t)
    PROVE  IInv'
  <1> DEFINE todo == nTodo - Cardinality(vChecks[t])
             pcs == IF todo = 0 /\ t # Master THEN NotifyMaster ELSE pc
             allOk == fAllOk /\ fOk[t]
  <1>1. pc[t] = "executed" /\ LoopTop(t, todo, nTotal, nIdle, allOk, pcs)
    BY DEF Account
  <1>2. /\ TypeOK /\ nIdle \in Nat /\ nTotal \in Nat /\ nTodo \in Nat
        /\ vChecks \in [Threads -> SUBSET Checks]
        /\ pc \in [Threads -> States]
    BY DEF IInv, TypeOK, States
  <1>3. allOk \in BOOLEAN
    OBVIOUS
  <1>4. pcs \in [Threads -> States]
    BY <1>2 DEF NotifyMaster, States, LoopStates
  <1>5. \A u \in Threads : pcs[u] = pc[u] \/ (pc[u] = "waiting" /\ pcs[u] = "woken")
    BY <1>2 DEF NotifyMaster
  <1>6. pc[Master] # "idle" /\ fRet = "none" /\ pcs[Master] # "idle"
    BY <1>1, <1>5, BusyMeansTodo DEF Threads
  <1> HIDE DEF pcs, allOk
  <1>7. /\ Busy(pc, {}) = Busy(pcs, {t}) \cup {t} /\ t \notin Busy(pcs, {t})
        /\ Blocked(pc, {}) = Blocked(pcs, {t})
    BY <1>1, <1>5 DEF Busy, Blocked
  <1>8. Cardinality(Busy(pc, {})) = Cardinality(Busy(pcs, {t})) + 1
    BY <1>7, FiniteThreads, CardinalityPlusOne
  <1>9. nTotal = nIdle + Cardinality(Busy(pcs, {t})) + 1
    BY <1>2, <1>8, FiniteThreads DEF IInv
  <1>10. Outstanding({t}) = Outstanding({}) \ vChecks[t]
    BY <1>2 DEF IInv, Consistent, Batches, Outstanding
  <1>11. todo = Cardinality(Outstanding({t})) /\ todo \in Nat
    <2>1. vChecks[t] \in SUBSET Outstanding({})
      BY <1>2 DEF Outstanding
    <2>2. Outstanding({}) \in SUBSET Checks /\ Outstanding({t}) \in SUBSET Checks
      BY DEF Outstanding
    <2> QED
      BY <1>10, <2>1, <2>2, FiniteChecks, CardinalityOfRest
         DEF IInv, Consistent, Counted
  <1> HIDE DEF todo
  <1>12. Consistent({t}, todo, nIdle, allOk, pcs)
    <2>1. Counted({t}, todo, nIdle, pcs)
      BY <1>7, <1>11 DEF IInv, Consistent, Counted
    <2>2. Batches({t}, pcs)
      BY <1>5, <1>10 DEF IInv, Consistent, Batches
    <2>3. ~ allOk \/ Seen(pcs, {t}) <=> ~ fAllOk \/ Seen(pc, {})
      <3>1. Seen(pc, {}) <=> Seen(pcs, {t}) \/ ~ fOk[t]
        BY <1>7 DEF Seen
      <3> QED
        BY <3>1, Zenon DEF allOk
    <2>4. Unrun(pcs, {t}) <=> Unrun(pc, {})
      BY <1>1, <1>5 DEF Unrun
    <2>5. Failures({t}, allOk, pcs)
      BY <1>6, <2>3, <2>4 DEF IInv, Consistent, Failures
    <2>6. Verdict({t}, todo, allOk, pcs)
      BY <1>6 DEF Verdict
    <2> QED
      BY <2>1, <2>2, <2>5, <2>6 DEF Consistent
  <1> QED
    BY <1>1, <1>2, <1>3, <1>4, <1>9, <1>11, <1>12, LoopTopIInv

-----------------------------------------------------------------------------
(***************************************************************************)
(* The steps outside Loop's critical section.                              *)
(***************************************************************************)

\* Running a batch turns failures to come into failures seen.
LEMMA ExecuteIInv ==
    ASSUME IInv, NEW t \in Threads, Execute(t)
    PROVE  IInv'
  <1> USE DEF IInv, Consistent, Execute
  <1>1. TypeOK'
    BY DEF TypeOK, LoopStates
  <1>2. /\ Busy(pc, {})' = Busy(pc, {}) /\ Blocked(pc, {})' = Blocked(pc, {})
        /\ Outstanding({})' = Outstanding({})
    BY DEF TypeOK, Busy, Blocked, Outstanding
  <1>3. Counted({}, nTodo, nIdle, pc)'
    BY <1>2 DEF Counted
  <1>4. Batches({}, pc)'
    BY <1>2 DEF Batches, TypeOK
  <1>5. /\ Seen(pc, {})' <=> Seen(pc, {}) \/ vChecks[t] \cap bad # {}
        /\ Unrun(pc, {}) <=> Unrun(pc, {})' \/ vChecks[t] \cap bad # {}
    <2>1. Seen(pc, {})' <=> Seen(pc, {}) \/ vChecks[t] \cap bad # {}
      BY <1>2 DEF Seen, TypeOK, Busy
    <2>2. Unrun(pc, {}) <=> Unrun(pc, {})' \/ vChecks[t] \cap bad # {}
      BY DEF Unrun, TypeOK
    <2> QED
      BY <2>1, <2>2
  <1>6. (pc[Master] = "idle")' <=> pc[Master] = "idle"
    BY DEF TypeOK, Threads
  <1>7. Failures({}, fAllOk, pc)'
    BY <1>5, <1>6 DEF Failures
  <1>8. Verdict({}, nTodo, fAllOk, pc)'
    BY <1>6 DEF Verdict
  <1> QED
    BY <1>1, <1>2, <1>3, <1>4, <1>7, <1>8

\* Steps that only move threads between states IInv does not tell apart, or
\* out of wait().
LEMMA QuietIInv ==
    ASSUME IInv, TypeOK',
           UNCHANGED <<queue, nIdle, nTotal, nTodo, fAllOk, vChecks, fOk,
                       nAdded, bad, fRet>>,
           \A u \in Threads :
              /\ pc'[u] \in {"work", "executed", "idle"} \/ pc[u] \in {"work", "executed", "idle"}
                    => pc'[u] = pc[u]
              /\ pc'[u] \in {"waiting", "woken"} => pc[u] \in {"waiting", "woken"}
    PROVE  IInv'
  <1> USE DEF IInv, Consistent
  <1>1. /\ Busy(pc, {})' = Busy(pc, {}) /\ Blocked(pc, {})' \subseteq Blocked(pc, {})
        /\ Outstanding({})' = Outstanding({})
    BY DEF Busy, Blocked, Outstanding
  <1>2. Cardinality(Blocked(pc, {})') <= Cardinality(Blocked(pc, {}))
    BY <1>1, FiniteThreads, FS_Subset
  <1>3. Counted({}, nTodo, nIdle, pc)'
    <2>1. Cardinality(Blocked(pc, {})) \in Nat /\ Cardinality(Blocked(pc, {})') \in Nat
      BY <1>1, FiniteThreads, FS_Subset, FS_CardinalityType
    <2> QED
      BY <1>1, <1>2, <2>1 DEF Counted, TypeOK
  <1>4. Batches({}, pc)'
    BY <1>1 DEF Batches
  <1>5. (Seen(pc, {})' <=> Seen(pc, {})) /\ (Unrun(pc, {})' <=> Unrun(pc, {}))
    BY <1>1 DEF Seen, Unrun
  <1>6. (pc[Master] = "idle")' <=> pc[Master] = "idle"
    BY DEF Threads
  <1>7. Failures({}, fAllOk, pc)' /\ Verdict({}, nTodo, fAllOk, pc)'
    BY <1>5, <1>6 DEF Failures, Verdict
  <1> QED
    BY <1>1, <1>3, <1>4, <1>7

\* A new block: nothing is outstanding, so clearing `bad` loses no failure.
LEMMA BeginIInv ==
    ASSUME IInv, Begin
    PROVE  IInv'
  <1> USE DEF IInv, Consistent, Begin
  <1>1. TypeOK'
    <2>1. nBlocks' \in 0..MaxBlocks /\ nAdded' \in 0..MaxChecks
      BY ConstantsAssumption DEF TypeOK
    <2>2. pc' \in [Threads -> LoopStates \cup {"idle", "adding", "gone"}]
      BY DEF TypeOK
    <2> QED
      BY <2>1, <2>2 DEF TypeOK
  <1>2. /\ Busy(pc, {})' = Busy(pc, {}) /\ Blocked(pc, {})' = Blocked(pc, {})
        /\ Outstanding({})' = Outstanding({})
    BY DEF TypeOK, Busy, Blocked, Outstanding
  <1>3. Outstanding({}) = {}
    BY FiniteChecks, FS_EmptySet DEF Verdict, Counted, Outstanding
  <1>4. Counted({}, nTodo, nIdle, pc)'
    BY <1>2 DEF Counted
  <1>5. Batches({}, pc)'
    BY <1>2, <1>3 DEF Batches, TypeOK
  <1>6. ~ Seen(pc, {})'
    BY <1>2, <1>3 DEF Seen, Busy, Batches, Outstanding, TypeOK
  <1>7. Failures({}, fAllOk, pc)'
    BY <1>6 DEF Failures, Verdict
  <1>8. Verdict({}, nTodo, fAllOk, pc)'
    BY DEF Verdict, TypeOK, Threads
  <1> QED
    BY <1>1, <1>2, <1>4, <1>5, <1>7, <1>8

\* New checks are disjoint from the outstanding ones, so nTodo grows by n.
LEMMA AddIInv ==
    ASSUME IInv, NEW n \in Checks, NEW failing \in SUBSET Checks, Add(n, failing)
    PROVE  IInv'
  <1> DEFINE new == (nAdded + 1)..(nAdded + n)
  <1>0. /\ n \in Nat /\ nAdded \in Nat /\ n > 0 /\ nTodo \in Nat
        /\ new \in SUBSET Checks
    BY ConstantsAssumption DEF IInv, TypeOK, Checks, Add
  <1>1. /\ pc[Master] = "adding" /\ failing \subseteq new
        /\ queue' = queue \cup new /\ nTodo' = nTodo + n /\ nAdded' = nAdded + n
        /\ bad' = bad \cup failing /\ NotifyWorkers(n) /\ nAdded + n <= MaxChecks
        /\ UNCHANGED <<nIdle, nTotal, fAllOk, vChecks, fOk, fRet, interrupted,
                        shutdown, nBlocks>>
    BY DEF Add
  <1>2. /\ pc' \in [Threads -> States]
        /\ \A u \in Threads :
              pc'[u] = pc[u] \/ (pc[u] = "waiting" /\ pc'[u] = "woken")
    <2>1. pc \in [Threads -> States]
      BY DEF IInv, TypeOK, States
    <2> QED
      BY <1>1, <2>1 DEF NotifyWorkers, Waiting, States, LoopStates, Threads
  <1>3. TypeOK'
    BY <1>0, <1>1, <1>2 DEF IInv, TypeOK, States
  <1>4. /\ Busy(pc, {})' = Busy(pc, {}) /\ Blocked(pc, {})' = Blocked(pc, {})
    BY <1>2 DEF Busy, Blocked
  <1>5. Outstanding({})' = Outstanding({}) \cup new
    BY <1>0, <1>1 DEF Outstanding
  <1>6. Outstanding({}) \cap new = {}
    BY <1>0 DEF IInv, Consistent, Batches
  <1>7. nTodo' = Cardinality(Outstanding({})')
    <2>1. Cardinality(new) = n /\ IsFiniteSet(new)
      BY <1>0, FS_Interval
    <2>2. Outstanding({}) \in SUBSET Checks
      BY DEF Outstanding
    <2>3. Cardinality(Outstanding({}) \cup new)
             = Cardinality(Outstanding({})) + Cardinality(new) - Cardinality({})
      BY <1>6, <2>1, <2>2, FiniteChecks, FS_Union
    <2>4. Cardinality(Outstanding({})) = nTodo /\ Cardinality({}) = 0
      BY FS_EmptySet DEF IInv, Consistent, Counted
    <2> HIDE DEF new
    <2> QED
      BY <1>0, <1>1, <1>5, <2>1, <2>3, <2>4
  <1>8. Counted({}, nTodo, nIdle, pc)'
    BY <1>1, <1>4, <1>7 DEF Counted, IInv, Consistent
  <1>9. Batches({}, pc)'
    <2>1. Outstanding({})' \subseteq 1..nAdded' /\ bad' \subseteq 1..nAdded'
      BY <1>0, <1>1, <1>5 DEF IInv, Consistent, Batches
    <2>2. ASSUME NEW u \in Threads
          PROVE  /\ vChecks'[u] \cap queue' = {}
                 /\ vChecks'[u] # {} <=> pc'[u] \in {"work", "executed"}
      <3>1. vChecks[u] \subseteq Outstanding({})
        BY DEF Outstanding, IInv, TypeOK
      <3> QED
        BY <1>1, <1>2, <1>6, <3>1 DEF IInv, Consistent, Batches
    <2>3. ASSUME NEW u \in Threads, NEW v \in Threads, u # v
          PROVE  vChecks'[u] \cap vChecks'[v] = {}
      BY <1>1, <2>3 DEF IInv, Consistent, Batches
    <2> QED
      BY <2>1, <2>2, <2>3 DEF Batches
  <1>10. Seen(pc, {})' <=> Seen(pc, {})
    BY <1>1, <1>4 DEF Seen
  <1>11. Unrun(pc, {})' <=> Unrun(pc, {}) \/ failing # {}
    <2>1. bad \cap new = {}
      BY <1>0 DEF IInv, Consistent, Batches
    <2>2. \A u \in Threads : vChecks[u] \cap new = {}
      BY <1>6 DEF Outstanding, IInv, TypeOK
    <2> HIDE DEF new
    <2> QED
      BY <1>1, <1>2, <2>1, <2>2 DEF Unrun
  <1>12. pc'[Master] = "adding"
    BY <1>1, <1>2 DEF Threads
  <1>13. Failures({}, fAllOk, pc)'
    BY <1>1, <1>10, <1>11, <1>12 DEF IInv, Consistent, Failures
  <1>14. Verdict({}, nTodo, fAllOk, pc)'
    BY <1>1, <1>12 DEF IInv, Consistent, Verdict
  <1>15. (nTotal = nIdle + Cardinality(Busy(pc, {})))'
    BY <1>1, <1>4 DEF IInv
  <1> QED
    BY <1>3, <1>8, <1>9, <1>13, <1>14, <1>15 DEF IInv, Consistent

-----------------------------------------------------------------------------
(***************************************************************************)
(* Consecution, and the theorems.                                          *)
(***************************************************************************)
LEMMA NextIInv == IInv /\ [Next]_vars => IInv'
  <1> SUFFICES ASSUME IInv, [Next]_vars PROVE IInv'
    OBVIOUS
  <1>0. TypeOK
    BY DEF IInv
  <1>1. CASE Begin
    BY <1>1, BeginIInv
  <1>2. ASSUME NEW n \in Checks, NEW failing \in SUBSET Checks, Add(n, failing)
        PROVE  IInv'
    BY <1>2, AddIInv
  <1>3. CASE Wait
    <2>1. TypeOK'
      BY <1>0, <1>3 DEF Wait, TypeOK, LoopStates
    <2> QED
      BY <1>0, <1>3, <2>1, QuietIInv DEF Wait, TypeOK, Threads
  <1>4. CASE InterruptAll
    <2>1. TypeOK'
      BY <1>0, <1>4 DEF InterruptAll, TypeOK, Threads
    <2> QED
      BY <1>4, <2>1, QuietIInv DEF InterruptAll
  <1>5. ASSUME NEW t \in Threads, Step(t)
        PROVE  IInv'
    <2>1. CASE Interrupted(t)
      <3>1. TypeOK'
        BY <1>0, <2>1 DEF Interrupted, TypeOK, LoopStates
      <3> QED
        BY <1>0, <2>1, <3>1, QuietIInv DEF Interrupted, TypeOK
    <2> QED
      BY <1>5, <2>1, EnterIInv, AccountIInv, ResumeIInv, ExecuteIInv DEF Step
  <1>6. ASSUME NEW t \in Threads, SpuriousWakeup(t)
        PROVE  IInv'
    <2>1. TypeOK'
      BY <1>0, <1>6 DEF SpuriousWakeup, TypeOK, LoopStates
    <2> QED
      BY <1>0, <1>6, <2>1, QuietIInv DEF SpuriousWakeup, TypeOK
  <1>7. CASE UNCHANGED vars
    <2>1. TypeOK'
      BY <1>0, <1>7 DEF vars, TypeOK
    <2> QED
      BY <1>7, <2>1, QuietIInv DEF vars
  <1> QED
    BY <1>1, <1>2, <1>3, <1>4, <1>5, <1>6, <1>7 DEF Next

\* Every reachable state of the pool satisfies the inductive invariant.
THEOREM InductiveInvariant == Spec => []IInv
  BY InitIInv, NextIInv, PTL DEF Spec

\* The queue, the counters, the batches and the program counters of Loop keep
\* their types: in particular nIdle-- and nTodo -= nNow never go below zero.
THEOREM TypeCorrect == Spec => []TypeOK
  <1>1. IInv => TypeOK
    BY DEF IInv
  <1> QED
    BY <1>1, InductiveInvariant, PTL

\* The assertion in the constructor of CCheckQueueControl never fires, for any
\* number of threads and however Loop was interrupted before.
THEOREM AlwaysIdleBetweenBlocks == Spec => []IdleBetweenBlocks
  <1>1. IInv => IdleBetweenBlocks
    <2> SUFFICES ASSUME IInv, pc[Master] = "idle" PROVE IsIdle
      BY DEF IdleBetweenBlocks
    <2>1. nTodo = 0 /\ fAllOk
      BY DEF IInv, Consistent, Verdict
    <2>2. Busy(pc, {}) = {}
      BY BusyMeansTodo DEF Busy
    <2>3. nTotal = nIdle
      BY <2>2, FS_EmptySet DEF IInv, TypeOK
    <2> QED
      BY <2>1, <2>3 DEF IsIdle
  <1> QED
    BY <1>1, InductiveInvariant, PTL

\* The verdict ConnectBlock gets from Wait is the conjunction of the results
\* of all the checks it added.
THEOREM AlwaysVerdictCorrect == Spec => []VerdictCorrect
  <1>1. IInv => VerdictCorrect
    BY DEF IInv, Consistent, Verdict, VerdictCorrect
  <1> QED
    BY <1>1, InductiveInvariant, PTL

\* When ConnectBlock has left Wait no thread holds one of its checks.
THEOREM AlwaysNoDanglingCheck == Spec => []NoDanglingCheck
  <1>1. IInv => NoDanglingCheck
    <2> SUFFICES ASSUME IInv, pc[Master] = "idle"
                 PROVE  queue = {} /\ \A t \in Threads : vChecks[t] = {}
      BY DEF NoDanglingCheck
    <2>1. Outstanding({}) = {}
      BY FiniteChecks, FS_EmptySet
         DEF IInv, Consistent, Verdict, Counted, Outstanding
    <2> QED
      BY <2>1 DEF Outstanding, IInv, TypeOK
  <1> QED
    BY <1>1, InductiveInvariant, PTL

=============================================================================
