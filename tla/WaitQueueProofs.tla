--------------------------- MODULE WaitQueueProofs ---------------------------
(***************************************************************************)
(* What the fragments of WaitQueue preserve, for any threads, queues and   *)
(* events: the facts that the proofs about ThreadWait, Semaphore and       *)
(* LockSet rest on.                                                        *)
(***************************************************************************)
EXTENDS WaitQueue, FiniteSetTheorems, TLAPS

\* The joint invariant of the wait queues
WQInv == WQTypeOK /\ WaitingIffQueued /\ QueueOrder

\* Before the first wait every queue is empty.
LEMMA WQInitInv == WQInit => WQInv
<1> SUFFICES ASSUME WQInit PROVE WQInv
  OBVIOUS
<1>1. WQTypeOK
  BY DEF WQInit, WQTypeOK, Mode, Result
<1>2. WaitingIffQueued /\ QueueOrder
  BY DEF WQInit, WaitingIffQueued, QueueOrder
<1> QED BY <1>1, <1>2 DEF WQInv

-----------------------------------------------------------------------------
\* wait_queue_assert_wait by a thread that is on no queue puts it behind all
\* members of the queue, or in front of them.
LEMMA AssertWaitInv ==
  ASSUME WQInv, NEW t \in Thread, NEW q \in WaitQ, NEW e \in Event, NEW m \in Mode,
         ~waiting[t], AssertWaitLocked(t, q, e, m), UNCHANGED <<aborting, removing>>
  PROVE  WQInv'
<1> USE DEF WQInv
<1>1. WQTypeOK'
  BY DEF WQTypeOK, AssertWaitLocked, Members, Result
<1>2. wait_queue[t] = NoQueue /\ q # NoQueue
  BY WaitQueueAssumption DEF WaitingIffQueued
<1>3. WaitingIffQueued'
  BY <1>2, WaitQueueAssumption DEF WQTypeOK, WaitingIffQueued, AssertWaitLocked
<1>4. QueueOrder'
  <2>1. /\ wait_queue'[t] = q
        /\ \A u \in Thread : u # t => wait_queue'[u] = wait_queue[u]
    BY DEF WQTypeOK, AssertWaitLocked
  <2>2. ahead[t] = {} /\ \A u \in Thread : t \notin ahead[u]
    BY <1>2 DEF QueueOrder
  <2>3. CASE t \in VMPrivileged
    <3>1. /\ ahead'[t] = {}
          /\ \A u \in Thread \ {t} :
               ahead'[u] = IF wait_queue[u] = q THEN ahead[u] \union {t} ELSE ahead[u]
      BY <2>3 DEF AssertWaitLocked, Members
    <3>2. \A u, v \in Thread :
            u \in ahead'[v] <=> (u \in ahead[v] \/ (u = t /\ v # t /\ wait_queue[v] = q))
      BY <2>2, <3>1
    <3>3. \A u \in Thread : wait_queue'[u] = NoQueue => ahead'[u] = {}
      BY <1>2, <2>1, <3>1 DEF QueueOrder
    <3>4. \A u, v \in Thread :
            v \in ahead'[u] => wait_queue'[v] = wait_queue'[u] /\ u \notin ahead'[v]
      BY <1>2, <2>1, <2>2, <3>2 DEF QueueOrder
    <3>5. \A u, v \in Thread :
            u # v /\ wait_queue'[u] # NoQueue /\ wait_queue'[u] = wait_queue'[v]
              => u \in ahead'[v] \/ v \in ahead'[u]
      BY <1>2, <2>1, <3>2 DEF QueueOrder
    <3>6. \A u, v, w \in Thread :
            v \in ahead'[u] /\ w \in ahead'[v] => w \in ahead'[u]
      BY <1>2, <2>1, <2>2, <3>2 DEF QueueOrder
    <3> QED BY <3>3, <3>4, <3>5, <3>6 DEF QueueOrder
  <2>4. CASE t \notin VMPrivileged
    <3>1. /\ ahead'[t] = {u \in Thread : wait_queue[u] = q}
          /\ \A u \in Thread \ {t} : ahead'[u] = ahead[u]
      BY <2>4 DEF AssertWaitLocked, Members, WQTypeOK
    <3> QED BY <1>2, <2>1, <2>2, <3>1 DEF QueueOrder, WQTypeOK
  <2> QED BY <2>3, <2>4
<1> QED BY <1>1, <1>3, <1>4

\* What a step that starts no wait may do: end waits, each with a result
OnlyEnds ==
  \A t \in Thread : /\ waiting'[t] => waiting[t]
                    /\ waiting'[t] = waiting[t] => wait_result'[t] = wait_result[t]
                    /\ wait_queue'[t] \in {wait_queue[t], NoQueue}

\* thread_go_locked of any set of threads leaves the others where they are.
LEMMA GoInv ==
  ASSUME WQInv, NEW S \in SUBSET Thread, NEW r \in Result, GoLocked(S, r),
         aborting' \in [Thread -> BOOLEAN],
         removing' \in [Clearer -> Removal \union {Idle}]
  PROVE  WQInv' /\ OnlyEnds
<1> USE DEF WQInv
<1>1. WQTypeOK'
  BY DEF WQTypeOK, GoLocked
<1>2. WaitingIffQueued'
  BY DEF WQTypeOK, WaitingIffQueued, GoLocked
<1>3. QueueOrder'
  BY DEF WQTypeOK, QueueOrder, GoLocked
<1>4. OnlyEnds
  BY DEF WQTypeOK, GoLocked, OnlyEnds
<1> QED BY <1>1, <1>2, <1>3, <1>4

\* Changing what a clearer or an abort has decided does not touch the queues.
LEMMA QuietInv ==
  ASSUME WQInv, UNCHANGED waitVars,
         aborting' \in [Thread -> BOOLEAN],
         removing' \in [Clearer -> Removal \union {Idle}]
  PROVE  WQInv' /\ OnlyEnds
<1> USE DEF WQInv, waitVars
<1>1. WQTypeOK'
  BY DEF WQTypeOK
<1>2. WaitingIffQueued' /\ QueueOrder' /\ OnlyEnds
  BY DEF WaitingIffQueued, QueueOrder, OnlyEnds
<1> QED BY <1>1, <1>2

-----------------------------------------------------------------------------
(* clear_wait_internal in its three forms                                  *)

\* The first half, by another context
LEMMA ClearStartInv ==
  ASSUME WQInv, NEW k \in Clearer, NEW t \in Thread, NEW r \in Result,
         ClearWaitStart(k, t, r), aborting' \in [Thread -> BOOLEAN]
  PROVE  WQInv' /\ OnlyEnds
<1>1. CASE UNCHANGED <<waitVars, removing>>
  BY <1>1, QuietInv DEF WQInv, WQTypeOK
<1>2. CASE GoLocked({t}, r) /\ UNCHANGED removing
  BY <1>2, GoInv DEF WQInv, WQTypeOK
<1>3. ASSUME wait_queue[t] # NoQueue, UNCHANGED waitVars,
             removing' = [removing EXCEPT
                            ![k] = [thread |-> t, wq |-> wait_queue[t], result |-> r]]
      PROVE  WQInv' /\ OnlyEnds
  <2>1. [thread |-> t, wq |-> wait_queue[t], result |-> r] \in Removal
    BY <1>3 DEF WQInv, WQTypeOK, Removal
  <2>2. removing' \in [Clearer -> Removal \union {Idle}]
    BY <1>3, <2>1 DEF WQInv, WQTypeOK
  <2> QED BY <1>3, <2>2, QuietInv
<1> QED BY <1>1, <1>2, <1>3 DEF ClearWaitStart

\* The second half, when both locks are held again
LEMMA ClearFinishInv ==
  ASSUME WQInv, NEW k \in Clearer, ClearWaitFinish(k), UNCHANGED aborting
  PROVE  WQInv' /\ OnlyEnds
<1>1. removing[k] \in Removal
  BY DEF WQInv, WQTypeOK, ClearWaitFinish
<1>2. {removing[k].thread} \in SUBSET Thread /\ removing[k].result \in Result
  BY <1>1 DEF Removal
<1>3. removing' \in [Clearer -> Removal \union {Idle}] /\ aborting' \in [Thread -> BOOLEAN]
  BY DEF WQInv, WQTypeOK, ClearWaitFinish
<1>4. CASE GoLocked({removing[k].thread}, removing[k].result)
  BY <1>2, <1>3, <1>4, GoInv
<1>5. CASE UNCHANGED waitVars
  BY <1>3, <1>5, QuietInv
<1> QED BY <1>4, <1>5 DEF ClearWaitFinish

\* By the thread itself
LEMMA ClearSelfInv ==
  ASSUME WQInv, NEW t \in Thread, NEW r \in Result, ClearSelf(t, r),
         UNCHANGED <<aborting, removing>>
  PROVE  WQInv' /\ OnlyEnds
<1>1. /\ removing' \in [Clearer -> Removal \union {Idle}]
      /\ aborting' \in [Thread -> BOOLEAN]
  BY DEF WQInv, WQTypeOK
<1>2. CASE UNCHANGED waitVars
  BY <1>1, <1>2, QuietInv
<1>3. CASE GoLocked({t}, r)
  BY <1>1, <1>3, GoInv
<1> QED BY <1>2, <1>3 DEF ClearSelf

\* thread_abort and thread_abort_safely
LEMMA AbortInv ==
  ASSUME WQInv, NEW k \in Aborter, NEW t \in Thread,
         ThreadAbort(k, t) \/ ThreadAbortSafely(k, t)
  PROVE  WQInv' /\ OnlyEnds
<1>1. k \in Clearer /\ "INTERRUPTED" \in Result
  BY DEF Clearer, Result
<1>2. aborting' \in [Thread -> BOOLEAN] /\ ClearWaitStart(k, t, "INTERRUPTED")
  BY DEF ThreadAbort, ThreadAbortSafely, WQInv, WQTypeOK
<1> QED BY <1>1, <1>2, ClearStartInv

-----------------------------------------------------------------------------
\* Some waiter is the first: _wait_queue_select_one comes back empty-handed
\* only if nobody waits for the event.  (A waiter with the fewest waiters
\* ahead of it has none.)
LEMMA FirstExists ==
  ASSUME WQInv, IsFiniteSet(Thread), NEW q \in WaitQ, NEW e, Waiters(q, e) # {}
  PROVE  \E t \in Thread : SelectOne(q, e, t)
<1> DEFINE W == Waiters(q, e)
           before(t) == ahead[t] \intersect W
           n(t) == Cardinality(before(t))
           Counts == {n(t) : t \in W}
           Less == {p \in Nat \X Nat : p[1] < p[2]}
<1>1. W \subseteq Thread
  BY DEF Waiters, Members
<1>2. \A t \in W : IsFiniteSet(before(t)) /\ n(t) \in Nat
  BY <1>1, FS_Subset, FS_CardinalityType
<1>3. Counts \subseteq Nat /\ Counts # {}
  BY <1>2
<1>4. IsWellFoundedOn(Less, Nat)
  BY NatLessThanWellFounded DEF OpToRel
<1>5. PICK m \in Counts : \A k \in Counts : ~(<<k, m>> \in Less)
  <2> HIDE DEF Less, Counts
  <2> QED BY <1>3, <1>4, WFMin
<1>6. PICK t \in W : m = n(t)
  BY <1>5
<1>7. ASSUME NEW u \in before(t) PROVE FALSE
  <2>1. before(u) \subseteq before(t) /\ u \notin before(u) /\ u \in W
    BY <1>1, <1>6, <1>7 DEF WQInv, QueueOrder
  <2>2. n(u) <= n(t) /\ (n(t) = n(u) => before(t) = before(u))
    BY <1>2, <1>6, <2>1, FS_Subset
  <2>3. n(u) < n(t)
    BY <1>2, <1>6, <1>7, <2>1, <2>2
  <2>4. n(u) \in Counts /\ n(u) \in Nat /\ n(t) \in Nat
    BY <1>2, <1>6, <2>1
  <2>5. <<n(u), n(t)>> \in Less
    <3> HIDE DEF n
    <3> QED BY <2>3, <2>4
  <2> QED BY <1>5, <1>6, <2>4, <2>5
<1> QED BY <1>1, <1>6, <1>7 DEF SelectOne
=============================================================================
