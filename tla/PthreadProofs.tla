----------------------------- MODULE PthreadProofs -----------------------------
(***************************************************************************)
(* pthread mutexes and conditions for any number of threads.  When the     *)
(* first use of a static mutex does not overlap another, the counters are  *)
(* exact and no semaphore has two users, whatever waits UNIX signals       *)
(* interrupt.  When they interrupt condition waits only, the mutex also has*)
(* one owner and no post is left behind in the pool.                       *)
(***************************************************************************)
EXTENDS PthreadMutexCond, FiniteSetTheorems, TLAPS

\* The conditions of the second part: without them TLC refutes it (README)
Calm == Static # "race" /\ Interrupts \subseteq {"cond_signal", "cond_blocked"}

Signalling == {"signal", "signal_thread", "broadcast", "signalled"}
Owning == {"held", "cond_mutex", "cond_wait", "cond_signal"}
Trying == {"try_wait", "try_blocked"}
Label == Initializing \union Locking \union CondWaiting \union Signalling \union Trying
         \union {"out", "lock", "trylock", "held", "unlock_signal"}

Arg == [wait : Sem \union {NoSem}, signal : Sem \union {NoSem}, delta : Nat]

Types == TypeOK /\ pc \in [Thread -> Label] /\ arg \in [Thread -> Arg]

\* The first use of a static mutex: nobody else is in the library
Fresh == ~mutex.owner /\ mutex.waiters = 0 /\ ~mutex.cond_lock /\ mutex.sem = NoSem

Starting ==
  /\ mutex.sig = "SIG_init" =>
       /\ Static = "first" /\ Fresh
       /\ \A t \in Thread : pc[t] \in {"out"} \union Initializing
  /\ \A t \in Thread : pc[t] \in Initializing =>
       Static = "first" /\ Fresh /\ \A u \in Thread \ {t} : pc[u] = "out"
  /\ \A t \in Thread : pc[t] \in {"fields_lock", "fields_trylock"} => mutex.sig = "SIG"

Lockers == {t \in Thread : pc[t] \in Locking}
CondWaiters == {t \in Thread : pc[t] \in CondWaiting}

Counters ==
  /\ mutex.waiters = Cardinality(Lockers)
  /\ cond.waiters = Cardinality(CondWaiters)
  /\ cond.sigspending = Cardinality(Announced)
  /\ \A t \in Thread :
       arg[t].delta \in (IF pc[t] \in Signalling THEN 1 .. Cardinality(Thread) ELSE {0})

\* Who waits on what, and which object needs a semaphore
Waiting ==
  /\ \A s \in Sem : \A t \in waiters[s] :
       \/ s = mutex.sem /\ pc[t] \in {"lock_blocked", "try_blocked"}
       \/ s = cond.sem /\ pc[t] \in {"cond_signal", "cond_blocked"}
  /\ mutex.sem # NoSem => mutex.sem # cond.sem
  /\ mutex.waiters > 0 \/ mutex.cond_lock => mutex.sem # NoSem
  /\ cond.waiters > 0 \/ cond.sigspending > 0 <=> cond.sem # NoSem

Distinct(p) == \A i, j \in DOMAIN p : p[i] = p[j] => i = j
Values(p) == {p[i] : i \in DOMAIN p}

\* The pool has the semaphores that neither object uses, each once
Pool == Distinct(pool) /\ Values(pool) = Sem \ {mutex.sem, cond.sem}

\* pthread_mutex_trylock waits with mutex->lock held
Trylocks ==
  \A t \in Thread :
    /\ pc[t] \in Trying <=> mutex_lock = t
    /\ pc[t] \in Trying => mutex.waiters = 0 /\ mutex.cond_lock

\* The inductive invariant that no interrupted wait can break
Books == Types /\ Starting /\ Counters /\ Waiting /\ Pool /\ Trylocks

\* Only the mutex's semaphore stores a post, and one at most
Posts ==
  /\ \A s \in Sem : s # mutex.sem => value[s] = 0
  /\ mutex.sem # NoSem => value[mutex.sem] \in {0, 1}

\* Has the mutex: as its holder, about to hand it on, or just handed it
Active(t) ==
  \/ holds[t]
  \/ pc[t] = "unlock_signal"
  \/ pc[t] \in {"lock_blocked", "try_blocked"} /\ ~Waits(t)

\* Or the mutex is in the semaphore
Stored == mutex.sem # NoSem /\ value[mutex.sem] > 0

Places ==
  \A t \in Thread :
    /\ holds[t] => pc[t] \in Owning \union Signalling
    /\ pc[t] \in Owning => holds[t]
    /\ pc[t] \in {"cond_wait", "cond_signal"} => mutex.cond_lock
    /\ pc[t] = "cond_signal" => arg[t].signal = mutex.sem
    /\ pc[t] = "unlock_signal" => mutex.waiters > 0
    /\ holds[t] => mutex.owner
    /\ holds[t] /\ mutex.cond_lock => pc[t] \in {"cond_wait", "cond_signal"}

OneToken ==
  /\ \A t, u \in Thread : Active(t) /\ Active(u) => t = u
  /\ Stored => \A t \in Thread : ~Active(t)
  /\ Stored => mutex.owner \/ mutex.waiters > 0
  /\ mutex.cond_lock => mutex.owner

\* The inductive invariant when condition waits only are interrupted
PthreadInv == Books /\ Posts /\ Places /\ OneToken
-----------------------------------------------------------------------------
(* The steps, one disjunct each, with what the kernel call of each does to *)
(* the semaphores                                                          *)

pVars == <<pool, mutex, mutex_lock, cond, holds, arg>>

InitDone(t, o) == pc[t] = FieldsLabel[o] /\ Goto(t, o) /\ UNCHANGED <<kVars, pVars>>

LockSlow(t) ==
  /\ pc[t] = "lock" /\ LockFree
  /\ mutex.waiters > 0 \/ mutex.owner
  /\ mutex' = [mutex EXCEPT !.waiters = @ + 1, !.sem = SemOf(mutex)]
  /\ pool' = PoolAfterNew(mutex)
  /\ Goto(t, "lock_wait")
  /\ UNCHANGED <<kVars, mutex_lock, cond, holds, arg>>

\* pthread_mutex_lock and pthread_mutex_trylock find the mutex free
TakeFree(t) ==
  /\ pc[t] \in {"lock", "trylock"} /\ LockFree
  /\ mutex.waiters = 0 /\ ~mutex.owner
  /\ mutex' = [mutex EXCEPT !.owner = TRUE]
  /\ holds' = [holds EXCEPT ![t] = TRUE]
  /\ Goto(t, "held")
  /\ UNCHANGED <<kVars, pool, mutex_lock, cond, arg>>

\* Where a thread of pthread_mutex_lock or pthread_mutex_trylock goes to wait
Blocked(t) ==
  \/ pc[t] = "lock_wait" /\ Goto(t, "lock_blocked")
  \/ pc[t] = "try_wait" /\ Goto(t, "try_blocked")

FindsPost(t) ==
  /\ Blocked(t)
  /\ value[mutex.sem] > 0
  /\ value' = [value EXCEPT ![mutex.sem] = @ - 1]
  /\ granted' \subseteq Thread
  /\ UNCHANGED <<waiters, alive, pVars>>

FindsNoPost(t) ==
  /\ Blocked(t)
  /\ value[mutex.sem] = 0
  /\ waiters' = [waiters EXCEPT ![mutex.sem] = @ \union {t}]
  /\ UNCHANGED <<value, alive, granted, pVars>>

LockDoneLast(t) ==
  /\ pc[t] = "lock_blocked" /\ ~Waits(t) /\ LockFree /\ mutex.waiters = 1
  /\ mutex' = [mutex EXCEPT !.waiters = 0, !.sem = NoSem, !.cond_lock = FALSE,
                            !.owner = TRUE]
  /\ pool' = Restored(mutex.sem)
  /\ holds' = [holds EXCEPT ![t] = TRUE]
  /\ Goto(t, "held")
  /\ granted' \subseteq Thread
  /\ UNCHANGED <<value, waiters, alive, mutex_lock, cond, arg>>

LockDoneMore(t) ==
  /\ pc[t] = "lock_blocked" /\ ~Waits(t) /\ LockFree /\ mutex.waiters > 1
  /\ mutex' = [mutex EXCEPT !.waiters = @ - 1, !.cond_lock = FALSE, !.owner = TRUE]
  /\ holds' = [holds EXCEPT ![t] = TRUE]
  /\ Goto(t, "held")
  /\ granted' \subseteq Thread
  /\ UNCHANGED <<value, waiters, alive, pool, mutex_lock, cond, arg>>

TryOwned(t) ==
  /\ pc[t] = "trylock" /\ LockFree
  /\ mutex.waiters = 0 /\ mutex.cond_lock
  /\ mutex' = [mutex EXCEPT !.owner = TRUE]
  /\ mutex_lock' = t
  /\ Goto(t, "try_wait")
  /\ UNCHANGED <<kVars, pool, cond, holds, arg>>

\* pthread_mutex_unlock and semaphore_wait_signal: the mutex is handed on
Releases(t) ==
  \/ pc[t] = "unlock_signal" /\ Goto(t, "out") /\ UNCHANGED holds
  \/ pc[t] = "cond_signal" /\ Goto(t, "cond_blocked") /\ holds' = [holds EXCEPT ![t] = FALSE]

\* ... through mutex->sem as it is now, or as it was before the wait
Released(t) == IF pc[t] = "unlock_signal" THEN mutex.sem ELSE arg[t].signal

HandsTo(t, w) ==
  /\ Releases(t)
  /\ Released(t) \in Sem /\ w \in waiters[Released(t)]
  /\ waiters' = [waiters EXCEPT ![Released(t)] = @ \ {w}]
  /\ granted' \subseteq Thread
  /\ UNCHANGED <<value, alive, pool, mutex, mutex_lock, cond, arg>>

StoresPost(t) ==
  /\ Releases(t)
  /\ Released(t) \in Sem /\ waiters[Released(t)] = {}
  /\ value' = [value EXCEPT ![Released(t)] = @ + 1]
  /\ UNCHANGED <<waiters, alive, granted, pool, mutex, mutex_lock, cond, arg>>

LosesPost(t) ==
  /\ Releases(t)
  /\ Released(t) \notin Sem
  /\ UNCHANGED <<kVars, pool, mutex, mutex_lock, cond, arg>>

CondWaitFirst(t) ==
  /\ pc[t] = "held" /\ cond.waiters = 0
  /\ cond' = [cond EXCEPT !.waiters = 1, !.busy = TRUE, !.sem = SemOf(cond)]
  /\ pool' = PoolAfterNew(cond)
  /\ Goto(t, "cond_mutex")
  /\ UNCHANGED <<kVars, mutex, mutex_lock, holds, arg>>

CondWaitMore(t) ==
  /\ pc[t] = "held" /\ cond.waiters > 0
  /\ cond' = [cond EXCEPT !.waiters = @ + 1]
  /\ Goto(t, "cond_mutex")
  /\ UNCHANGED <<kVars, pool, mutex, mutex_lock, holds, arg>>

CondBlocks(t) ==
  /\ pc[t] = "cond_wait"
  /\ arg' = [arg EXCEPT ![t].wait = cond.sem, ![t].signal = mutex.sem]
  /\ waiters' = [waiters EXCEPT ![cond.sem] = @ \union {t}]
  /\ Goto(t, "cond_signal")
  /\ UNCHANGED <<value, alive, granted, pool, mutex, mutex_lock, cond, holds>>

\* The wait of the condition returns at once: somebody left a post
CondFinds(t) ==
  /\ pc[t] = "cond_wait"
  /\ arg' = [arg EXCEPT ![t].wait = cond.sem, ![t].signal = mutex.sem]
  /\ value[cond.sem] > 0
  /\ value' = [value EXCEPT ![cond.sem] = @ - 1]
  /\ Goto(t, "cond_signal")
  /\ granted' \subseteq Thread
  /\ UNCHANGED <<waiters, alive, pool, mutex, mutex_lock, cond, holds>>

\* The last waiter and the last signaller restore the semaphore ...
CondDoneLast(t) ==
  /\ pc[t] = "cond_blocked" /\ ~Waits(t)
  /\ cond.waiters = 1 /\ cond.sigspending = 0
  /\ cond' = [cond EXCEPT !.waiters = 0, !.busy = FALSE, !.sem = NoSem]
  /\ pool' = Restored(cond.sem)
  /\ arg' = [arg EXCEPT ![t] = NoArg]
  /\ Goto(t, "lock")
  /\ granted' \subseteq Thread
  /\ UNCHANGED <<value, waiters, alive, mutex, mutex_lock, holds>>

SignalledLast(t) ==
  /\ pc[t] = "signalled"
  /\ cond.waiters = 0 /\ cond.sigspending = arg[t].delta
  /\ cond' = [cond EXCEPT !.sigspending = 0, !.sem = NoSem]
  /\ pool' = Restored(cond.sem)
  /\ arg' = [arg EXCEPT ![t] = NoArg]
  /\ Goto(t, IF holds[t] THEN "held" ELSE "out")
  /\ UNCHANGED <<kVars, mutex, mutex_lock, holds>>

\* ... and the others leave it
CondDoneMore(t) ==
  /\ pc[t] = "cond_blocked" /\ ~Waits(t)
  /\ cond.waiters > 1 \/ cond.sigspending > 0
  /\ \E b \in BOOLEAN : cond' = [cond EXCEPT !.waiters = @ - 1, !.busy = b]
  /\ arg' = [arg EXCEPT ![t] = NoArg]
  /\ Goto(t, "lock")
  /\ granted' \subseteq Thread
  /\ UNCHANGED <<value, waiters, alive, pool, mutex, mutex_lock, holds>>

SignalledMore(t) ==
  /\ pc[t] = "signalled"
  /\ cond.waiters > 0 \/ cond.sigspending # arg[t].delta
  /\ cond' = [cond EXCEPT !.sigspending = @ - arg[t].delta]
  /\ arg' = [arg EXCEPT ![t] = NoArg]
  /\ Goto(t, IF holds[t] THEN "held" ELSE "out")
  /\ UNCHANGED <<kVars, pool, mutex, mutex_lock, holds>>

\* Waiters of the condition leave its semaphore: a signal, a broadcast, or the
\* end of the wait without one
CondWakes(t, G) ==
  /\ G \subseteq waiters[cond.sem]
  /\ waiters' = [waiters EXCEPT ![cond.sem] = @ \ G]
  /\ \/ pc[t] \in SignalKind /\ Goto(t, "signalled")
     \/ UNCHANGED pc
  /\ granted' \subseteq Thread
  /\ UNCHANGED <<value, alive, pVars>>

\* A UNIX signal ends a wait of pthread_mutex_lock or pthread_mutex_trylock
MutexAborts(t) ==
  /\ pc[t] \in {"lock_blocked", "try_blocked"} \intersect Interrupts
  /\ waiters' = [waiters EXCEPT ![mutex.sem] = @ \ {t}]
  /\ granted' \subseteq Thread
  /\ UNCHANGED <<value, alive, pc, pVars>>

Atoms(t) ==
  \/ \E o \in MutexOp : MutexCall(t, o) \/ InitSig(t, o) \/ InitDone(t, o)
  \/ LockSlow(t) \/ TakeFree(t) \/ FindsPost(t) \/ FindsNoPost(t)
  \/ LockDoneLast(t) \/ LockDoneMore(t)
  \/ TryOwned(t) \/ TryBusy(t) \/ TryDone(t)
  \/ Unlock(t) \/ StoresPost(t) \/ LosesPost(t) \/ \E w \in Thread : HandsTo(t, w)
  \/ CondWaitFirst(t) \/ CondWaitMore(t) \/ CondMutex(t) \/ CondBlocks(t) \/ CondFinds(t)
  \/ CondDoneLast(t) \/ CondDoneMore(t) \/ SignalledLast(t) \/ SignalledMore(t)
  \/ \E o \in SignalKind : CondAnnounce(t, o)
  \/ \E G \in SUBSET Thread : CondWakes(t, G)
  \/ MutexAborts(t)

-----------------------------------------------------------------------------
(* Counting                                                                *)

\* The d announced wake-ups of one thread
LEMMA RowCount ==
  ASSUME NEW t, NEW d \in Nat
  PROVE  IsFiniteSet({t} \X (1 .. d)) /\ Cardinality({t} \X (1 .. d)) = d
<1> DEFINE T == {t}
           D == 1 .. d
<1>1. IsFiniteSet(T) /\ Cardinality(T) = 1
  BY FS_Singleton
<1>2. IsFiniteSet(D) /\ Cardinality(D) = d
  BY FS_Interval
<1>3. IsFiniteSet(T \X D) /\ Cardinality(T \X D) = 1 * d
  <2> HIDE DEF T, D
  <2> QED BY <1>1, <1>2, FS_Product
<1> QED BY <1>3

\* Disjoint sets
LEMMA DisjointCount ==
  ASSUME NEW B, NEW R, IsFiniteSet(B), IsFiniteSet(R), B \intersect R = {}
  PROVE  Cardinality(B \union R) = Cardinality(B) + Cardinality(R)
<1>1. Cardinality(B \union R) = Cardinality(B) + Cardinality(R) - Cardinality(B \intersect R)
  BY FS_Union
<1>2. Cardinality(B \intersect R) = 0
  BY FS_EmptySet
<1>3. Cardinality(B) \in Nat /\ Cardinality(R) \in Nat
  BY FS_CardinalityType
<1> QED BY <1>1, <1>2, <1>3

\* The counted sets are finite.
LEMMA CountedFinite ==
  /\ IsFiniteSet(Lockers) /\ IsFiniteSet(CondWaiters) /\ IsFiniteSet(Announced)
  /\ Cardinality(Lockers) \in Nat
  /\ Cardinality(CondWaiters) \in 0 .. Cardinality(Thread)
  /\ Cardinality(Announced) \in Nat
<1>1. IsFiniteSet(Thread) /\ Cardinality(Thread) \in Nat
  BY PthreadAssumption, FS_CardinalityType
<1>2. IsFiniteSet(1 .. Cardinality(Thread))
  BY <1>1, FS_Interval
<1>3. IsFiniteSet(Thread \X (1 .. Cardinality(Thread)))
  BY <1>1, <1>2, FS_Product
<1>4. /\ Lockers \subseteq Thread /\ CondWaiters \subseteq Thread
      /\ Announced \subseteq Thread \X (1 .. Cardinality(Thread))
  BY DEF Lockers, CondWaiters, Announced
<1>5. IsFiniteSet(Lockers) /\ IsFiniteSet(CondWaiters) /\ IsFiniteSet(Announced)
  BY <1>1, <1>3, <1>4, FS_Subset
<1>6. Cardinality(CondWaiters) =< Cardinality(Thread)
  BY <1>1, <1>4, FS_Subset
<1>7. /\ Cardinality(Lockers) \in Nat /\ Cardinality(CondWaiters) \in Nat
      /\ Cardinality(Announced) \in Nat
  BY <1>5, FS_CardinalityType
<1> QED BY <1>1, <1>5, <1>6, <1>7

\* A thread that a counter stands for makes it positive, and the semaphore that
\* it uses, or is about to use, is there.
LEMMA Occupied ==
  ASSUME Books, NEW t \in Thread
  PROVE  /\ pc[t] \in Locking => mutex.waiters > 0
         /\ pc[t] \in CondWaiting => cond.waiters > 0
         /\ pc[t] \in Signalling => /\ arg[t].delta > 0
                                    /\ cond.sigspending >= arg[t].delta
         /\ pc[t] \in Locking \union Trying => mutex.sem \in Sem
         /\ pc[t] \in CondWaiting \union Signalling => cond.sem \in Sem
<1> USE DEF Books
<1>1. ASSUME pc[t] \in Locking PROVE mutex.waiters > 0
  <2>1. t \in Lockers
    BY <1>1 DEF Lockers
  <2>2. Cardinality(Lockers) # 0
    BY <2>1, CountedFinite, FS_EmptySet
  <2> QED BY <2>2, CountedFinite DEF Counters
<1>2. ASSUME pc[t] \in CondWaiting PROVE cond.waiters > 0
  <2>1. t \in CondWaiters
    BY <1>2 DEF CondWaiters
  <2>2. Cardinality(CondWaiters) # 0
    BY <2>1, CountedFinite, FS_EmptySet
  <2> QED BY <2>2, CountedFinite DEF Counters
<1>3. ASSUME pc[t] \in Signalling
      PROVE  arg[t].delta > 0 /\ cond.sigspending >= arg[t].delta
  <2>1. arg[t].delta \in 1 .. Cardinality(Thread)
    BY <1>3 DEF Counters
  <2> DEFINE d == arg[t].delta
             A == {t} \X (1 .. d)
  <2>2. Cardinality(Thread) \in Nat /\ d \in Nat /\ d > 0
    BY <2>1, PthreadAssumption, FS_CardinalityType
  <2>3. A \subseteq Announced
    BY <2>1, <2>2 DEF Announced
  <2>4. Cardinality(A) = d
    BY <2>2, RowCount
  <2>5. Cardinality(A) =< Cardinality(Announced)
    <3> HIDE DEF A
    <3> QED BY <2>3, CountedFinite, FS_Subset
  <2>6. cond.sigspending = Cardinality(Announced)
    BY DEF Counters
  <2> HIDE DEF A, d
  <2>7. d > 0 /\ cond.sigspending >= d
    BY <2>2, <2>4, <2>5, <2>6, CountedFinite
  <2> QED BY <2>7 DEF d
<1>4. ASSUME pc[t] \in Locking \union Trying PROVE mutex.sem \in Sem
  <2>1. mutex.waiters > 0 \/ mutex.cond_lock
    BY <1>1, <1>4 DEF Trylocks
  <2> QED BY <2>1 DEF Waiting, Types, TypeOK
<1>5. ASSUME pc[t] \in CondWaiting \union Signalling PROVE cond.sem \in Sem
  <2>1. cond.waiters > 0 \/ cond.sigspending > 0
    <3>1. CASE pc[t] \in CondWaiting
      BY <3>1, <1>2
    <3>2. CASE pc[t] \in Signalling
      <4>1. arg[t].delta > 0 /\ cond.sigspending >= arg[t].delta
        BY <3>2, <1>3
      <4>2. arg[t].delta \in Nat /\ cond.sigspending \in Nat
        BY DEF Types, TypeOK, Arg
      <4> QED BY <4>1, <4>2
    <3> QED BY <1>5, <3>1, <3>2
  <2> QED BY <2>1 DEF Waiting, Types, TypeOK
<1> QED BY <1>1, <1>2, <1>3, <1>4, <1>5


-----------------------------------------------------------------------------
(* The pool of semaphores                                                  *)

\* Taking the first member of a list of distinct values
LEMMA TailDistinct ==
  ASSUME NEW S, NEW p \in Seq(S), p # <<>>, Distinct(p)
  PROVE  /\ Head(p) \in Values(p)
         /\ Tail(p) \in Seq(S) /\ Distinct(Tail(p))
         /\ Values(Tail(p)) = Values(p) \ {Head(p)}
<1>1. /\ Len(p) \in Nat /\ Len(p) > 0 /\ DOMAIN p = 1 .. Len(p) /\ Head(p) = p[1]
      /\ Tail(p) \in Seq(S) /\ DOMAIN Tail(p) = 1 .. (Len(p) - 1)
      /\ \A i \in 1 .. (Len(p) - 1) : Tail(p)[i] = p[i + 1]
  OBVIOUS
<1>2. Head(p) \in Values(p)
  BY <1>1 DEF Values
<1>3. Distinct(Tail(p))
  BY <1>1 DEF Distinct
<1>4. ASSUME NEW v \in Values(Tail(p)) PROVE v \in Values(p) \ {Head(p)}
  <2>1. PICK i \in 1 .. (Len(p) - 1) : v = p[i + 1]
    BY <1>1 DEF Values
  <2>2. i + 1 \in DOMAIN p /\ 1 \in DOMAIN p /\ i + 1 # 1
    BY <1>1
  <2> QED BY <1>1, <2>1, <2>2 DEF Values, Distinct
<1>5. ASSUME NEW v \in Values(p) \ {Head(p)} PROVE v \in Values(Tail(p))
  <2>1. PICK i \in 1 .. Len(p) : v = p[i] /\ i # 1
    BY <1>1 DEF Values
  <2>2. i - 1 \in 1 .. (Len(p) - 1) /\ (i - 1) + 1 = i
    BY <1>1, <2>1
  <2>3. Tail(p)[i - 1] = v
    BY <1>1, <2>1, <2>2
  <2> QED BY <1>1, <2>2, <2>3 DEF Values
<1> QED BY <1>1, <1>2, <1>3, <1>4, <1>5

\* Putting a new value in front
LEMMA FrontDistinct ==
  ASSUME NEW S, NEW p \in Seq(S), NEW s \in S, s \notin Values(p), Distinct(p)
  PROVE  /\ <<s>> \o p \in Seq(S) /\ Distinct(<<s>> \o p)
         /\ Values(<<s>> \o p) = Values(p) \union {s}
<1> DEFINE q == <<s>> \o p
<1>1. /\ Len(p) \in Nat /\ DOMAIN p = 1 .. Len(p)
      /\ q \in Seq(S) /\ DOMAIN q = 1 .. (Len(p) + 1)
      /\ \A i \in 1 .. (Len(p) + 1) : q[i] = IF i = 1 THEN s ELSE p[i - 1]
  OBVIOUS
<1> HIDE DEF q
<1>2. \A i \in 1 .. (Len(p) + 1) : i # 1 => i - 1 \in DOMAIN p
  BY <1>1
<1>3. \A i \in DOMAIN p : p[i] # s
  BY DEF Values
<1>4. Distinct(q)
  <2> SUFFICES ASSUME NEW i \in DOMAIN q, NEW j \in DOMAIN q, q[i] = q[j] PROVE i = j
    BY DEF Distinct
  <2>1. i = 1 <=> j = 1
    <3>1. ASSUME NEW k \in DOMAIN q PROVE k = 1 <=> q[k] = s
      <4>1. k = 1 => q[k] = s
        BY <1>1
      <4>2. k # 1 => q[k] = p[k - 1] /\ k - 1 \in DOMAIN p
        BY <1>1, <1>2
      <4> QED BY <1>3, <4>1, <4>2
    <3> QED BY <3>1
  <2>2. CASE i # 1 /\ j # 1
    <3>1. p[i - 1] = p[j - 1] /\ i - 1 \in DOMAIN p /\ j - 1 \in DOMAIN p
      BY <1>1, <1>2, <2>2
    <3>2. i - 1 = j - 1
      BY <3>1 DEF Distinct
    <3> QED BY <1>1, <3>2
  <2> QED BY <2>1, <2>2
<1>5. ASSUME NEW v \in Values(q) PROVE v \in Values(p) \union {s}
  BY <1>1, <1>2 DEF Values
<1>6. ASSUME NEW v \in Values(p) PROVE v \in Values(q)
  <2>1. PICK i \in 1 .. Len(p) : v = p[i]
    BY <1>1 DEF Values
  <2>2. i + 1 \in 1 .. (Len(p) + 1) /\ i + 1 # 1 /\ (i + 1) - 1 = i
    BY <1>1
  <2>3. q[i + 1] = v
    BY <1>1, <2>1, <2>2
  <2> QED BY <1>1, <2>2, <2>3 DEF Values
<1>7. s \in Values(q)
  <2>1. 1 \in DOMAIN q /\ q[1] = s
    BY <1>1
  <2> QED BY <2>1 DEF Values
<1>8. Values(q) = Values(p) \union {s}
  BY <1>5, <1>6, <1>7
<1> QED BY <1>1, <1>4, <1>8 DEF q

\* While one of the two objects has no semaphore there is one in the pool.
LEMMA PoolNotEmpty ==
  ASSUME Books, mutex.sem = NoSem \/ cond.sem = NoSem
  PROVE  pool # <<>>
<1> DEFINE c == IF mutex.sem = NoSem THEN cond.sem ELSE mutex.sem
<1>1. Sem \ {mutex.sem, cond.sem} = Sem \ {c}
  BY PthreadAssumption
<1> HIDE DEF c
<1>2. Cardinality(Sem \ {c}) # 0
  <2>1. IsFiniteSet(Sem) /\ Cardinality(Sem) \in Nat /\ Cardinality(Sem) >= 2
    BY PthreadAssumption, FS_CardinalityType
  <2>2. Cardinality(Sem \ {c}) = IF c \in Sem THEN Cardinality(Sem) - 1 ELSE Cardinality(Sem)
    BY <2>1, FS_RemoveElement
  <2> QED BY <2>1, <2>2
<1>3. Values(pool) # {}
  BY <1>1, <1>2, FS_EmptySet DEF Books, Pool
<1> QED BY <1>3 DEF Values

\* new_sem_from_pool: nobody waits on the semaphore that the mutex gets, and it
\* is not the condition's.
LEMMA MutexSem ==
  ASSUME Books
  PROVE  /\ SemOf(mutex) \in Sem /\ SemOf(mutex) # cond.sem
         /\ PoolAfterNew(mutex) \in Seq(Sem) /\ Distinct(PoolAfterNew(mutex))
         /\ Values(PoolAfterNew(mutex)) = Sem \ {SemOf(mutex), cond.sem}
         /\ \/ SemOf(mutex) = mutex.sem
            \/ mutex.sem = NoSem /\ waiters[SemOf(mutex)] = {}
<1> USE DEF Books
<1>1. CASE mutex.sem # NoSem
  BY <1>1 DEF SemOf, PoolAfterNew, Types, TypeOK, Pool, Waiting
<1>2. CASE mutex.sem = NoSem
  <2>1. pool \in Seq(Sem) /\ pool # <<>>
    BY <1>2, PoolNotEmpty DEF Types, TypeOK
  <2>2. /\ Head(pool) \in Values(pool) /\ Tail(pool) \in Seq(Sem) /\ Distinct(Tail(pool))
        /\ Values(Tail(pool)) = Values(pool) \ {Head(pool)}
    BY <2>1, TailDistinct DEF Pool
  <2>3. Head(pool) \in Sem \ {cond.sem}
    BY <2>2 DEF Pool
  <2>4. waiters[Head(pool)] = {}
    BY <1>2, <2>3, PthreadAssumption DEF Waiting, Types, TypeOK
  <2>5. Values(Tail(pool)) = Sem \ {Head(pool), cond.sem}
    BY <1>2, <2>2, PthreadAssumption DEF Pool
  <2> QED BY <1>2, <2>2, <2>3, <2>4, <2>5 DEF SemOf, PoolAfterNew
<1> QED BY <1>1, <1>2

\* The same for the condition.
LEMMA CondSem ==
  ASSUME Books
  PROVE  /\ SemOf(cond) \in Sem /\ SemOf(cond) # mutex.sem
         /\ PoolAfterNew(cond) \in Seq(Sem) /\ Distinct(PoolAfterNew(cond))
         /\ Values(PoolAfterNew(cond)) = Sem \ {mutex.sem, SemOf(cond)}
         /\ \/ SemOf(cond) = cond.sem
            \/ cond.sem = NoSem /\ waiters[SemOf(cond)] = {}
<1> USE DEF Books
<1>1. CASE cond.sem # NoSem
  BY <1>1 DEF SemOf, PoolAfterNew, Types, TypeOK, Pool, Waiting
<1>2. CASE cond.sem = NoSem
  <2>1. pool \in Seq(Sem) /\ pool # <<>>
    BY <1>2, PoolNotEmpty DEF Types, TypeOK
  <2>2. /\ Head(pool) \in Values(pool) /\ Tail(pool) \in Seq(Sem) /\ Distinct(Tail(pool))
        /\ Values(Tail(pool)) = Values(pool) \ {Head(pool)}
    BY <2>1, TailDistinct DEF Pool
  <2>3. Head(pool) \in Sem \ {mutex.sem}
    BY <2>2 DEF Pool
  <2>4. waiters[Head(pool)] = {}
    BY <1>2, <2>3, PthreadAssumption DEF Waiting, Types, TypeOK
  <2>5. Values(Tail(pool)) = Sem \ {mutex.sem, Head(pool)}
    BY <1>2, <2>2, PthreadAssumption DEF Pool
  <2> QED BY <1>2, <2>2, <2>3, <2>4, <2>5 DEF SemOf, PoolAfterNew
<1> QED BY <1>1, <1>2

\* restore_sem_to_pool of a semaphore that one of the objects uses
LEMMA Restoring ==
  ASSUME Books, NEW s \in Sem, s \in {mutex.sem, cond.sem}
  PROVE  /\ Restored(s) \in Seq(Sem) /\ Distinct(Restored(s))
         /\ Values(Restored(s)) = (Sem \ {mutex.sem, cond.sem}) \union {s}
<1>1. pool \in Seq(Sem) /\ Distinct(pool) /\ Values(pool) = Sem \ {mutex.sem, cond.sem}
  BY DEF Books, Types, TypeOK, Pool
<1>2. s \notin Values(pool)
  BY <1>1
<1>3. /\ <<s>> \o pool \in Seq(Sem) /\ Distinct(<<s>> \o pool)
      /\ Values(<<s>> \o pool) = Values(pool) \union {s}
  BY <1>1, <1>2, FrontDistinct
<1> QED BY <1>1, <1>3 DEF Restored


-----------------------------------------------------------------------------
(* The steps                                                               *)

\* The kernel call of a thread about to wait for the mutex
LEMMA BlockCases ==
  ASSUME Books, NEW t \in Thread, LockWait(t) \/ TryWait(t)
  PROVE  FindsPost(t) \/ FindsNoPost(t)
<1>1. mutex.sem \in Sem
  BY Occupied DEF Locking, Trying, LockWait, TryWait
<1>2. Blocked(t) /\ UNCHANGED pVars
  BY DEF LockWait, TryWait, Blocked, pVars
<1>3. granted \subseteq Thread
  BY DEF Books, Types, TypeOK
<1>4. CASE K!Take(t, mutex.sem)
  BY <1>2, <1>3, <1>4 DEF K!Take, FindsPost
<1>5. CASE K!Enqueue(t, mutex.sem)
  BY <1>2, <1>5 DEF K!Enqueue, FindsNoPost
<1> QED BY <1>1, <1>4, <1>5 DEF LockWait, TryWait, SemWait

\* The kernel call that releases the mutex
LEMMA ReleaseCases ==
  ASSUME Books, NEW t \in Thread, UnlockSignal(t) \/ CondSemSignal(t)
  PROVE  StoresPost(t) \/ LosesPost(t) \/ \E w \in Thread : HandsTo(t, w)
<1> DEFINE s == Released(t)
<1>1. Releases(t) /\ UNCHANGED <<pool, mutex, mutex_lock, cond, arg>> /\ SemSignal(s)
  BY DEF UnlockSignal, CondSemSignal, Releases, Released
<1>2. granted \subseteq Thread /\ waiters \in [Sem -> SUBSET Thread]
  BY DEF Books, Types, TypeOK
<1> HIDE DEF s
<1>3. CASE s \in Sem /\ K!GrantOne(s)
  <2>1. PICK w \in waiters[s] : K!Grant(s, {w})
    BY <1>3 DEF K!GrantOne
  <2>2. HandsTo(t, w)
    BY <1>1, <1>2, <1>3, <2>1 DEF K!Grant, HandsTo, s
  <2> QED BY <1>2, <1>3, <2>2
<1>4. CASE s \in Sem /\ K!Store(s)
  BY <1>1, <1>4 DEF K!Store, StoresPost, s
<1>5. CASE s \notin Sem /\ UNCHANGED kVars
  BY <1>1, <1>5 DEF LosesPost, kVars, s
<1> QED BY <1>1, <1>3, <1>4, <1>5 DEF SemSignal

\* The kernel call that signals the condition
LEMMA SignalCases ==
  ASSUME Books, NEW t \in Thread, CondSignal(t) \/ CondBroadcast(t)
  PROVE  \E G \in SUBSET Thread : CondWakes(t, G)
<1>1. pc[t] \in SignalKind /\ Goto(t, "signalled") /\ UNCHANGED pVars
  BY DEF CondSignal, CondBroadcast, SignalKind, pVars
<1>2. cond.sem \in Sem
  BY <1>1, Occupied DEF SignalKind, Signalling
<1>3. granted \subseteq Thread /\ waiters[cond.sem] \subseteq Thread
      /\ waiters = [waiters EXCEPT ![cond.sem] = @ \ {}]
  BY <1>2 DEF Books, Types, TypeOK
<1>4. CASE UNCHANGED kVars
  <2>1. CondWakes(t, {})
    BY <1>1, <1>3, <1>4 DEF CondWakes, kVars
  <2> QED BY <2>1
<1>5. ASSUME NEW G \in SUBSET waiters[cond.sem], K!Grant(cond.sem, G)
      PROVE  \E H \in SUBSET Thread : CondWakes(t, H)
  <2>1. CondWakes(t, G)
    BY <1>1, <1>3, <1>5 DEF CondWakes, K!Grant
  <2> QED BY <1>3, <2>1
<1> QED BY <1>4, <1>5 DEF CondSignal, CondBroadcast, K!GrantOne, K!GrantAll

\* The end of a wait without a post
LEMMA CancelCases ==
  ASSUME Books, NEW t \in Thread, Timeout(t) \/ Abort(t)
  PROVE  MutexAborts(t) \/ \E G \in SUBSET Thread : CondWakes(t, G)
<1>1. PICK s \in Sem : K!Cancel(t, s)
  BY DEF Timeout, Abort, CancelWait
<1>2. UNCHANGED <<pc, pVars>>
  BY DEF Timeout, Abort, CancelWait, pVars
<1>3. granted' \subseteq Thread
  BY <1>1 DEF Books, Types, TypeOK, K!Cancel
<1>4. CASE s = mutex.sem /\ pc[t] \in {"lock_blocked", "try_blocked"}
  <2>1. pc[t] \in Interrupts
    BY <1>4 DEF Timeout, Abort
  <2> QED BY <1>1, <1>2, <1>3, <1>4, <2>1 DEF MutexAborts, K!Cancel
<1>5. CASE s = cond.sem
  <2>1. CondWakes(t, {t})
    BY <1>1, <1>2, <1>3, <1>5 DEF CondWakes, K!Cancel
  <2> QED BY <2>1
<1> QED BY <1>1, <1>4, <1>5 DEF Books, Waiting, K!Cancel

\* Every step is one of the atoms.
LEMMA NextCases ==
  ASSUME Books, [Next]_vars
  PROVE  UNCHANGED vars \/ \E t \in Thread : Atoms(t)
<1> USE DEF Books
<1> SUFFICES ASSUME NEW t \in Thread, Step(t) \/ Call(t) \/ Timeout(t) \/ Abort(t)
             PROVE  Atoms(t)
  BY DEF Next
<1>1. ASSUME NEW o \in MutexOp, InitFields(t, o) PROVE InitDone(t, o)
  <2>1. pc[t] \in Initializing
    BY <1>1 DEF InitFields, MutexOp, FieldsLabel, Initializing
  <2>2. Fresh
    BY <2>1 DEF Starting
  <2>3. mutex' = mutex
    BY <1>1, <2>2 DEF InitFields, Fresh, Types, TypeOK
  <2> QED BY <1>1, <2>3 DEF InitFields, InitDone, pVars
<1>2. Lock(t) => LockSlow(t) \/ TakeFree(t)
  BY DEF Lock, LockSlow, TakeFree, Types, TypeOK
<1>3. LockDone(t) => LockDoneLast(t) \/ LockDoneMore(t)
  <2> SUFFICES ASSUME LockDone(t) PROVE LockDoneLast(t) \/ LockDoneMore(t)
    OBVIOUS
  <2>1. mutex.waiters > 0 /\ mutex.waiters \in Nat
    BY Occupied DEF LockDone, Locking, Types, TypeOK
  <2>2. granted' \subseteq Thread /\ UNCHANGED <<value, waiters, alive>>
    BY DEF LockDone, K!Leave, Types, TypeOK
  <2>3. CASE mutex.waiters = 1
    BY <2>2, <2>3 DEF LockDone, LockDoneLast
  <2>4. CASE mutex.waiters > 1
    <3>1. mutex.waiters # 1
      BY <2>1, <2>4
    <3>2. mutex' = [mutex EXCEPT !.waiters = @ - 1, !.sem = @, !.cond_lock = FALSE,
                                 !.owner = TRUE]
      BY <3>1 DEF LockDone
    <3>3. mutex' = [mutex EXCEPT !.waiters = @ - 1, !.cond_lock = FALSE, !.owner = TRUE]
      BY <3>2 DEF Types, TypeOK
    <3> QED BY <2>2, <2>4, <3>1, <3>3 DEF LockDone, LockDoneMore
  <2> QED BY <2>1, <2>3, <2>4
<1>4. TryLock(t) => TakeFree(t) \/ TryOwned(t)
  <2> SUFFICES ASSUME TryLock(t) PROVE TakeFree(t) \/ TryOwned(t)
    OBVIOUS
  <2>1. CASE ~mutex.cond_lock
    BY <2>1 DEF TryLock, TakeFree
  <2>2. CASE mutex.cond_lock
    BY <2>2 DEF TryLock, TryOwned
  <2> QED BY <2>1, <2>2
<1>5. CondSemWait(t) => CondBlocks(t) \/ CondFinds(t)
  <2> SUFFICES ASSUME CondSemWait(t) PROVE CondBlocks(t) \/ CondFinds(t)
    OBVIOUS
  <2>1. cond.sem \in Sem /\ granted \subseteq Thread
    BY Occupied DEF CondSemWait, CondWaiting, Types, TypeOK
  <2>2. CASE K!Take(t, cond.sem)
    BY <2>1, <2>2 DEF CondSemWait, CondFinds, K!Take
  <2>3. CASE K!Enqueue(t, cond.sem)
    BY <2>3 DEF CondSemWait, CondBlocks, K!Enqueue
  <2> QED BY <2>1, <2>2, <2>3 DEF CondSemWait, SemWait
<1>6. CondWait(t) => CondWaitFirst(t) \/ CondWaitMore(t)
  BY DEF CondWait, CondWaitFirst, CondWaitMore
<1>7. CondDone(t) => CondDoneLast(t) \/ CondDoneMore(t)
  <2> SUFFICES ASSUME CondDone(t) PROVE CondDoneLast(t) \/ CondDoneMore(t)
    OBVIOUS
  <2>1. granted' \subseteq Thread /\ UNCHANGED <<value, waiters, alive>>
    BY DEF CondDone, K!Leave, Types, TypeOK
  <2>2. CASE cond.waiters = 1 /\ cond.sigspending = 0
    BY <2>1, <2>2 DEF CondDone, CondDoneLast
  <2>3. CASE ~(cond.waiters = 1 /\ cond.sigspending = 0)
    <3>1. cond.waiters > 1 \/ cond.sigspending > 0
      BY <2>3 DEF CondDone, Types, TypeOK
    <3>2. \E b \in BOOLEAN : cond' = [cond EXCEPT !.waiters = @ - 1, !.busy = b]
      <4>1. CASE cond' = [cond EXCEPT !.waiters = 0, !.busy = FALSE] /\ cond.waiters = 1
        <5>1. cond.waiters - 1 = 0
          BY <4>1
        <5> QED BY <4>1, <5>1
      <4>2. CASE cond' = [cond EXCEPT !.waiters = @ - 1]
        <5>1. cond' = [cond EXCEPT !.waiters = @ - 1, !.busy = cond.busy]
          BY <4>2 DEF Types, TypeOK
        <5> QED BY <5>1 DEF Types, TypeOK
      <4> QED BY <2>3, <4>1, <4>2 DEF CondDone
    <3>3. pool' = pool
      BY <2>3 DEF CondDone
    <3> QED BY <2>1, <3>1, <3>2, <3>3 DEF CondDone, CondDoneMore
  <2> QED BY <2>2, <2>3
<1>8. CondSignalled(t) => SignalledLast(t) \/ SignalledMore(t)
  <2> SUFFICES ASSUME CondSignalled(t) PROVE SignalledLast(t) \/ SignalledMore(t)
    OBVIOUS
  <2>1. arg[t].delta \in Nat /\ cond.sigspending \in Nat /\ cond.waiters \in Nat
    BY DEF Types, TypeOK, Arg
  <2>2. cond.sigspending - arg[t].delta = 0 <=> cond.sigspending = arg[t].delta
    BY <2>1
  <2>3. CASE cond.waiters = 0 /\ cond.sigspending = arg[t].delta
    <3>1. cond.sigspending - arg[t].delta = 0
      BY <2>1, <2>3
    <3> QED BY <2>3, <3>1 DEF CondSignalled, SignalledLast
  <2>4. CASE ~(cond.waiters = 0 /\ cond.sigspending = arg[t].delta)
    BY <2>1, <2>2, <2>4 DEF CondSignalled, SignalledMore
  <2> QED BY <2>3, <2>4
<1> QED
  BY <1>1, <1>2, <1>3, <1>4, <1>5, <1>6, <1>7, <1>8, BlockCases, ReleaseCases, SignalCases,
     CancelCases
  DEF Step, Call, Atoms


-----------------------------------------------------------------------------
(* Each part of the invariant                                              *)

\* Every step keeps the types.
LEMMA TypesStep ==
  ASSUME Books, [Next]_vars PROVE Types'
<1> USE DEF Books
<1>1. CASE UNCHANGED vars
  BY <1>1 DEF vars, kVars, Types, TypeOK, Label, Initializing, Locking, CondWaiting, Signalling,
              Trying
<1>2. ASSUME NEW t \in Thread, NEW o \in MutexOp, MutexCall(t, o) PROVE Types'
  BY <1>2 DEF MutexCall, Goto, kVars, MutexOp, InitLabel, Types, TypeOK, Label, Initializing,
              Locking, CondWaiting, Signalling, Trying
<1>3. ASSUME NEW t \in Thread, NEW o \in MutexOp, InitSig(t, o) PROVE Types'
  <2>1. mutex' \in [sig : {"SIG_init", "SIG"}, owner : BOOLEAN, waiters : Nat,
                  cond_lock : BOOLEAN, sem : Sem \union {NoSem}]
    BY <1>3 DEF InitSig, Types, TypeOK
  <2>2. pc' \in [Thread -> Label]
    BY <1>3 DEF InitSig, Goto, kVars, MutexOp, InitLabel, FieldsLabel, Types, TypeOK, Label,
                Initializing, Locking, CondWaiting, Signalling, Trying
  <2> QED BY <1>3, <2>1, <2>2 DEF InitSig, Goto, kVars, MutexOp, InitLabel, FieldsLabel, Types,
                                  TypeOK
<1>4. ASSUME NEW t \in Thread, NEW o \in MutexOp, InitDone(t, o) PROVE Types'
  BY <1>4 DEF InitDone, Goto, kVars, pVars, MutexOp, FieldsLabel, Types, TypeOK, Label,
              Initializing, Locking, CondWaiting, Signalling, Trying
<1>5. ASSUME NEW t \in Thread, LockSlow(t) PROVE Types'
  <2>1. mutex.waiters + 1 \in Nat
    BY <1>5 DEF LockSlow, Types, TypeOK
  <2>2. mutex' \in [sig : {"SIG_init", "SIG"}, owner : BOOLEAN, waiters : Nat,
                  cond_lock : BOOLEAN, sem : Sem \union {NoSem}]
    BY <1>5, <2>1, MutexSem DEF LockSlow, Types, TypeOK
  <2>3. pc' \in [Thread -> Label]
    BY <1>5 DEF LockSlow, LockFree, Goto, kVars, Types, TypeOK, Label, Initializing, Locking,
                CondWaiting, Signalling, Trying
  <2> QED BY <1>5, <2>2, <2>3, MutexSem DEF LockSlow, LockFree, Goto, kVars, Types, TypeOK
<1>6. ASSUME NEW t \in Thread, TakeFree(t) PROVE Types'
  BY <1>6 DEF TakeFree, LockFree, Goto, kVars, Types, TypeOK, Label, Initializing, Locking,
              CondWaiting, Signalling, Trying
<1>7. ASSUME NEW t \in Thread, FindsPost(t) PROVE Types'
  <2>1. pc' \in [Thread -> Label]
    BY <1>7 DEF FindsPost, Blocked, Goto, Types, TypeOK, Label, Initializing, Locking,
                CondWaiting, Signalling, Trying
  <2>2. value' \in [Sem -> Nat]
    <3>1. mutex.sem \in Sem
      BY <1>7, Occupied DEF FindsPost, Blocked, Locking, Trying
    <3>2. value[mutex.sem] - 1 \in Nat
      BY <1>7, <3>1 DEF FindsPost, Types, TypeOK
    <3> QED BY <1>7, <3>2 DEF FindsPost, Types, TypeOK
  <2> QED BY <1>7, <2>1, <2>2 DEF FindsPost, pVars, Types, TypeOK
<1>8. ASSUME NEW t \in Thread, FindsNoPost(t) PROVE Types'
  <2>1. pc' \in [Thread -> Label]
    BY <1>8 DEF FindsNoPost, Blocked, Goto, Types, TypeOK, Label, Initializing, Locking,
                CondWaiting, Signalling, Trying
  <2>2. waiters' \in [Sem -> SUBSET Thread]
    BY <1>8 DEF FindsNoPost, Types, TypeOK
  <2> QED BY <1>8, <2>1, <2>2 DEF FindsNoPost, pVars, Types, TypeOK
<1>9. ASSUME NEW t \in Thread, LockDoneLast(t) PROVE Types'
  <2>1. mutex.sem \in Sem
    BY <1>9, Occupied DEF LockDoneLast, Locking
  <2>2. Restored(mutex.sem) \in Seq(Sem)
    BY <2>1, Restoring
  <2> QED BY <1>9, <2>2 DEF LockDoneLast, LockFree, Goto, Types, TypeOK, Label, Initializing,
                            Locking, CondWaiting, Signalling, Trying
<1>10. ASSUME NEW t \in Thread, LockDoneMore(t) PROVE Types'
  <2>1. mutex.waiters - 1 \in Nat
    BY <1>10 DEF LockDoneMore, Types, TypeOK
  <2>2. mutex' \in [sig : {"SIG_init", "SIG"}, owner : BOOLEAN, waiters : Nat,
                  cond_lock : BOOLEAN, sem : Sem \union {NoSem}]
    BY <1>10, <2>1 DEF LockDoneMore, Types, TypeOK
  <2>3. pc' \in [Thread -> Label]
    BY <1>10 DEF LockDoneMore, LockFree, Goto, Types, TypeOK, Label, Initializing, Locking,
                 CondWaiting, Signalling, Trying
  <2> QED BY <1>10, <2>2, <2>3 DEF LockDoneMore, LockFree, Goto, Types, TypeOK
<1>11. ASSUME NEW t \in Thread, TryOwned(t) PROVE Types'
  BY <1>11 DEF TryOwned, LockFree, Goto, kVars, Types, TypeOK, Label, Initializing, Locking,
               CondWaiting, Signalling, Trying
<1>12. ASSUME NEW t \in Thread, TryBusy(t) PROVE Types'
  BY <1>12 DEF TryBusy, Goto, kVars, Types, TypeOK, Label, Initializing, Locking, CondWaiting,
               Signalling, Trying
<1>13. ASSUME NEW t \in Thread, TryDone(t) PROVE Types'
  <2>1. mutex.sem \in Sem
    BY <1>13, Occupied DEF TryDone, Trying
  <2>2. Restored(mutex.sem) \in Seq(Sem)
    BY <2>1, Restoring
  <2> QED BY <1>13, <2>2 DEF TryDone, Goto, K!Leave, Types, TypeOK, Label, Initializing,
                             Locking, CondWaiting, Signalling, Trying
<1>14. ASSUME NEW t \in Thread, Unlock(t) PROVE Types'
  BY <1>14 DEF Unlock, LockFree, Goto, kVars, Types, TypeOK, Label, Initializing, Locking,
               CondWaiting, Signalling, Trying
<1>15. ASSUME NEW t \in Thread, StoresPost(t) PROVE Types'
  <2>1. value' \in [Sem -> Nat]
    <3>1. value[Released(t)] + 1 \in Nat
      BY <1>15 DEF StoresPost, Types, TypeOK
    <3> QED BY <1>15, <3>1 DEF StoresPost, Types, TypeOK
  <2>2. pc' \in [Thread -> Label] /\ holds' \in [Thread -> BOOLEAN]
    BY <1>15 DEF StoresPost, Releases, Goto, Types, TypeOK, Label, Initializing, Locking,
                 CondWaiting, Signalling, Trying
  <2> QED BY <1>15, <2>1, <2>2 DEF StoresPost, Types, TypeOK
<1>16. ASSUME NEW t \in Thread, NEW w \in Thread, HandsTo(t, w) PROVE Types'
  <2>1. pc' \in [Thread -> Label] /\ holds' \in [Thread -> BOOLEAN]
    BY <1>16 DEF HandsTo, Releases, Goto, Types, TypeOK, Label, Initializing, Locking,
                 CondWaiting, Signalling, Trying
  <2>2. waiters' \in [Sem -> SUBSET Thread]
    BY <1>16 DEF HandsTo, Types, TypeOK
  <2> QED BY <1>16, <2>1, <2>2 DEF HandsTo, Types, TypeOK
<1>17. ASSUME NEW t \in Thread, CondWaitFirst(t) PROVE Types'
  BY <1>17, CondSem DEF CondWaitFirst, Goto, kVars, Types, TypeOK, Label, Initializing, Locking,
                        CondWaiting, Signalling, Trying
<1>18. ASSUME NEW t \in Thread, CondWaitMore(t) PROVE Types'
  <2>1. cond.waiters + 1 \in Nat
    BY <1>18 DEF CondWaitMore, Types, TypeOK
  <2>2. cond' \in [busy : BOOLEAN, waiters : Nat, sigspending : Nat,
                 sem : Sem \union {NoSem}]
    BY <1>18, <2>1 DEF CondWaitMore, Types, TypeOK
  <2>3. pc' \in [Thread -> Label]
    BY <1>18 DEF CondWaitMore, Goto, kVars, Types, TypeOK, Label, Initializing, Locking,
                 CondWaiting, Signalling, Trying
  <2> QED BY <1>18, <2>2, <2>3 DEF CondWaitMore, Goto, kVars, Types, TypeOK
<1>19. ASSUME NEW t \in Thread, CondMutex(t) PROVE Types'
  BY <1>19, MutexSem DEF CondMutex, LockFree, Goto, kVars, Types, TypeOK, Label, Initializing,
                         Locking, CondWaiting, Signalling, Trying
<1>20. ASSUME NEW t \in Thread, CondBlocks(t) PROVE Types'
  <2>1. pc' \in [Thread -> Label]
    BY <1>20 DEF CondBlocks, Goto, Types, TypeOK, Label, Initializing, Locking, CondWaiting,
                 Signalling, Trying
  <2>2. waiters' \in [Sem -> SUBSET Thread]
    BY <1>20 DEF CondBlocks, Types, TypeOK
  <2>3. arg' \in [Thread -> Arg]
    <3> DEFINE a == [arg[t] EXCEPT !.wait = cond.sem, !.signal = mutex.sem]
    <3>1. arg[t] \in Arg /\ {cond.sem, mutex.sem} \subseteq Sem \union {NoSem}
      BY DEF Types, TypeOK
    <3>2. a \in Arg
      BY <3>1 DEF Arg
    <3>3. arg' = [arg EXCEPT ![t] = a]
      BY <1>20 DEF CondBlocks, Types
    <3> HIDE DEF a
    <3> QED BY <3>2, <3>3 DEF Types
  <2> QED BY <1>20, <2>1, <2>2, <2>3 DEF CondBlocks, Types, TypeOK
<1>21. ASSUME NEW t \in Thread, CondDoneLast(t) PROVE Types'
  <2>1. cond.sem \in Sem
    BY <1>21, Occupied DEF CondDoneLast, CondWaiting
  <2>2. Restored(cond.sem) \in Seq(Sem)
    BY <2>1, Restoring
  <2> QED BY <1>21, <2>2 DEF CondDoneLast, Goto, NoArg, Arg, Types, TypeOK, Label, Initializing,
                             Locking, CondWaiting, Signalling, Trying
<1>22. ASSUME NEW t \in Thread, CondDoneMore(t) PROVE Types'
  <2>1. cond.waiters > 0 /\ cond.waiters \in Nat
    BY <1>22, Occupied DEF CondDoneMore, CondWaiting, Types, TypeOK
  <2>2. cond.waiters - 1 \in Nat
    BY <2>1
  <2>3. PICK b \in BOOLEAN : cond' = [cond EXCEPT !.waiters = @ - 1, !.busy = b]
    BY <1>22 DEF CondDoneMore
  <2>4. cond' \in [busy : BOOLEAN, waiters : Nat, sigspending : Nat,
                 sem : Sem \union {NoSem}]
    BY <2>2, <2>3 DEF Types, TypeOK
  <2>5. arg' \in [Thread -> Arg]
    BY <1>22 DEF CondDoneMore, NoArg, Arg, Types
  <2>6. pc' \in [Thread -> Label]
    BY <1>22 DEF CondDoneMore, Goto, Types, TypeOK, Label, Initializing, Locking, CondWaiting,
                 Signalling, Trying
  <2> QED BY <1>22, <2>4, <2>5, <2>6 DEF CondDoneMore, Types, TypeOK
<1>23. ASSUME NEW t \in Thread, SignalledLast(t) PROVE Types'
  <2>1. cond.sem \in Sem
    BY <1>23, Occupied DEF SignalledLast, Signalling
  <2>2. Restored(cond.sem) \in Seq(Sem)
    BY <2>1, Restoring
  <2> QED BY <1>23, <2>2 DEF SignalledLast, Goto, kVars, NoArg, Arg, Types, TypeOK, Label,
                             Initializing, Locking, CondWaiting, Signalling, Trying
<1>24. ASSUME NEW t \in Thread, SignalledMore(t) PROVE Types'
  <2>1. cond.sigspending \in Nat /\ arg[t].delta \in Nat
    BY DEF Types, TypeOK, Arg
  <2>2. cond.sigspending - arg[t].delta \in Nat
    BY <1>24, <2>1, Occupied DEF SignalledMore, Signalling
  <2>3. cond' \in [busy : BOOLEAN, waiters : Nat, sigspending : Nat,
                 sem : Sem \union {NoSem}]
    BY <1>24, <2>2 DEF SignalledMore, Types, TypeOK
  <2>4. arg' \in [Thread -> Arg]
    BY <1>24 DEF SignalledMore, NoArg, Arg, Types
  <2>5. pc' \in [Thread -> Label]
    BY <1>24 DEF SignalledMore, Goto, kVars, Types, TypeOK, Label, Initializing, Locking,
                 CondWaiting, Signalling, Trying
  <2> QED BY <1>24, <2>3, <2>4, <2>5 DEF SignalledMore, kVars, Types, TypeOK
<1>25. ASSUME NEW t \in Thread, NEW o \in SignalKind, CondAnnounce(t, o) PROVE Types'
  <2> DEFINE d == IF o = "broadcast" THEN cond.waiters - cond.sigspending ELSE 1
  <2>1. cond.waiters \in Nat /\ cond.sigspending \in Nat
    BY DEF Types, TypeOK
  <2>2. d \in Nat /\ cond.sigspending + d \in Nat
    BY <1>25, <2>1 DEF CondAnnounce
  <2>3. /\ cond' = [cond EXCEPT !.sigspending = cond.sigspending + d]
        /\ arg' = [arg EXCEPT ![t].delta = d]
    BY <1>25 DEF CondAnnounce
  <2> HIDE DEF d
  <2>4. cond' \in [busy : BOOLEAN, waiters : Nat, sigspending : Nat,
                 sem : Sem \union {NoSem}]
    BY <2>2, <2>3 DEF Types, TypeOK
  <2>5. arg' \in [Thread -> Arg]
    BY <2>2, <2>3 DEF Arg, Types
  <2>6. pc' \in [Thread -> Label]
    BY <1>25 DEF CondAnnounce, MaySignal, SignalKind, Goto, kVars, Types, TypeOK, Label,
                 Initializing, Locking, CondWaiting, Signalling, Trying
  <2> QED BY <1>25, <2>4, <2>5, <2>6 DEF CondAnnounce, kVars, Types, TypeOK
<1>26. ASSUME NEW t \in Thread, NEW G \in SUBSET Thread, CondWakes(t, G) PROVE Types'
  <2>1. pc' \in [Thread -> Label]
    BY <1>26 DEF CondWakes, SignalKind, Goto, pVars, Types, TypeOK, Label, Initializing,
                 Locking, CondWaiting, Signalling, Trying
  <2>2. waiters' \in [Sem -> SUBSET Thread]
    BY <1>26 DEF CondWakes, Types, TypeOK
  <2> QED BY <1>26, <2>1, <2>2 DEF CondWakes, pVars, Types, TypeOK
<1>27. ASSUME NEW t \in Thread, LosesPost(t) PROVE Types'
  <2>1. pc' \in [Thread -> Label] /\ holds' \in [Thread -> BOOLEAN]
    <3>1. {"out", "cond_blocked"} \subseteq Label
      BY DEF Label, CondWaiting
    <3>2. pc \in [Thread -> Label] /\ holds \in [Thread -> BOOLEAN]
      BY DEF Types, TypeOK
    <3> QED BY <1>27, <3>1, <3>2 DEF LosesPost, Releases, Goto
  <2> QED BY <1>27, <2>1 DEF LosesPost, kVars, Types, TypeOK
<1>28. ASSUME NEW t \in Thread, CondFinds(t) PROVE Types'
  <2>1. pc' \in [Thread -> Label]
    BY <1>28 DEF CondFinds, Goto, Types, TypeOK, Label, Initializing, Locking, CondWaiting,
                 Signalling, Trying
  <2>2. value' \in [Sem -> Nat]
    <3>1. cond.sem \in Sem
      BY <1>28, Occupied DEF CondFinds, CondWaiting
    <3>2. value[cond.sem] - 1 \in Nat
      BY <1>28, <3>1 DEF CondFinds, Types, TypeOK
    <3> QED BY <1>28, <3>2 DEF CondFinds, Types, TypeOK
  <2>3. arg' \in [Thread -> Arg]
    <3> DEFINE a == [arg[t] EXCEPT !.wait = cond.sem, !.signal = mutex.sem]
    <3>1. arg[t] \in Arg /\ {cond.sem, mutex.sem} \subseteq Sem \union {NoSem}
      BY DEF Types, TypeOK
    <3>2. a \in Arg
      BY <3>1 DEF Arg
    <3>3. arg' = [arg EXCEPT ![t] = a]
      BY <1>28 DEF CondFinds, Types
    <3> HIDE DEF a
    <3> QED BY <3>2, <3>3 DEF Types
  <2> QED BY <1>28, <2>1, <2>2, <2>3 DEF CondFinds, Types, TypeOK
<1>29. ASSUME NEW t \in Thread, MutexAborts(t) PROVE Types'
  <2>1. waiters' \in [Sem -> SUBSET Thread]
    BY <1>29 DEF MutexAborts, Types, TypeOK
  <2> QED BY <1>29, <2>1 DEF MutexAborts, pVars, Types, TypeOK
<1> QED
  BY <1>1, <1>2, <1>3, <1>4, <1>5, <1>6, <1>7, <1>8, <1>9, <1>10, <1>11, <1>12, <1>13, <1>14,
     <1>15, <1>16, <1>17, <1>18, <1>19, <1>20, <1>21, <1>22, <1>23, <1>24, <1>25, <1>26,
     <1>27, <1>28, <1>29, NextCases DEF Atoms


\* pthread_mutex_init of a static mutex still meets nobody in the library.
LEMMA StartingStep ==
  ASSUME Books, [Next]_vars PROVE Starting'
<1> USE DEF Books
<1>1. CASE UNCHANGED vars
  BY <1>1 DEF vars, kVars, Starting, Fresh, Types, TypeOK, Initializing
<1>2. ASSUME NEW t \in Thread, NEW o \in MutexOp, MutexCall(t, o) PROVE Starting'
  BY <1>2 DEF MutexCall, Goto, kVars, MutexOp, InitLabel, Starting, Fresh, Types, TypeOK,
              Initializing
<1>3. ASSUME NEW t \in Thread, NEW o \in MutexOp, InitSig(t, o) PROVE Starting'
  BY <1>3 DEF InitSig, Goto, kVars, MutexOp, InitLabel, FieldsLabel, Starting, Fresh, Types,
              TypeOK, Initializing
<1>4. ASSUME NEW t \in Thread, NEW o \in MutexOp, InitDone(t, o) PROVE Starting'
  <2>1. pc[t] \in Initializing /\ o \notin Initializing
    BY <1>4 DEF InitDone, Goto, kVars, pVars, MutexOp, FieldsLabel, Initializing
  <2>2. mutex.sig = "SIG"
    BY <1>4 DEF InitDone, Goto, kVars, pVars, MutexOp, FieldsLabel, Starting
  <2>3. mutex' = mutex /\ \A u \in Thread : pc'[u] = IF u = t THEN o ELSE "out"
    BY <1>4, <2>1 DEF InitDone, Goto, pVars, Starting, Types
  <2> QED BY <2>1, <2>2, <2>3 DEF Starting, Initializing
<1>5. ASSUME NEW t \in Thread, LockSlow(t) PROVE Starting'
  BY <1>5 DEF LockSlow, LockFree, Goto, kVars, Starting, Fresh, Types, TypeOK, Initializing
<1>6. ASSUME NEW t \in Thread, TakeFree(t) PROVE Starting'
  BY <1>6 DEF TakeFree, LockFree, Goto, kVars, Starting, Fresh, Types, TypeOK, Initializing
<1>7. ASSUME NEW t \in Thread, FindsPost(t) PROVE Starting'
  <2>1. /\ pc[t] \notin {"out"} \union Initializing /\ mutex' = mutex
        /\ \A u \in Thread : pc'[u] \in Initializing => pc'[u] = pc[u]
    BY <1>7 DEF FindsPost, Blocked, Goto, pVars, Types, Initializing
  <2> QED BY <2>1 DEF Starting, Initializing
<1>8. ASSUME NEW t \in Thread, FindsNoPost(t) PROVE Starting'
  <2>1. /\ pc[t] \notin {"out"} \union Initializing /\ mutex' = mutex
        /\ \A u \in Thread : pc'[u] \in Initializing => pc'[u] = pc[u]
    BY <1>8 DEF FindsNoPost, Blocked, Goto, pVars, Types, Initializing
  <2> QED BY <2>1 DEF Starting, Initializing
<1>9. ASSUME NEW t \in Thread, LockDoneLast(t) PROVE Starting'
  BY <1>9 DEF LockDoneLast, LockFree, Goto, Starting, Fresh, Types, TypeOK, Initializing
<1>10. ASSUME NEW t \in Thread, LockDoneMore(t) PROVE Starting'
  BY <1>10 DEF LockDoneMore, LockFree, Goto, Starting, Fresh, Types, TypeOK, Initializing
<1>11. ASSUME NEW t \in Thread, TryOwned(t) PROVE Starting'
  BY <1>11 DEF TryOwned, LockFree, Goto, kVars, Starting, Fresh, Types, TypeOK, Initializing
<1>12. ASSUME NEW t \in Thread, TryBusy(t) PROVE Starting'
  BY <1>12 DEF TryBusy, Goto, kVars, Starting, Fresh, Types, TypeOK, Initializing
<1>13. ASSUME NEW t \in Thread, TryDone(t) PROVE Starting'
  BY <1>13 DEF TryDone, Goto, K!Leave, Starting, Fresh, Types, TypeOK, Initializing
<1>14. ASSUME NEW t \in Thread, Unlock(t) PROVE Starting'
  BY <1>14 DEF Unlock, LockFree, Goto, kVars, Starting, Fresh, Types, TypeOK, Initializing
<1>15. ASSUME NEW t \in Thread, StoresPost(t) PROVE Starting'
  <2>1. /\ pc[t] \notin {"out"} \union Initializing /\ mutex' = mutex
        /\ \A u \in Thread : pc'[u] \in Initializing => pc'[u] = pc[u]
    BY <1>15 DEF StoresPost, Releases, Goto, Types, Initializing
  <2> QED BY <2>1 DEF Starting, Initializing
<1>16. ASSUME NEW t \in Thread, NEW w \in Thread, HandsTo(t, w) PROVE Starting'
  <2>1. /\ pc[t] \notin {"out"} \union Initializing /\ mutex' = mutex
        /\ \A u \in Thread : pc'[u] \in Initializing => pc'[u] = pc[u]
    BY <1>16 DEF HandsTo, Releases, Goto, Types, Initializing
  <2> QED BY <2>1 DEF Starting, Initializing
<1>17. ASSUME NEW t \in Thread, CondWaitFirst(t) PROVE Starting'
  BY <1>17 DEF CondWaitFirst, Goto, kVars, Starting, Fresh, Types, TypeOK, Initializing
<1>18. ASSUME NEW t \in Thread, CondWaitMore(t) PROVE Starting'
  BY <1>18 DEF CondWaitMore, Goto, kVars, Starting, Fresh, Types, TypeOK, Initializing
<1>19. ASSUME NEW t \in Thread, CondMutex(t) PROVE Starting'
  BY <1>19 DEF CondMutex, LockFree, Goto, kVars, Starting, Fresh, Types, TypeOK, Initializing
<1>20. ASSUME NEW t \in Thread, CondBlocks(t) PROVE Starting'
  BY <1>20 DEF CondBlocks, Goto, Starting, Fresh, Types, TypeOK, Initializing
<1>21. ASSUME NEW t \in Thread, CondDoneLast(t) PROVE Starting'
  BY <1>21 DEF CondDoneLast, Goto, Starting, Fresh, Types, TypeOK, Initializing
<1>22. ASSUME NEW t \in Thread, CondDoneMore(t) PROVE Starting'
  BY <1>22 DEF CondDoneMore, Goto, Starting, Fresh, Types, TypeOK, Initializing
<1>23. ASSUME NEW t \in Thread, SignalledLast(t) PROVE Starting'
  BY <1>23 DEF SignalledLast, Goto, kVars, Starting, Fresh, Types, TypeOK, Initializing
<1>24. ASSUME NEW t \in Thread, SignalledMore(t) PROVE Starting'
  BY <1>24 DEF SignalledMore, Goto, kVars, Starting, Fresh, Types, TypeOK, Initializing
<1>25. ASSUME NEW t \in Thread, NEW o \in SignalKind, CondAnnounce(t, o) PROVE Starting'
  <2>1. cond.waiters > 0
    BY <1>25 DEF CondAnnounce, Types, TypeOK
  <2>2. CondWaiters # {}
    <3>1. Cardinality(CondWaiters) # 0
      BY <2>1 DEF Counters
    <3> QED BY <3>1, FS_EmptySet
  <2>3. PICK u \in Thread : pc[u] \in CondWaiting
    BY <2>2 DEF CondWaiters
  <2>4. mutex.sig # "SIG_init" /\ \A v \in Thread : pc[v] \notin Initializing
    BY <2>3 DEF Starting, Initializing, CondWaiting
  <2> QED BY <1>25, <2>4 DEF CondAnnounce, MaySignal, SignalKind, Goto, kVars, Starting, Types,
                             TypeOK, Initializing
<1>26. ASSUME NEW t \in Thread, NEW G \in SUBSET Thread, CondWakes(t, G) PROVE Starting'
  <2>1. CASE UNCHANGED pc
    BY <1>26, <2>1 DEF CondWakes, pVars, Starting, Fresh
  <2>2. CASE pc[t] \in SignalKind /\ Goto(t, "signalled")
    <3>1. /\ pc[t] \notin {"out"} \union Initializing /\ mutex' = mutex
          /\ \A u \in Thread : pc'[u] \in Initializing => pc'[u] = pc[u]
      BY <1>26, <2>2 DEF CondWakes, SignalKind, Goto, pVars, Types, Initializing
    <3> QED BY <3>1 DEF Starting, Initializing
  <2> QED BY <1>26, <2>1, <2>2 DEF CondWakes
<1>27. ASSUME NEW t \in Thread, LosesPost(t) PROVE Starting'
  <2>1. /\ pc[t] \notin {"out"} \union Initializing /\ mutex' = mutex
        /\ \A u \in Thread : pc'[u] \in Initializing => pc'[u] = pc[u]
    BY <1>27 DEF LosesPost, Releases, Goto, Types, Initializing
  <2> QED BY <2>1 DEF Starting, Initializing
<1>28. ASSUME NEW t \in Thread, CondFinds(t) PROVE Starting'
  BY <1>28 DEF CondFinds, Goto, Starting, Fresh, Types, TypeOK, Initializing
<1>29. ASSUME NEW t \in Thread, MutexAborts(t) PROVE Starting'
  BY <1>29 DEF MutexAborts, pVars, Starting, Fresh
<1> QED
  BY <1>1, <1>2, <1>3, <1>4, <1>5, <1>6, <1>7, <1>8, <1>9, <1>10, <1>11, <1>12, <1>13, <1>14,
     <1>15, <1>16, <1>17, <1>18, <1>19, <1>20, <1>21, <1>22, <1>23, <1>24, <1>25, <1>26,
     <1>27, <1>28, <1>29, NextCases DEF Atoms

\* What the move of one thread does to the counted sets
LEMMA Moves ==
  ASSUME Books, NEW t \in Thread, NEW l, pc' = [pc EXCEPT ![t] = l]
  PROVE  /\ (l \in Locking <=> pc[t] \in Locking) => Cardinality(Lockers') = mutex.waiters
         /\ l \in Locking /\ pc[t] \notin Locking => Cardinality(Lockers') = mutex.waiters + 1
         /\ l \notin Locking /\ pc[t] \in Locking => Cardinality(Lockers') = mutex.waiters - 1
         /\ (l \in CondWaiting <=> pc[t] \in CondWaiting) =>
              Cardinality(CondWaiters') = cond.waiters
         /\ l \in CondWaiting /\ pc[t] \notin CondWaiting =>
              Cardinality(CondWaiters') = cond.waiters + 1
         /\ l \notin CondWaiting /\ pc[t] \in CondWaiting =>
              Cardinality(CondWaiters') = cond.waiters - 1
<1>1. \A u \in Thread : pc'[u] = IF u = t THEN l ELSE pc[u]
  BY DEF Books, Types
<1>2. mutex.waiters = Cardinality(Lockers) /\ cond.waiters = Cardinality(CondWaiters)
  BY DEF Books, Counters
<1>3. (l \in Locking <=> pc[t] \in Locking) => Cardinality(Lockers') = mutex.waiters
  <2> HAVE l \in Locking <=> pc[t] \in Locking
  <2>1. Lockers' = Lockers
    BY <1>1 DEF Lockers
  <2> QED BY <1>2, <2>1
<1>4. l \in Locking /\ pc[t] \notin Locking => Cardinality(Lockers') = mutex.waiters + 1
  <2> HAVE l \in Locking /\ pc[t] \notin Locking
  <2>1. Lockers' = Lockers \union {t} /\ t \notin Lockers
    BY <1>1 DEF Lockers
  <2>2. Cardinality(Lockers \union {t}) = Cardinality(Lockers) + 1
    BY <2>1, CountedFinite, FS_AddElement
  <2> QED BY <1>2, <2>1, <2>2
<1>5. l \notin Locking /\ pc[t] \in Locking => Cardinality(Lockers') = mutex.waiters - 1
  <2> HAVE l \notin Locking /\ pc[t] \in Locking
  <2>1. Lockers' = Lockers \ {t} /\ t \in Lockers
    BY <1>1 DEF Lockers
  <2>2. Cardinality(Lockers \ {t}) = Cardinality(Lockers) - 1
    BY <2>1, CountedFinite, FS_RemoveElement
  <2> QED BY <1>2, <2>1, <2>2
<1>6. (l \in CondWaiting <=> pc[t] \in CondWaiting) => Cardinality(CondWaiters') = cond.waiters
  <2> HAVE l \in CondWaiting <=> pc[t] \in CondWaiting
  <2>1. CondWaiters' = CondWaiters
    BY <1>1 DEF CondWaiters
  <2> QED BY <1>2, <2>1
<1>7. l \in CondWaiting /\ pc[t] \notin CondWaiting => Cardinality(CondWaiters') = cond.waiters + 1
  <2> HAVE l \in CondWaiting /\ pc[t] \notin CondWaiting
  <2>1. CondWaiters' = CondWaiters \union {t} /\ t \notin CondWaiters
    BY <1>1 DEF CondWaiters
  <2>2. Cardinality(CondWaiters \union {t}) = Cardinality(CondWaiters) + 1
    BY <2>1, CountedFinite, FS_AddElement
  <2> QED BY <1>2, <2>1, <2>2
<1>8. l \notin CondWaiting /\ pc[t] \in CondWaiting => Cardinality(CondWaiters') = cond.waiters - 1
  <2> HAVE l \notin CondWaiting /\ pc[t] \in CondWaiting
  <2>1. CondWaiters' = CondWaiters \ {t} /\ t \in CondWaiters
    BY <1>1 DEF CondWaiters
  <2>2. Cardinality(CondWaiters \ {t}) = Cardinality(CondWaiters) - 1
    BY <2>1, CountedFinite, FS_RemoveElement
  <2> QED BY <1>2, <2>1, <2>2
<1> QED BY <1>3, <1>4, <1>5, <1>6, <1>7, <1>8

\* While the announcements stay, so does their number.
LEMMA SameDeltas ==
  ASSUME Books, \A u \in Thread : arg'[u].delta = arg[u].delta
  PROVE  Cardinality(Announced') = cond.sigspending
<1>1. Announced' = Announced
  BY DEF Announced
<1> QED BY <1>1 DEF Books, Counters

\* A signaller announces d wake-ups ...
LEMMA Announces ==
  ASSUME Books, NEW t \in Thread, NEW d \in 1 .. Cardinality(Thread),
         arg[t].delta = 0, arg'[t].delta = d,
         \A u \in Thread \ {t} : arg'[u].delta = arg[u].delta
  PROVE  Cardinality(Announced') = cond.sigspending + d
<1> DEFINE R == {t} \X (1 .. d)
           A == Announced'
<1>1. Cardinality(Thread) \in Nat /\ d \in Nat
  BY PthreadAssumption, FS_CardinalityType
<1>2. A = Announced \union R
  BY <1>1 DEF Announced, Books, Types, Arg
<1>3. Announced \intersect R = {}
  BY <1>1 DEF Announced
<1>4. IsFiniteSet(R) /\ Cardinality(R) = d
  BY <1>1, RowCount
<1>5. Cardinality(Announced) = cond.sigspending
  BY DEF Books, Counters
<1> HIDE DEF A, R
<1>6. Cardinality(A) = cond.sigspending + d
  BY <1>2, <1>3, <1>4, <1>5, DisjointCount, CountedFinite
<1> QED BY <1>6 DEF A

\* ... and withdraws them.
LEMMA Withdraws ==
  ASSUME Books, NEW t \in Thread, pc[t] \in Signalling, arg'[t].delta = 0,
         \A u \in Thread \ {t} : arg'[u].delta = arg[u].delta
  PROVE  Cardinality(Announced') = cond.sigspending - arg[t].delta
<1> DEFINE d == arg[t].delta
           R == {t} \X (1 .. d)
           A == Announced
           B == Announced'
<1>1. Cardinality(Thread) \in Nat /\ d \in 1 .. Cardinality(Thread) /\ d \in Nat
  BY PthreadAssumption, FS_CardinalityType DEF Books, Counters
<1>2. A = B \union R
  BY <1>1 DEF Announced, Books, Types, Arg
<1>3. B \intersect R = {}
  BY <1>1 DEF Announced
<1>4. IsFiniteSet(A) /\ Cardinality(A) = cond.sigspending
  BY CountedFinite DEF Books, Counters
<1>5. IsFiniteSet(R) /\ Cardinality(R) = d
  BY <1>1, RowCount
<1> HIDE DEF A, B, R, d
<1>6. IsFiniteSet(B) /\ Cardinality(B) \in Nat
  BY <1>2, <1>4, FS_Subset, FS_CardinalityType
<1>7. Cardinality(A) = Cardinality(B) + d
  BY <1>2, <1>3, <1>5, <1>6, DisjointCount
<1>8. Cardinality(B) = cond.sigspending - d
  BY <1>1, <1>4, <1>6, <1>7
<1> QED BY <1>8 DEF B, d

\* A move between places that no counter tells apart
LEMMA CountersKept ==
  ASSUME Books, NEW t \in Thread, NEW m, pc' = [pc EXCEPT ![t] = m],
         m \in Locking <=> pc[t] \in Locking,
         m \in CondWaiting <=> pc[t] \in CondWaiting,
         m \in Signalling <=> pc[t] \in Signalling,
         mutex'.waiters = mutex.waiters, cond'.waiters = cond.waiters,
         cond'.sigspending = cond.sigspending,
         \A u \in Thread : arg'[u].delta = arg[u].delta
  PROVE  Counters'
<1>1. /\ mutex'.waiters = Cardinality(Lockers')
      /\ cond'.waiters = Cardinality(CondWaiters')
  BY Moves
<1>2. cond'.sigspending = Cardinality(Announced')
  BY SameDeltas
<1>3. \A u \in Thread : pc'[u] \in Signalling <=> pc[u] \in Signalling
  BY DEF Books, Types
<1> QED BY <1>1, <1>2, <1>3 DEF Books, Counters

\* Every step keeps the counters exact.
LEMMA CountersStep ==
  ASSUME Books, [Next]_vars PROVE Counters'
<1> USE DEF Books
<1>1. CASE UNCHANGED vars
  <2>1. Lockers' = Lockers /\ CondWaiters' = CondWaiters /\ Announced' = Announced
    BY <1>1 DEF vars, Lockers, CondWaiters, Announced
  <2> QED BY <1>1, <2>1 DEF vars, Counters
<1>2. ASSUME NEW t \in Thread, NEW o \in MutexOp, MutexCall(t, o) PROVE Counters'
  <2> DEFINE m == IF mutex.sig = "SIG_init" THEN InitLabel[o] ELSE o
  <2>1. /\ pc' = [pc EXCEPT ![t] = m] /\ (m \in Locking <=> pc[t] \in Locking)
        /\ (m \in CondWaiting <=> pc[t] \in CondWaiting)
        /\ (m \in Signalling <=> pc[t] \in Signalling)
    BY <1>2 DEF MutexCall, Goto, kVars, MutexOp, InitLabel, Locking, CondWaiting, Signalling
  <2>2. /\ mutex'.waiters = mutex.waiters /\ cond' = cond
        /\ \A u \in Thread : arg'[u].delta = arg[u].delta
    BY <1>2 DEF MutexCall, Goto, kVars, MutexOp, InitLabel, Types, TypeOK, Arg
  <2> HIDE DEF m
  <2> QED BY <2>1, <2>2, CountersKept
<1>3. ASSUME NEW t \in Thread, NEW o \in MutexOp, InitSig(t, o) PROVE Counters'
  <2> DEFINE m == FieldsLabel[o]
  <2>1. /\ pc' = [pc EXCEPT ![t] = m] /\ (m \in Locking <=> pc[t] \in Locking)
        /\ (m \in CondWaiting <=> pc[t] \in CondWaiting)
        /\ (m \in Signalling <=> pc[t] \in Signalling)
    BY <1>3 DEF InitSig, Goto, kVars, MutexOp, InitLabel, FieldsLabel, Locking, CondWaiting,
                Signalling
  <2>2. /\ mutex'.waiters = mutex.waiters /\ cond' = cond
        /\ \A u \in Thread : arg'[u].delta = arg[u].delta
    BY <1>3 DEF InitSig, Goto, kVars, MutexOp, InitLabel, FieldsLabel, Types, TypeOK, Arg
  <2> HIDE DEF m
  <2> QED BY <2>1, <2>2, CountersKept
<1>4. ASSUME NEW t \in Thread, NEW o \in MutexOp, InitDone(t, o) PROVE Counters'
  <2> DEFINE m == o
  <2>1. /\ pc' = [pc EXCEPT ![t] = m] /\ (m \in Locking <=> pc[t] \in Locking)
        /\ (m \in CondWaiting <=> pc[t] \in CondWaiting)
        /\ (m \in Signalling <=> pc[t] \in Signalling)
    BY <1>4 DEF InitDone, Goto, kVars, pVars, MutexOp, FieldsLabel, Locking, CondWaiting,
                Signalling
  <2>2. /\ mutex'.waiters = mutex.waiters /\ cond' = cond
        /\ \A u \in Thread : arg'[u].delta = arg[u].delta
    BY <1>4 DEF InitDone, Goto, kVars, pVars, MutexOp, FieldsLabel, Types, TypeOK, Arg
  <2> HIDE DEF m
  <2> QED BY <2>1, <2>2, CountersKept
<1>5. ASSUME NEW t \in Thread, LockSlow(t) PROVE Counters'
  <2> DEFINE m == "lock_wait"
  <2>1. pc' = [pc EXCEPT ![t] = m]
    BY <1>5 DEF LockSlow, LockFree, Goto, kVars
  <2>2. m \in Locking /\ pc[t] \notin Locking /\ (m \in CondWaiting <=> pc[t] \in CondWaiting)
    BY <1>5 DEF LockSlow, LockFree, Goto, kVars, Initializing, Locking, CondWaiting, Signalling,
                Trying
  <2> HIDE DEF m
  <2>3. /\ Cardinality(Lockers') = mutex.waiters + 1
        /\ Cardinality(CondWaiters') = cond.waiters
    BY <2>1, <2>2, Moves
  <2>4. mutex'.waiters = mutex.waiters + 1 /\ cond'.waiters = cond.waiters
    BY <1>5 DEF LockSlow, LockFree, Goto, kVars, Types, TypeOK
  <2>5. \A u \in Thread : arg'[u].delta = arg[u].delta
    BY <1>5 DEF LockSlow, LockFree, Goto, kVars, Types, Arg
  <2>6. cond'.sigspending = Cardinality(Announced')
    BY <1>5, <2>5, SameDeltas DEF LockSlow, LockFree, Goto, kVars, Types, TypeOK
  <2>7. \A u \in Thread : pc'[u] \in Signalling <=> pc[u] \in Signalling
    BY <1>5 DEF LockSlow, LockFree, Goto, kVars, Types, Initializing, Locking, CondWaiting,
                Signalling, Trying
  <2> QED BY <2>3, <2>4, <2>5, <2>6, <2>7 DEF Counters
<1>6. ASSUME NEW t \in Thread, TakeFree(t) PROVE Counters'
  <2> DEFINE m == "held"
  <2>1. /\ pc' = [pc EXCEPT ![t] = m] /\ (m \in Locking <=> pc[t] \in Locking)
        /\ (m \in CondWaiting <=> pc[t] \in CondWaiting)
        /\ (m \in Signalling <=> pc[t] \in Signalling)
    BY <1>6 DEF TakeFree, LockFree, Goto, kVars, Locking, CondWaiting, Signalling
  <2>2. /\ mutex'.waiters = mutex.waiters /\ cond' = cond
        /\ \A u \in Thread : arg'[u].delta = arg[u].delta
    BY <1>6 DEF TakeFree, LockFree, Goto, kVars, Types, TypeOK, Arg
  <2> HIDE DEF m
  <2> QED BY <2>1, <2>2, CountersKept
<1>7. ASSUME NEW t \in Thread, FindsPost(t) PROVE Counters'
  <2> DEFINE m == IF pc[t] = "lock_wait" THEN "lock_blocked" ELSE "try_blocked"
  <2>1. /\ pc' = [pc EXCEPT ![t] = m] /\ (m \in Locking <=> pc[t] \in Locking)
        /\ (m \in CondWaiting <=> pc[t] \in CondWaiting)
        /\ (m \in Signalling <=> pc[t] \in Signalling)
    BY <1>7 DEF FindsPost, Blocked, Goto, pVars, Locking, CondWaiting, Signalling
  <2>2. /\ mutex'.waiters = mutex.waiters /\ cond' = cond
        /\ \A u \in Thread : arg'[u].delta = arg[u].delta
    BY <1>7 DEF FindsPost, Blocked, Goto, pVars, Types, TypeOK, Arg
  <2> HIDE DEF m
  <2> QED BY <2>1, <2>2, CountersKept
<1>8. ASSUME NEW t \in Thread, FindsNoPost(t) PROVE Counters'
  <2> DEFINE m == IF pc[t] = "lock_wait" THEN "lock_blocked" ELSE "try_blocked"
  <2>1. /\ pc' = [pc EXCEPT ![t] = m] /\ (m \in Locking <=> pc[t] \in Locking)
        /\ (m \in CondWaiting <=> pc[t] \in CondWaiting)
        /\ (m \in Signalling <=> pc[t] \in Signalling)
    BY <1>8 DEF FindsNoPost, Blocked, Goto, pVars, Locking, CondWaiting, Signalling
  <2>2. /\ mutex'.waiters = mutex.waiters /\ cond' = cond
        /\ \A u \in Thread : arg'[u].delta = arg[u].delta
    BY <1>8 DEF FindsNoPost, Blocked, Goto, pVars, Types, TypeOK, Arg
  <2> HIDE DEF m
  <2> QED BY <2>1, <2>2, CountersKept
<1>9. ASSUME NEW t \in Thread, LockDoneLast(t) PROVE Counters'
  <2> DEFINE m == "held"
  <2>1. pc' = [pc EXCEPT ![t] = m]
    BY <1>9 DEF LockDoneLast, LockFree, Goto
  <2>2. m \notin Locking /\ pc[t] \in Locking /\ (m \in CondWaiting <=> pc[t] \in CondWaiting)
    BY <1>9 DEF LockDoneLast, LockFree, Goto, Initializing, Locking, CondWaiting, Signalling,
                Trying
  <2> HIDE DEF m
  <2>3. /\ Cardinality(Lockers') = mutex.waiters - 1
        /\ Cardinality(CondWaiters') = cond.waiters
    BY <2>1, <2>2, Moves
  <2>4. mutex'.waiters = mutex.waiters - 1 /\ cond'.waiters = cond.waiters
    BY <1>9 DEF LockDoneLast, LockFree, Goto, Types, TypeOK
  <2>5. \A u \in Thread : arg'[u].delta = arg[u].delta
    BY <1>9 DEF LockDoneLast, LockFree, Goto, Types, Arg
  <2>6. cond'.sigspending = Cardinality(Announced')
    BY <1>9, <2>5, SameDeltas DEF LockDoneLast, LockFree, Goto, Types, TypeOK
  <2>7. \A u \in Thread : pc'[u] \in Signalling <=> pc[u] \in Signalling
    BY <1>9 DEF LockDoneLast, LockFree, Goto, Types, Initializing, Locking, CondWaiting,
                Signalling, Trying
  <2> QED BY <2>3, <2>4, <2>5, <2>6, <2>7 DEF Counters
<1>10. ASSUME NEW t \in Thread, LockDoneMore(t) PROVE Counters'
  <2> DEFINE m == "held"
  <2>1. pc' = [pc EXCEPT ![t] = m]
    BY <1>10 DEF LockDoneMore, LockFree, Goto
  <2>2. m \notin Locking /\ pc[t] \in Locking /\ (m \in CondWaiting <=> pc[t] \in CondWaiting)
    BY <1>10 DEF LockDoneMore, LockFree, Goto, Initializing, Locking, CondWaiting, Signalling,
                 Trying
  <2> HIDE DEF m
  <2>3. /\ Cardinality(Lockers') = mutex.waiters - 1
        /\ Cardinality(CondWaiters') = cond.waiters
    BY <2>1, <2>2, Moves
  <2>4. mutex'.waiters = mutex.waiters - 1 /\ cond'.waiters = cond.waiters
    BY <1>10 DEF LockDoneMore, LockFree, Goto, Types, TypeOK
  <2>5. \A u \in Thread : arg'[u].delta = arg[u].delta
    BY <1>10 DEF LockDoneMore, LockFree, Goto, Types, Arg
  <2>6. cond'.sigspending = Cardinality(Announced')
    BY <1>10, <2>5, SameDeltas DEF LockDoneMore, LockFree, Goto, Types, TypeOK
  <2>7. \A u \in Thread : pc'[u] \in Signalling <=> pc[u] \in Signalling
    BY <1>10 DEF LockDoneMore, LockFree, Goto, Types, Initializing, Locking, CondWaiting,
                 Signalling, Trying
  <2> QED BY <2>3, <2>4, <2>5, <2>6, <2>7 DEF Counters
<1>11. ASSUME NEW t \in Thread, TryOwned(t) PROVE Counters'
  <2> DEFINE m == "try_wait"
  <2>1. /\ pc' = [pc EXCEPT ![t] = m] /\ (m \in Locking <=> pc[t] \in Locking)
        /\ (m \in CondWaiting <=> pc[t] \in CondWaiting)
        /\ (m \in Signalling <=> pc[t] \in Signalling)
    BY <1>11 DEF TryOwned, LockFree, Goto, kVars, Locking, CondWaiting, Signalling
  <2>2. /\ mutex'.waiters = mutex.waiters /\ cond' = cond
        /\ \A u \in Thread : arg'[u].delta = arg[u].delta
    BY <1>11 DEF TryOwned, LockFree, Goto, kVars, Types, TypeOK, Arg
  <2> HIDE DEF m
  <2> QED BY <2>1, <2>2, CountersKept
<1>12. ASSUME NEW t \in Thread, TryBusy(t) PROVE Counters'
  <2> DEFINE m == "out"
  <2>1. /\ pc' = [pc EXCEPT ![t] = m] /\ (m \in Locking <=> pc[t] \in Locking)
        /\ (m \in CondWaiting <=> pc[t] \in CondWaiting)
        /\ (m \in Signalling <=> pc[t] \in Signalling)
    BY <1>12 DEF TryBusy, Goto, kVars, Locking, CondWaiting, Signalling
  <2>2. /\ mutex'.waiters = mutex.waiters /\ cond' = cond
        /\ \A u \in Thread : arg'[u].delta = arg[u].delta
    BY <1>12 DEF TryBusy, Goto, kVars, Types, TypeOK, Arg
  <2> HIDE DEF m
  <2> QED BY <2>1, <2>2, CountersKept
<1>13. ASSUME NEW t \in Thread, TryDone(t) PROVE Counters'
  <2> DEFINE m == "held"
  <2>1. /\ pc' = [pc EXCEPT ![t] = m] /\ (m \in Locking <=> pc[t] \in Locking)
        /\ (m \in CondWaiting <=> pc[t] \in CondWaiting)
        /\ (m \in Signalling <=> pc[t] \in Signalling)
    BY <1>13 DEF TryDone, Goto, K!Leave, Locking, CondWaiting, Signalling
  <2>2. /\ mutex'.waiters = mutex.waiters /\ cond' = cond
        /\ \A u \in Thread : arg'[u].delta = arg[u].delta
    BY <1>13 DEF TryDone, Goto, K!Leave, Types, TypeOK, Arg
  <2> HIDE DEF m
  <2> QED BY <2>1, <2>2, CountersKept
<1>14. ASSUME NEW t \in Thread, Unlock(t) PROVE Counters'
  <2> DEFINE m == IF mutex.waiters > 0 THEN "unlock_signal" ELSE "out"
  <2>1. /\ pc' = [pc EXCEPT ![t] = m] /\ (m \in Locking <=> pc[t] \in Locking)
        /\ (m \in CondWaiting <=> pc[t] \in CondWaiting)
        /\ (m \in Signalling <=> pc[t] \in Signalling)
    BY <1>14 DEF Unlock, LockFree, Goto, kVars, Locking, CondWaiting, Signalling
  <2>2. /\ mutex'.waiters = mutex.waiters /\ cond' = cond
        /\ \A u \in Thread : arg'[u].delta = arg[u].delta
    BY <1>14 DEF Unlock, LockFree, Goto, kVars, Types, TypeOK, Arg
  <2> HIDE DEF m
  <2> QED BY <2>1, <2>2, CountersKept
<1>15. ASSUME NEW t \in Thread, StoresPost(t) PROVE Counters'
  <2> DEFINE m == IF pc[t] = "unlock_signal" THEN "out" ELSE "cond_blocked"
  <2>1. /\ pc' = [pc EXCEPT ![t] = m] /\ (m \in Locking <=> pc[t] \in Locking)
        /\ (m \in CondWaiting <=> pc[t] \in CondWaiting)
        /\ (m \in Signalling <=> pc[t] \in Signalling)
    BY <1>15 DEF StoresPost, Releases, Goto, Locking, CondWaiting, Signalling
  <2>2. /\ mutex'.waiters = mutex.waiters /\ cond' = cond
        /\ \A u \in Thread : arg'[u].delta = arg[u].delta
    BY <1>15 DEF StoresPost, Releases, Goto, Types, TypeOK, Arg
  <2> HIDE DEF m
  <2> QED BY <2>1, <2>2, CountersKept
<1>16. ASSUME NEW t \in Thread, NEW w \in Thread, HandsTo(t, w) PROVE Counters'
  <2> DEFINE m == IF pc[t] = "unlock_signal" THEN "out" ELSE "cond_blocked"
  <2>1. /\ pc' = [pc EXCEPT ![t] = m] /\ (m \in Locking <=> pc[t] \in Locking)
        /\ (m \in CondWaiting <=> pc[t] \in CondWaiting)
        /\ (m \in Signalling <=> pc[t] \in Signalling)
    BY <1>16 DEF HandsTo, Releases, Goto, Locking, CondWaiting, Signalling
  <2>2. /\ mutex'.waiters = mutex.waiters /\ cond' = cond
        /\ \A u \in Thread : arg'[u].delta = arg[u].delta
    BY <1>16 DEF HandsTo, Releases, Goto, Types, TypeOK, Arg
  <2> HIDE DEF m
  <2> QED BY <2>1, <2>2, CountersKept
<1>17. ASSUME NEW t \in Thread, CondWaitFirst(t) PROVE Counters'
  <2> DEFINE m == "cond_mutex"
  <2>1. pc' = [pc EXCEPT ![t] = m]
    BY <1>17 DEF CondWaitFirst, Goto, kVars
  <2>2. (m \in Locking <=> pc[t] \in Locking) /\ m \in CondWaiting /\ pc[t] \notin CondWaiting
    BY <1>17 DEF CondWaitFirst, Goto, kVars, Initializing, Locking, CondWaiting, Signalling,
                 Trying
  <2> HIDE DEF m
  <2>3. /\ Cardinality(Lockers') = mutex.waiters
        /\ Cardinality(CondWaiters') = cond.waiters + 1
    BY <2>1, <2>2, Moves
  <2>4. mutex'.waiters = mutex.waiters /\ cond'.waiters = cond.waiters + 1
    BY <1>17 DEF CondWaitFirst, Goto, kVars, Types, TypeOK
  <2>5. \A u \in Thread : arg'[u].delta = arg[u].delta
    BY <1>17 DEF CondWaitFirst, Goto, kVars, Types, Arg
  <2>6. cond'.sigspending = Cardinality(Announced')
    BY <1>17, <2>5, SameDeltas DEF CondWaitFirst, Goto, kVars, Types, TypeOK
  <2>7. \A u \in Thread : pc'[u] \in Signalling <=> pc[u] \in Signalling
    BY <1>17 DEF CondWaitFirst, Goto, kVars, Types, Initializing, Locking, CondWaiting,
                 Signalling, Trying
  <2> QED BY <2>3, <2>4, <2>5, <2>6, <2>7 DEF Counters
<1>18. ASSUME NEW t \in Thread, CondWaitMore(t) PROVE Counters'
  <2> DEFINE m == "cond_mutex"
  <2>1. pc' = [pc EXCEPT ![t] = m]
    BY <1>18 DEF CondWaitMore, Goto, kVars
  <2>2. (m \in Locking <=> pc[t] \in Locking) /\ m \in CondWaiting /\ pc[t] \notin CondWaiting
    BY <1>18 DEF CondWaitMore, Goto, kVars, Initializing, Locking, CondWaiting, Signalling,
                 Trying
  <2> HIDE DEF m
  <2>3. /\ Cardinality(Lockers') = mutex.waiters
        /\ Cardinality(CondWaiters') = cond.waiters + 1
    BY <2>1, <2>2, Moves
  <2>4. mutex'.waiters = mutex.waiters /\ cond'.waiters = cond.waiters + 1
    BY <1>18 DEF CondWaitMore, Goto, kVars, Types, TypeOK
  <2>5. \A u \in Thread : arg'[u].delta = arg[u].delta
    BY <1>18 DEF CondWaitMore, Goto, kVars, Types, Arg
  <2>6. cond'.sigspending = Cardinality(Announced')
    BY <1>18, <2>5, SameDeltas DEF CondWaitMore, Goto, kVars, Types, TypeOK
  <2>7. \A u \in Thread : pc'[u] \in Signalling <=> pc[u] \in Signalling
    BY <1>18 DEF CondWaitMore, Goto, kVars, Types, Initializing, Locking, CondWaiting,
                 Signalling, Trying
  <2> QED BY <2>3, <2>4, <2>5, <2>6, <2>7 DEF Counters
<1>19. ASSUME NEW t \in Thread, CondMutex(t) PROVE Counters'
  <2> DEFINE m == "cond_wait"
  <2>1. /\ pc' = [pc EXCEPT ![t] = m] /\ (m \in Locking <=> pc[t] \in Locking)
        /\ (m \in CondWaiting <=> pc[t] \in CondWaiting)
        /\ (m \in Signalling <=> pc[t] \in Signalling)
    BY <1>19 DEF CondMutex, LockFree, Goto, kVars, Locking, CondWaiting, Signalling
  <2>2. /\ mutex'.waiters = mutex.waiters /\ cond' = cond
        /\ \A u \in Thread : arg'[u].delta = arg[u].delta
    BY <1>19 DEF CondMutex, LockFree, Goto, kVars, Types, TypeOK, Arg
  <2> HIDE DEF m
  <2> QED BY <2>1, <2>2, CountersKept
<1>20. ASSUME NEW t \in Thread, CondBlocks(t) PROVE Counters'
  <2> DEFINE m == "cond_signal"
  <2>1. /\ pc' = [pc EXCEPT ![t] = m] /\ (m \in Locking <=> pc[t] \in Locking)
        /\ (m \in CondWaiting <=> pc[t] \in CondWaiting)
        /\ (m \in Signalling <=> pc[t] \in Signalling)
    BY <1>20 DEF CondBlocks, Goto, Locking, CondWaiting, Signalling
  <2>2. /\ mutex'.waiters = mutex.waiters /\ cond' = cond
        /\ \A u \in Thread : arg'[u].delta = arg[u].delta
    BY <1>20 DEF CondBlocks, Goto, Types, TypeOK, Arg
  <2> HIDE DEF m
  <2> QED BY <2>1, <2>2, CountersKept
<1>21. ASSUME NEW t \in Thread, CondDoneLast(t) PROVE Counters'
  <2> DEFINE m == "lock"
  <2>1. pc' = [pc EXCEPT ![t] = m]
    BY <1>21 DEF CondDoneLast, Goto
  <2>2. (m \in Locking <=> pc[t] \in Locking) /\ m \notin CondWaiting /\ pc[t] \in CondWaiting
    BY <1>21 DEF CondDoneLast, Goto, Initializing, Locking, CondWaiting, Signalling, Trying
  <2> HIDE DEF m
  <2>3. /\ Cardinality(Lockers') = mutex.waiters
        /\ Cardinality(CondWaiters') = cond.waiters - 1
    BY <2>1, <2>2, Moves
  <2>4. mutex'.waiters = mutex.waiters /\ cond'.waiters = cond.waiters - 1
    BY <1>21 DEF CondDoneLast, Goto, Types, TypeOK
  <2>5. arg[t].delta = 0
    BY <1>21 DEF CondDoneLast, Goto, Counters, Initializing, Locking, CondWaiting, Signalling,
                 Trying
  <2>6. \A u \in Thread : arg'[u].delta = arg[u].delta
    BY <1>21, <2>5 DEF CondDoneLast, Goto, Types, Arg, NoArg
  <2>7. cond'.sigspending = Cardinality(Announced')
    BY <1>21, <2>6, SameDeltas DEF CondDoneLast, Goto, Types, TypeOK
  <2>8. \A u \in Thread : pc'[u] \in Signalling <=> pc[u] \in Signalling
    BY <1>21 DEF CondDoneLast, Goto, Types, Initializing, Locking, CondWaiting, Signalling,
                 Trying
  <2> QED BY <2>3, <2>4, <2>6, <2>7, <2>8 DEF Counters
<1>22. ASSUME NEW t \in Thread, CondDoneMore(t) PROVE Counters'
  <2> DEFINE m == "lock"
  <2>1. pc' = [pc EXCEPT ![t] = m]
    BY <1>22 DEF CondDoneMore, Goto
  <2>2. (m \in Locking <=> pc[t] \in Locking) /\ m \notin CondWaiting /\ pc[t] \in CondWaiting
    BY <1>22 DEF CondDoneMore, Goto, Initializing, Locking, CondWaiting, Signalling, Trying
  <2> HIDE DEF m
  <2>3. /\ Cardinality(Lockers') = mutex.waiters
        /\ Cardinality(CondWaiters') = cond.waiters - 1
    BY <2>1, <2>2, Moves
  <2>4. mutex'.waiters = mutex.waiters /\ cond'.waiters = cond.waiters - 1
    BY <1>22 DEF CondDoneMore, Goto, Types, TypeOK
  <2>5. arg[t].delta = 0
    BY <1>22 DEF CondDoneMore, Goto, Counters, Initializing, Locking, CondWaiting, Signalling,
                 Trying
  <2>6. \A u \in Thread : arg'[u].delta = arg[u].delta
    BY <1>22, <2>5 DEF CondDoneMore, Goto, Types, Arg, NoArg
  <2>7. cond'.sigspending = Cardinality(Announced')
    BY <1>22, <2>6, SameDeltas DEF CondDoneMore, Goto, Types, TypeOK
  <2>8. \A u \in Thread : pc'[u] \in Signalling <=> pc[u] \in Signalling
    BY <1>22 DEF CondDoneMore, Goto, Types, Initializing, Locking, CondWaiting, Signalling,
                 Trying
  <2> QED BY <2>3, <2>4, <2>6, <2>7, <2>8 DEF Counters
<1>23. ASSUME NEW t \in Thread, SignalledLast(t) PROVE Counters'
  <2> DEFINE m == IF holds[t] THEN "held" ELSE "out"
  <2>1. pc' = [pc EXCEPT ![t] = m]
    BY <1>23 DEF SignalledLast, Goto, kVars
  <2>2. (m \in Locking <=> pc[t] \in Locking) /\ (m \in CondWaiting <=> pc[t] \in CondWaiting)
    BY <1>23 DEF SignalledLast, Goto, kVars, Initializing, Locking, CondWaiting, Signalling,
                 Trying
  <2> HIDE DEF m
  <2>3. /\ Cardinality(Lockers') = mutex.waiters
        /\ Cardinality(CondWaiters') = cond.waiters
    BY <2>1, <2>2, Moves
  <2>4. mutex'.waiters = mutex.waiters /\ cond'.waiters = cond.waiters
    BY <1>23 DEF SignalledLast, Goto, kVars, Types, TypeOK
  <2>5. cond'.sigspending = cond.sigspending - arg[t].delta
    BY <1>23 DEF SignalledLast, Goto, kVars, Types, TypeOK, Arg
  <2>6. /\ \A u \in Thread \ {t} : arg'[u].delta = arg[u].delta
        /\ arg'[t].delta = 0
    BY <1>23 DEF SignalledLast, Goto, kVars, Types, Arg, NoArg
  <2>7. cond'.sigspending = Cardinality(Announced')
    BY <1>23, <2>5, <2>6, Withdraws DEF SignalledLast, Goto, kVars, Signalling
  <2>8. /\ \A u \in Thread \ {t} : pc'[u] = pc[u]
        /\ pc'[t] \notin Signalling
    BY <1>23 DEF SignalledLast, Goto, kVars, Types, Initializing, Locking, CondWaiting,
                 Signalling, Trying
  <2> QED BY <2>3, <2>4, <2>6, <2>7, <2>8 DEF Counters
<1>24. ASSUME NEW t \in Thread, SignalledMore(t) PROVE Counters'
  <2> DEFINE m == IF holds[t] THEN "held" ELSE "out"
  <2>1. pc' = [pc EXCEPT ![t] = m]
    BY <1>24 DEF SignalledMore, Goto, kVars
  <2>2. (m \in Locking <=> pc[t] \in Locking) /\ (m \in CondWaiting <=> pc[t] \in CondWaiting)
    BY <1>24 DEF SignalledMore, Goto, kVars, Initializing, Locking, CondWaiting, Signalling,
                 Trying
  <2> HIDE DEF m
  <2>3. /\ Cardinality(Lockers') = mutex.waiters
        /\ Cardinality(CondWaiters') = cond.waiters
    BY <2>1, <2>2, Moves
  <2>4. mutex'.waiters = mutex.waiters /\ cond'.waiters = cond.waiters
    BY <1>24 DEF SignalledMore, Goto, kVars, Types, TypeOK
  <2>5. cond'.sigspending = cond.sigspending - arg[t].delta
    BY <1>24 DEF SignalledMore, Goto, kVars, Types, TypeOK, Arg
  <2>6. /\ \A u \in Thread \ {t} : arg'[u].delta = arg[u].delta
        /\ arg'[t].delta = 0
    BY <1>24 DEF SignalledMore, Goto, kVars, Types, Arg, NoArg
  <2>7. cond'.sigspending = Cardinality(Announced')
    BY <1>24, <2>5, <2>6, Withdraws DEF SignalledMore, Goto, kVars, Signalling
  <2>8. /\ \A u \in Thread \ {t} : pc'[u] = pc[u]
        /\ pc'[t] \notin Signalling
    BY <1>24 DEF SignalledMore, Goto, kVars, Types, Initializing, Locking, CondWaiting,
                 Signalling, Trying
  <2> QED BY <2>3, <2>4, <2>6, <2>7, <2>8 DEF Counters
<1>25. ASSUME NEW t \in Thread, NEW o \in SignalKind, CondAnnounce(t, o) PROVE Counters'
  <2> DEFINE m == o
  <2>1. pc' = [pc EXCEPT ![t] = m]
    BY <1>25 DEF CondAnnounce, MaySignal, SignalKind, Goto, kVars
  <2>2. (m \in Locking <=> pc[t] \in Locking) /\ (m \in CondWaiting <=> pc[t] \in CondWaiting)
    BY <1>25 DEF CondAnnounce, MaySignal, SignalKind, Goto, kVars, Initializing, Locking,
                 CondWaiting, Signalling, Trying
  <2> HIDE DEF m
  <2>3. /\ Cardinality(Lockers') = mutex.waiters
        /\ Cardinality(CondWaiters') = cond.waiters
    BY <2>1, <2>2, Moves
  <2>4. mutex'.waiters = mutex.waiters /\ cond'.waiters = cond.waiters
    BY <1>25 DEF CondAnnounce, MaySignal, SignalKind, Goto, kVars, Types, TypeOK
  <2> DEFINE d == IF o = "broadcast" THEN cond.waiters - cond.sigspending ELSE 1
  <2>5. d \in 1 .. Cardinality(Thread)
    BY <1>25, CountedFinite, PthreadAssumption, FS_CardinalityType
    DEF CondAnnounce, Counters, Types, TypeOK
  <2>6. /\ cond' = [cond EXCEPT !.sigspending = cond.sigspending + d]
        /\ arg' = [arg EXCEPT ![t].delta = d]
    BY <1>25 DEF CondAnnounce
  <2>7. arg[t].delta = 0
    BY <1>25 DEF CondAnnounce, MaySignal, Counters, Signalling
  <2> HIDE DEF d
  <2>8. /\ \A u \in Thread \ {t} : arg'[u].delta = arg[u].delta
        /\ arg'[t].delta = d
    BY <2>6 DEF Types, Arg
  <2>9. cond'.sigspending = Cardinality(Announced')
    BY <2>5, <2>6, <2>7, <2>8, Announces DEF Types, TypeOK
  <2>10. /\ \A u \in Thread \ {t} : pc'[u] = pc[u]
         /\ pc'[t] \in Signalling
    BY <1>25 DEF CondAnnounce, MaySignal, SignalKind, Goto, kVars, Types, Initializing, Locking,
                 CondWaiting, Signalling, Trying
  <2> QED BY <2>3, <2>4, <2>5, <2>8, <2>9, <2>10 DEF Counters
<1>26. ASSUME NEW t \in Thread, NEW G \in SUBSET Thread, CondWakes(t, G) PROVE Counters'
  <2>1. \A u \in Thread : pc'[u] \in Signalling <=> pc[u] \in Signalling
    BY <1>26 DEF CondWakes, SignalKind, Goto, pVars, Types, Signalling
  <2>2. Lockers' = Lockers /\ CondWaiters' = CondWaiters
    BY <1>26 DEF CondWakes, SignalKind, Goto, pVars, Types, Lockers, CondWaiters, Locking,
                 CondWaiting
  <2>3. Announced' = Announced
    BY <1>26 DEF CondWakes, SignalKind, Goto, pVars, Announced
  <2> QED BY <1>26, <2>1, <2>2, <2>3 DEF CondWakes, pVars, Counters
<1>27. ASSUME NEW t \in Thread, LosesPost(t) PROVE Counters'
  <2> DEFINE m == IF pc[t] = "unlock_signal" THEN "out" ELSE "cond_blocked"
  <2>1. /\ pc' = [pc EXCEPT ![t] = m] /\ (m \in Locking <=> pc[t] \in Locking)
        /\ (m \in CondWaiting <=> pc[t] \in CondWaiting)
        /\ (m \in Signalling <=> pc[t] \in Signalling)
    BY <1>27 DEF LosesPost, Releases, Goto, Locking, CondWaiting, Signalling
  <2>2. /\ mutex'.waiters = mutex.waiters /\ cond' = cond
        /\ \A u \in Thread : arg'[u].delta = arg[u].delta
    BY <1>27 DEF LosesPost, Releases, Goto, Types, TypeOK, Arg
  <2> HIDE DEF m
  <2> QED BY <2>1, <2>2, CountersKept
<1>28. ASSUME NEW t \in Thread, CondFinds(t) PROVE Counters'
  <2> DEFINE m == "cond_signal"
  <2>1. /\ pc' = [pc EXCEPT ![t] = m] /\ (m \in Locking <=> pc[t] \in Locking)
        /\ (m \in CondWaiting <=> pc[t] \in CondWaiting)
        /\ (m \in Signalling <=> pc[t] \in Signalling)
    BY <1>28 DEF CondFinds, Goto, Locking, CondWaiting, Signalling
  <2>2. /\ mutex'.waiters = mutex.waiters /\ cond' = cond
        /\ \A u \in Thread : arg'[u].delta = arg[u].delta
    BY <1>28 DEF CondFinds, Goto, Types, TypeOK, Arg
  <2> HIDE DEF m
  <2> QED BY <2>1, <2>2, CountersKept
<1>29. ASSUME NEW t \in Thread, MutexAborts(t) PROVE Counters'
  <2>1. Lockers' = Lockers /\ CondWaiters' = CondWaiters /\ Announced' = Announced
    BY <1>29 DEF MutexAborts, pVars, Lockers, CondWaiters, Announced
  <2> QED BY <1>29, <2>1 DEF MutexAborts, pVars, Counters
<1> QED
  BY <1>1, <1>2, <1>3, <1>4, <1>5, <1>6, <1>7, <1>8, <1>9, <1>10, <1>11, <1>12, <1>13, <1>14,
     <1>15, <1>16, <1>17, <1>18, <1>19, <1>20, <1>21, <1>22, <1>23, <1>24, <1>25, <1>26,
     <1>27, <1>28, <1>29, NextCases DEF Atoms


\* Nobody waits on a semaphore that goes back to the pool.
LEMMA MutexSemIdle ==
  ASSUME Books, NEW t \in Thread, LockDoneLast(t) \/ TryDone(t)
  PROVE  mutex.sem \in Sem /\ mutex.sem # cond.sem /\ waiters[mutex.sem] = {}
<1> USE DEF Books
<1>1. pc[t] \in {"lock_blocked", "try_blocked"} /\ ~Waits(t)
  BY DEF LockDoneLast, TryDone
<1>2. mutex.sem \in Sem /\ mutex.sem # cond.sem
  BY <1>1, Occupied, PthreadAssumption DEF Locking, Trying, Waiting
<1>3. \A u \in Thread : pc[u] \in {"lock_blocked", "try_blocked"} => u = t
  <2>1. CASE LockDoneLast(t)
    <3>1. Cardinality(Lockers) = 1 /\ t \in Lockers
      BY <2>1 DEF LockDoneLast, Counters, Lockers, Locking
    <3>2. Lockers = {t}
      BY <3>1, CountedFinite, FS_Singleton
    <3>3. \A u \in Thread : pc[u] \notin Trying
      BY <2>1, PthreadAssumption DEF LockDoneLast, LockFree, Trylocks
    <3> QED BY <3>2, <3>3 DEF Lockers, Locking, Trying
  <2>2. CASE TryDone(t)
    <3>1. pc[t] \in Trying /\ mutex_lock = t /\ mutex.waiters = 0
      BY <2>2 DEF TryDone, Trying, Trylocks
    <3>2. Lockers = {}
      BY <3>1, CountedFinite, FS_EmptySet DEF Counters
    <3>3. \A u \in Thread : pc[u] \in Trying => u = t
      BY <3>1 DEF Trylocks
    <3> QED BY <3>2, <3>3 DEF Lockers, Locking, Trying
  <2> QED BY <2>1, <2>2
<1>4. waiters[mutex.sem] = {}
  BY <1>1, <1>2, <1>3 DEF Waiting, Waits, Types, TypeOK
<1> QED BY <1>2, <1>4

\* The same for the condition's semaphore
LEMMA CondSemIdle ==
  ASSUME Books, NEW t \in Thread, CondDoneLast(t) \/ SignalledLast(t)
  PROVE  cond.sem \in Sem /\ cond.sem # mutex.sem /\ waiters[cond.sem] = {}
<1> USE DEF Books
<1>1. cond.sem \in Sem /\ cond.sem # mutex.sem
  BY Occupied, PthreadAssumption
  DEF CondDoneLast, SignalledLast, CondWaiting, Signalling, Waiting
<1>2. \A u \in Thread : pc[u] \in {"cond_signal", "cond_blocked"} => u = t /\ ~Waits(t)
  <2>1. CASE CondDoneLast(t)
    <3>1. Cardinality(CondWaiters) = 1 /\ t \in CondWaiters
      BY <2>1 DEF CondDoneLast, Counters, CondWaiters, CondWaiting
    <3>2. CondWaiters = {t}
      BY <3>1, CountedFinite, FS_Singleton
    <3> QED BY <2>1, <3>2 DEF CondDoneLast, CondWaiters, CondWaiting
  <2>2. CASE SignalledLast(t)
    <3>1. CondWaiters = {}
      BY <2>2, CountedFinite, FS_EmptySet DEF SignalledLast, Counters
    <3> QED BY <3>1 DEF CondWaiters, CondWaiting
  <2> QED BY <2>1, <2>2
<1>3. waiters[cond.sem] = {}
  BY <1>1, <1>2 DEF Waiting, Waits, Types, TypeOK
<1> QED BY <1>1, <1>3

\* The pool holds what neither object uses.
LEMMA PoolStep ==
  ASSUME Books, [Next]_vars PROVE Pool'
<1> USE DEF Books
<1>1. CASE UNCHANGED vars
  BY <1>1 DEF vars, kVars, Pool, Types, TypeOK
<1>2. ASSUME NEW t \in Thread, NEW o \in MutexOp, MutexCall(t, o) PROVE Pool'
  BY <1>2 DEF MutexCall, Goto, kVars, MutexOp, InitLabel, Pool, Types, TypeOK
<1>3. ASSUME NEW t \in Thread, NEW o \in MutexOp, InitSig(t, o) PROVE Pool'
  BY <1>3 DEF InitSig, Goto, kVars, MutexOp, InitLabel, FieldsLabel, Pool, Types, TypeOK
<1>4. ASSUME NEW t \in Thread, NEW o \in MutexOp, InitDone(t, o) PROVE Pool'
  BY <1>4 DEF InitDone, Goto, kVars, pVars, MutexOp, FieldsLabel, Pool, Types, TypeOK
<1>5. ASSUME NEW t \in Thread, LockSlow(t) PROVE Pool'
  <2>1. mutex'.sem = SemOf(mutex) /\ pool' = PoolAfterNew(mutex) /\ cond' = cond
    BY <1>5 DEF LockSlow, LockFree, Goto, kVars, Types, TypeOK
  <2> QED BY <2>1, MutexSem DEF Pool
<1>6. ASSUME NEW t \in Thread, TakeFree(t) PROVE Pool'
  BY <1>6 DEF TakeFree, LockFree, Goto, kVars, Pool, Types, TypeOK
<1>7. ASSUME NEW t \in Thread, FindsPost(t) PROVE Pool'
  BY <1>7 DEF FindsPost, Blocked, Goto, pVars, Pool, Types, TypeOK
<1>8. ASSUME NEW t \in Thread, FindsNoPost(t) PROVE Pool'
  BY <1>8 DEF FindsNoPost, Blocked, Goto, pVars, Pool, Types, TypeOK
<1>9. ASSUME NEW t \in Thread, LockDoneLast(t) PROVE Pool'
  <2>1. mutex.sem \in Sem /\ mutex.sem # cond.sem
    BY <1>9, MutexSemIdle, PthreadAssumption DEF Waiting
  <2>2. /\ Distinct(Restored(mutex.sem))
        /\ Values(Restored(mutex.sem)) = Sem \ {NoSem, cond.sem}
    BY <2>1, Restoring, PthreadAssumption
  <2>3. mutex'.sem = NoSem /\ pool' = Restored(mutex.sem) /\ cond' = cond
    BY <1>9 DEF LockDoneLast, LockFree, Goto, Types, TypeOK
  <2> QED BY <2>2, <2>3 DEF Pool
<1>10. ASSUME NEW t \in Thread, LockDoneMore(t) PROVE Pool'
  BY <1>10 DEF LockDoneMore, LockFree, Goto, Pool, Types, TypeOK
<1>11. ASSUME NEW t \in Thread, TryOwned(t) PROVE Pool'
  BY <1>11 DEF TryOwned, LockFree, Goto, kVars, Pool, Types, TypeOK
<1>12. ASSUME NEW t \in Thread, TryBusy(t) PROVE Pool'
  BY <1>12 DEF TryBusy, Goto, kVars, Pool, Types, TypeOK
<1>13. ASSUME NEW t \in Thread, TryDone(t) PROVE Pool'
  <2>1. mutex.sem \in Sem /\ mutex.sem # cond.sem
    BY <1>13, MutexSemIdle, PthreadAssumption DEF Waiting
  <2>2. /\ Distinct(Restored(mutex.sem))
        /\ Values(Restored(mutex.sem)) = Sem \ {NoSem, cond.sem}
    BY <2>1, Restoring, PthreadAssumption
  <2>3. mutex'.sem = NoSem /\ pool' = Restored(mutex.sem) /\ cond' = cond
    BY <1>13 DEF TryDone, Goto, K!Leave, Types, TypeOK
  <2> QED BY <2>2, <2>3 DEF Pool
<1>14. ASSUME NEW t \in Thread, Unlock(t) PROVE Pool'
  BY <1>14 DEF Unlock, LockFree, Goto, kVars, Pool, Types, TypeOK
<1>15. ASSUME NEW t \in Thread, StoresPost(t) PROVE Pool'
  BY <1>15 DEF StoresPost, Releases, Goto, Pool, Types, TypeOK
<1>16. ASSUME NEW t \in Thread, NEW w \in Thread, HandsTo(t, w) PROVE Pool'
  BY <1>16 DEF HandsTo, Releases, Goto, Pool, Types, TypeOK
<1>17. ASSUME NEW t \in Thread, CondWaitFirst(t) PROVE Pool'
  <2>1. cond'.sem = SemOf(cond) /\ pool' = PoolAfterNew(cond) /\ mutex' = mutex
    BY <1>17 DEF CondWaitFirst, Goto, kVars, Types, TypeOK
  <2> QED BY <2>1, CondSem DEF Pool
<1>18. ASSUME NEW t \in Thread, CondWaitMore(t) PROVE Pool'
  BY <1>18 DEF CondWaitMore, Goto, kVars, Pool, Types, TypeOK
<1>19. ASSUME NEW t \in Thread, CondMutex(t) PROVE Pool'
  <2>1. mutex'.sem = SemOf(mutex) /\ pool' = PoolAfterNew(mutex) /\ cond' = cond
    BY <1>19 DEF CondMutex, LockFree, Goto, kVars, Types, TypeOK
  <2> QED BY <2>1, MutexSem DEF Pool
<1>20. ASSUME NEW t \in Thread, CondBlocks(t) PROVE Pool'
  BY <1>20 DEF CondBlocks, Goto, Pool, Types, TypeOK
<1>21. ASSUME NEW t \in Thread, CondDoneLast(t) PROVE Pool'
  <2>1. cond.sem \in Sem /\ cond.sem # mutex.sem
    BY <1>21, CondSemIdle, PthreadAssumption DEF Waiting
  <2>2. /\ Distinct(Restored(cond.sem))
        /\ Values(Restored(cond.sem)) = Sem \ {NoSem, mutex.sem}
    BY <2>1, Restoring, PthreadAssumption
  <2>3. cond'.sem = NoSem /\ pool' = Restored(cond.sem) /\ mutex' = mutex
    BY <1>21 DEF CondDoneLast, Goto, Types, TypeOK
  <2> QED BY <2>2, <2>3 DEF Pool
<1>22. ASSUME NEW t \in Thread, CondDoneMore(t) PROVE Pool'
  BY <1>22 DEF CondDoneMore, Goto, Pool, Types, TypeOK
<1>23. ASSUME NEW t \in Thread, SignalledLast(t) PROVE Pool'
  <2>1. cond.sem \in Sem /\ cond.sem # mutex.sem
    BY <1>23, CondSemIdle, PthreadAssumption DEF Waiting
  <2>2. /\ Distinct(Restored(cond.sem))
        /\ Values(Restored(cond.sem)) = Sem \ {NoSem, mutex.sem}
    BY <2>1, Restoring, PthreadAssumption
  <2>3. cond'.sem = NoSem /\ pool' = Restored(cond.sem) /\ mutex' = mutex
    BY <1>23 DEF SignalledLast, Goto, kVars, Types, TypeOK
  <2> QED BY <2>2, <2>3 DEF Pool
<1>24. ASSUME NEW t \in Thread, SignalledMore(t) PROVE Pool'
  BY <1>24 DEF SignalledMore, Goto, kVars, Pool, Types, TypeOK
<1>25. ASSUME NEW t \in Thread, NEW o \in SignalKind, CondAnnounce(t, o) PROVE Pool'
  BY <1>25 DEF CondAnnounce, MaySignal, SignalKind, Goto, kVars, Pool, Types, TypeOK
<1>26. ASSUME NEW t \in Thread, NEW G \in SUBSET Thread, CondWakes(t, G) PROVE Pool'
  BY <1>26 DEF CondWakes, SignalKind, Goto, pVars, Pool, Types, TypeOK
<1>27. ASSUME NEW t \in Thread, LosesPost(t) PROVE Pool'
  BY <1>27 DEF LosesPost, Pool
<1>28. ASSUME NEW t \in Thread, CondFinds(t) PROVE Pool'
  BY <1>28 DEF CondFinds, Pool
<1>29. ASSUME NEW t \in Thread, MutexAborts(t) PROVE Pool'
  BY <1>29 DEF MutexAborts, pVars, Pool
<1> QED
  BY <1>1, <1>2, <1>3, <1>4, <1>5, <1>6, <1>7, <1>8, <1>9, <1>10, <1>11, <1>12, <1>13, <1>14,
     <1>15, <1>16, <1>17, <1>18, <1>19, <1>20, <1>21, <1>22, <1>23, <1>24, <1>25, <1>26,
     <1>27, <1>28, <1>29, NextCases DEF Atoms

\* Who waits on what, and which object needs a semaphore.
LEMMA WaitingStep ==
  ASSUME Books, [Next]_vars PROVE Waiting'
<1> USE DEF Books
<1>1. CASE UNCHANGED vars
  BY <1>1 DEF vars, kVars, Waiting, Types, TypeOK, Arg
<1>2. ASSUME NEW t \in Thread, NEW o \in MutexOp, MutexCall(t, o) PROVE Waiting'
  BY <1>2, PthreadAssumption DEF MutexCall, Goto, kVars, MutexOp, InitLabel, Waiting, Types,
                                 TypeOK, Arg
<1>3. ASSUME NEW t \in Thread, NEW o \in MutexOp, InitSig(t, o) PROVE Waiting'
  BY <1>3, PthreadAssumption DEF InitSig, Goto, kVars, MutexOp, InitLabel, FieldsLabel,
                                 Waiting, Types, TypeOK, Arg
<1>4. ASSUME NEW t \in Thread, NEW o \in MutexOp, InitDone(t, o) PROVE Waiting'
  BY <1>4, PthreadAssumption DEF InitDone, Goto, kVars, pVars, MutexOp, FieldsLabel, Waiting,
                                 Types, TypeOK, Arg
<1>5. ASSUME NEW t \in Thread, LockSlow(t) PROVE Waiting'
  BY <1>5, MutexSem, PthreadAssumption DEF LockSlow, LockFree, Goto, kVars, Waiting, Types,
                                           TypeOK, Arg
<1>6. ASSUME NEW t \in Thread, TakeFree(t) PROVE Waiting'
  BY <1>6, PthreadAssumption DEF TakeFree, LockFree, Goto, kVars, Waiting, Types, TypeOK, Arg
<1>7. ASSUME NEW t \in Thread, FindsPost(t) PROVE Waiting'
  <2>1. mutex.sem \in Sem /\ pc[t] \in {"lock_wait", "try_wait"}
    BY <1>7, Occupied DEF FindsPost, Blocked, Locking, Trying
  <2>2. waiters' = waiters /\ mutex' = mutex /\ cond' = cond
    BY <1>7 DEF FindsPost, pVars
  <2>3. \A u \in Thread \ {t} : pc'[u] = pc[u]
    BY <1>7 DEF FindsPost, Blocked, Goto, pVars, Types
  <2>4. \A s \in Sem : t \notin waiters[s]
    BY <2>1 DEF Waiting
  <2> QED BY <2>2, <2>3, <2>4 DEF Waiting, Types, TypeOK
<1>8. ASSUME NEW t \in Thread, FindsNoPost(t) PROVE Waiting'
  BY <1>8, Occupied, PthreadAssumption DEF FindsNoPost, Blocked, Goto, pVars, Waiting, Types,
                                           TypeOK, Arg, Locking, Trying, CondWaiting,
                                           Signalling
<1>9. ASSUME NEW t \in Thread, LockDoneLast(t) PROVE Waiting'
  <2>1. /\ waiters' = waiters
        /\ \A s \in Sem : \A u \in waiters[s] : pc'[u] = pc[u]
    BY <1>9 DEF LockDoneLast, LockFree, Goto, Waits, Types, TypeOK
  <2>2. /\ mutex'.sem = NoSem /\ mutex'.waiters = 0 /\ mutex'.cond_lock = FALSE
        /\ cond' = cond
    BY <1>9 DEF LockDoneLast, LockFree, Goto, Types, TypeOK
  <2> QED BY <1>9, <2>1, <2>2, MutexSemIdle DEF Waiting
<1>10. ASSUME NEW t \in Thread, LockDoneMore(t) PROVE Waiting'
  <2>1. /\ waiters' = waiters
        /\ \A s \in Sem : \A u \in waiters[s] : pc'[u] = pc[u]
    BY <1>10 DEF LockDoneMore, LockFree, Goto, Waits, Types, TypeOK
  <2>2. /\ mutex'.sem = mutex.sem /\ mutex'.cond_lock = FALSE /\ mutex.waiters > 0
        /\ cond' = cond
    BY <1>10 DEF LockDoneMore, LockFree, Goto, Types, TypeOK
  <2> QED BY <2>1, <2>2 DEF Waiting
<1>11. ASSUME NEW t \in Thread, TryOwned(t) PROVE Waiting'
  BY <1>11, PthreadAssumption DEF TryOwned, LockFree, Goto, kVars, Waiting, Types, TypeOK,
                                  Arg
<1>12. ASSUME NEW t \in Thread, TryBusy(t) PROVE Waiting'
  BY <1>12, PthreadAssumption DEF TryBusy, Goto, kVars, Waiting, Types, TypeOK, Arg
<1>13. ASSUME NEW t \in Thread, TryDone(t) PROVE Waiting'
  <2>1. /\ waiters' = waiters
        /\ \A s \in Sem : \A u \in waiters[s] : pc'[u] = pc[u]
    BY <1>13 DEF TryDone, Goto, K!Leave, Waits, Types, TypeOK
  <2>2. /\ mutex'.sem = NoSem /\ mutex'.waiters = 0 /\ mutex'.cond_lock = FALSE
        /\ cond' = cond
    BY <1>13 DEF TryDone, Goto, K!Leave, Trylocks, Trying, Types, TypeOK
  <2> QED BY <1>13, <2>1, <2>2, MutexSemIdle DEF Waiting
<1>14. ASSUME NEW t \in Thread, Unlock(t) PROVE Waiting'
  BY <1>14, PthreadAssumption DEF Unlock, LockFree, Goto, kVars, Waiting, Types, TypeOK, Arg
<1>15. ASSUME NEW t \in Thread, StoresPost(t) PROVE Waiting'
  <2>1. pc[t] \in {"unlock_signal", "cond_signal"} /\ mutex' = mutex /\ cond' = cond
    BY <1>15 DEF StoresPost, Releases
  <2>2. \A s \in Sem : waiters'[s] \subseteq waiters[s]
    BY <1>15 DEF StoresPost, Types, TypeOK
  <2>3. \A u \in Thread : pc[u] \in {"lock_blocked", "try_blocked"} => pc'[u] = pc[u]
    BY <1>15, <2>1 DEF StoresPost, Releases, Goto, Types
  <2>4. \A u \in Thread : pc[u] \in {"cond_signal", "cond_blocked"} =>
                            pc'[u] \in {"cond_signal", "cond_blocked"}
    BY <1>15, <2>1 DEF StoresPost, Releases, Goto, Types
  <2> QED BY <2>1, <2>2, <2>3, <2>4 DEF Waiting, Types, TypeOK
<1>16. ASSUME NEW t \in Thread, NEW w \in Thread, HandsTo(t, w) PROVE Waiting'
  <2>1. pc[t] \in {"unlock_signal", "cond_signal"} /\ mutex' = mutex /\ cond' = cond
    BY <1>16 DEF HandsTo, Releases
  <2>2. \A s \in Sem : waiters'[s] \subseteq waiters[s]
    BY <1>16 DEF HandsTo, Types, TypeOK
  <2>3. \A u \in Thread : pc[u] \in {"lock_blocked", "try_blocked"} => pc'[u] = pc[u]
    BY <1>16, <2>1 DEF HandsTo, Releases, Goto, Types
  <2>4. \A u \in Thread : pc[u] \in {"cond_signal", "cond_blocked"} =>
                            pc'[u] \in {"cond_signal", "cond_blocked"}
    BY <1>16, <2>1 DEF HandsTo, Releases, Goto, Types
  <2> QED BY <2>1, <2>2, <2>3, <2>4 DEF Waiting, Types, TypeOK
<1>17. ASSUME NEW t \in Thread, CondWaitFirst(t) PROVE Waiting'
  BY <1>17, CondSem, PthreadAssumption DEF CondWaitFirst, Goto, kVars, Waiting, Types,
                                           TypeOK, Arg
<1>18. ASSUME NEW t \in Thread, CondWaitMore(t) PROVE Waiting'
  BY <1>18, PthreadAssumption DEF CondWaitMore, Goto, kVars, Waiting, Types, TypeOK, Arg
<1>19. ASSUME NEW t \in Thread, CondMutex(t) PROVE Waiting'
  BY <1>19, MutexSem, PthreadAssumption DEF CondMutex, LockFree, Goto, kVars, Waiting, Types,
                                            TypeOK, Arg
<1>20. ASSUME NEW t \in Thread, CondBlocks(t) PROVE Waiting'
  BY <1>20, Occupied, PthreadAssumption DEF CondBlocks, Goto, Waiting, Types, TypeOK, Arg,
                                            Locking, Trying, CondWaiting, Signalling
<1>21. ASSUME NEW t \in Thread, CondDoneLast(t) PROVE Waiting'
  <2>1. /\ waiters' = waiters
        /\ \A s \in Sem : \A u \in waiters[s] : pc'[u] = pc[u]
    BY <1>21 DEF CondDoneLast, Goto, Waits, Types, TypeOK
  <2>2. /\ cond'.sem = NoSem /\ cond'.waiters = 0 /\ cond'.sigspending = 0
        /\ mutex' = mutex
    BY <1>21 DEF CondDoneLast, Goto, Types, TypeOK
  <2> QED BY <1>21, <2>1, <2>2, CondSemIdle DEF Waiting
<1>22. ASSUME NEW t \in Thread, CondDoneMore(t) PROVE Waiting'
  <2>1. /\ waiters' = waiters
        /\ \A s \in Sem : \A u \in waiters[s] : pc'[u] = pc[u]
    BY <1>22 DEF CondDoneMore, Goto, Waits, Types, TypeOK
  <2>2. /\ cond'.sem = cond.sem /\ cond'.waiters = cond.waiters - 1
        /\ cond'.sigspending = cond.sigspending /\ mutex' = mutex
    BY <1>22 DEF CondDoneMore, Goto, Types, TypeOK
  <2>3. cond.waiters \in Nat /\ cond.sigspending \in Nat /\ cond.sem # NoSem
        /\ (cond.waiters > 1 \/ cond.sigspending > 0)
    BY <1>22, Occupied, PthreadAssumption DEF CondDoneMore, Goto, CondWaiting, Types, TypeOK
  <2>4. cond'.waiters > 0 \/ cond'.sigspending > 0
    BY <2>2, <2>3
  <2> QED BY <2>1, <2>2, <2>3, <2>4 DEF Waiting
<1>23. ASSUME NEW t \in Thread, SignalledLast(t) PROVE Waiting'
  <2>1. /\ waiters' = waiters
        /\ \A s \in Sem : \A u \in waiters[s] : pc'[u] = pc[u]
    <3>1. \A s \in Sem : t \notin waiters[s]
      BY <1>23 DEF SignalledLast, Waiting
    <3> QED BY <1>23, <3>1 DEF SignalledLast, Goto, kVars, Types, TypeOK
  <2>2. /\ cond'.sem = NoSem /\ cond'.waiters = 0 /\ cond'.sigspending = 0
        /\ mutex' = mutex
    BY <1>23 DEF SignalledLast, Goto, kVars, Types, TypeOK
  <2> QED BY <1>23, <2>1, <2>2, CondSemIdle DEF Waiting
<1>24. ASSUME NEW t \in Thread, SignalledMore(t) PROVE Waiting'
  BY <1>24, Occupied, PthreadAssumption DEF SignalledMore, Goto, kVars, Waiting, Types,
                                            TypeOK, Arg, Locking, Trying, CondWaiting,
                                            Signalling
<1>25. ASSUME NEW t \in Thread, NEW o \in SignalKind, CondAnnounce(t, o) PROVE Waiting'
  BY <1>25, PthreadAssumption DEF CondAnnounce, MaySignal, SignalKind, Goto, kVars, Waiting,
                                  Types, TypeOK, Arg
<1>26. ASSUME NEW t \in Thread, NEW G \in SUBSET Thread, CondWakes(t, G) PROVE Waiting'
  BY <1>26, Occupied, PthreadAssumption DEF CondWakes, SignalKind, Goto, pVars, Waiting,
                                            Types, TypeOK, Arg, Locking, Trying, CondWaiting,
                                            Signalling
<1>27. ASSUME NEW t \in Thread, LosesPost(t) PROVE Waiting'
  <2>1. pc[t] \in {"unlock_signal", "cond_signal"} /\ mutex' = mutex /\ cond' = cond
    BY <1>27 DEF LosesPost, Releases
  <2>2. \A s \in Sem : waiters'[s] \subseteq waiters[s]
    BY <1>27 DEF LosesPost, kVars, Types, TypeOK
  <2>3. \A u \in Thread : pc[u] \in {"lock_blocked", "try_blocked"} => pc'[u] = pc[u]
    BY <1>27, <2>1 DEF LosesPost, Releases, Goto, Types
  <2>4. \A u \in Thread : pc[u] \in {"cond_signal", "cond_blocked"} =>
                            pc'[u] \in {"cond_signal", "cond_blocked"}
    BY <1>27, <2>1 DEF LosesPost, Releases, Goto, Types
  <2> QED BY <2>1, <2>2, <2>3, <2>4 DEF Waiting, Types, TypeOK
<1>28. ASSUME NEW t \in Thread, CondFinds(t) PROVE Waiting'
  BY <1>28 DEF CondFinds, Goto, Waiting, Types, TypeOK
<1>29. ASSUME NEW t \in Thread, MutexAborts(t) PROVE Waiting'
  <2>1. \A s \in Sem : waiters'[s] \subseteq waiters[s]
    BY <1>29 DEF MutexAborts, Types, TypeOK
  <2> QED BY <1>29, <2>1 DEF MutexAborts, pVars, Waiting, Types, TypeOK
<1> QED
  BY <1>1, <1>2, <1>3, <1>4, <1>5, <1>6, <1>7, <1>8, <1>9, <1>10, <1>11, <1>12, <1>13, <1>14,
     <1>15, <1>16, <1>17, <1>18, <1>19, <1>20, <1>21, <1>22, <1>23, <1>24, <1>25, <1>26,
     <1>27, <1>28, <1>29, NextCases DEF Atoms

\* mutex->lock is held by the thread that waits in pthread_mutex_trylock.
LEMMA TrylocksStep ==
  ASSUME Books, [Next]_vars PROVE Trylocks'
<1> USE DEF Books
<1>1. CASE UNCHANGED vars
  BY <1>1 DEF vars, Trylocks
<1>2. ASSUME NEW t \in Thread, NEW o \in MutexOp, MutexCall(t, o) PROVE Trylocks'
  BY <1>2, PthreadAssumption DEF MutexCall, Goto, kVars, MutexOp, InitLabel, Trylocks, Trying,
                                 Types, TypeOK
<1>3. ASSUME NEW t \in Thread, NEW o \in MutexOp, InitSig(t, o) PROVE Trylocks'
  BY <1>3, PthreadAssumption DEF InitSig, Goto, kVars, MutexOp, InitLabel, FieldsLabel,
                                 Trylocks, Trying, Types, TypeOK
<1>4. ASSUME NEW t \in Thread, NEW o \in MutexOp, InitDone(t, o) PROVE Trylocks'
  BY <1>4, PthreadAssumption DEF InitDone, Goto, kVars, pVars, MutexOp, FieldsLabel, Trylocks,
                                 Trying, Types, TypeOK
<1>5. ASSUME NEW t \in Thread, LockSlow(t) PROVE Trylocks'
  BY <1>5, PthreadAssumption DEF LockSlow, LockFree, Goto, kVars, Trylocks, Trying, Types,
                                 TypeOK
<1>6. ASSUME NEW t \in Thread, TakeFree(t) PROVE Trylocks'
  BY <1>6, PthreadAssumption DEF TakeFree, LockFree, Goto, kVars, Trylocks, Trying, Types,
                                 TypeOK
<1>7. ASSUME NEW t \in Thread, FindsPost(t) PROVE Trylocks'
  BY <1>7, PthreadAssumption DEF FindsPost, Blocked, Goto, pVars, Trylocks, Trying, Types,
                                 TypeOK
<1>8. ASSUME NEW t \in Thread, FindsNoPost(t) PROVE Trylocks'
  BY <1>8, PthreadAssumption DEF FindsNoPost, Blocked, Goto, pVars, Trylocks, Trying, Types,
                                 TypeOK
<1>9. ASSUME NEW t \in Thread, LockDoneLast(t) PROVE Trylocks'
  BY <1>9, PthreadAssumption DEF LockDoneLast, LockFree, Goto, Trylocks, Trying, Types, TypeOK
<1>10. ASSUME NEW t \in Thread, LockDoneMore(t) PROVE Trylocks'
  BY <1>10, PthreadAssumption DEF LockDoneMore, LockFree, Goto, Trylocks, Trying, Types, TypeOK
<1>11. ASSUME NEW t \in Thread, TryOwned(t) PROVE Trylocks'
  BY <1>11, PthreadAssumption DEF TryOwned, LockFree, Goto, kVars, Trylocks, Trying, Types,
                                  TypeOK
<1>12. ASSUME NEW t \in Thread, TryBusy(t) PROVE Trylocks'
  BY <1>12, PthreadAssumption DEF TryBusy, Goto, kVars, Trylocks, Trying, Types, TypeOK
<1>13. ASSUME NEW t \in Thread, TryDone(t) PROVE Trylocks'
  BY <1>13, PthreadAssumption DEF TryDone, Goto, K!Leave, Trylocks, Trying, Types, TypeOK
<1>14. ASSUME NEW t \in Thread, Unlock(t) PROVE Trylocks'
  BY <1>14, PthreadAssumption DEF Unlock, LockFree, Goto, kVars, Trylocks, Trying, Types, TypeOK
<1>15. ASSUME NEW t \in Thread, StoresPost(t) PROVE Trylocks'
  BY <1>15, PthreadAssumption DEF StoresPost, Releases, Goto, Trylocks, Trying, Types, TypeOK
<1>16. ASSUME NEW t \in Thread, NEW w \in Thread, HandsTo(t, w) PROVE Trylocks'
  BY <1>16, PthreadAssumption DEF HandsTo, Releases, Goto, Trylocks, Trying, Types, TypeOK
<1>17. ASSUME NEW t \in Thread, CondWaitFirst(t) PROVE Trylocks'
  BY <1>17, PthreadAssumption DEF CondWaitFirst, Goto, kVars, Trylocks, Trying, Types, TypeOK
<1>18. ASSUME NEW t \in Thread, CondWaitMore(t) PROVE Trylocks'
  BY <1>18, PthreadAssumption DEF CondWaitMore, Goto, kVars, Trylocks, Trying, Types, TypeOK
<1>19. ASSUME NEW t \in Thread, CondMutex(t) PROVE Trylocks'
  BY <1>19, PthreadAssumption DEF CondMutex, LockFree, Goto, kVars, Trylocks, Trying, Types,
                                  TypeOK
<1>20. ASSUME NEW t \in Thread, CondBlocks(t) PROVE Trylocks'
  BY <1>20, PthreadAssumption DEF CondBlocks, Goto, Trylocks, Trying, Types, TypeOK
<1>21. ASSUME NEW t \in Thread, CondDoneLast(t) PROVE Trylocks'
  BY <1>21, PthreadAssumption DEF CondDoneLast, Goto, Trylocks, Trying, Types, TypeOK
<1>22. ASSUME NEW t \in Thread, CondDoneMore(t) PROVE Trylocks'
  BY <1>22, PthreadAssumption DEF CondDoneMore, Goto, Trylocks, Trying, Types, TypeOK
<1>23. ASSUME NEW t \in Thread, SignalledLast(t) PROVE Trylocks'
  BY <1>23, PthreadAssumption DEF SignalledLast, Goto, kVars, Trylocks, Trying, Types, TypeOK
<1>24. ASSUME NEW t \in Thread, SignalledMore(t) PROVE Trylocks'
  BY <1>24, PthreadAssumption DEF SignalledMore, Goto, kVars, Trylocks, Trying, Types, TypeOK
<1>25. ASSUME NEW t \in Thread, NEW o \in SignalKind, CondAnnounce(t, o) PROVE Trylocks'
  BY <1>25, PthreadAssumption DEF CondAnnounce, MaySignal, SignalKind, Goto, kVars, Trylocks,
                                  Trying, Types, TypeOK
<1>26. ASSUME NEW t \in Thread, NEW G \in SUBSET Thread, CondWakes(t, G) PROVE Trylocks'
  BY <1>26, PthreadAssumption DEF CondWakes, SignalKind, Goto, pVars, Trylocks, Trying, Types,
                                  TypeOK
<1>27. ASSUME NEW t \in Thread, LosesPost(t) PROVE Trylocks'
  BY <1>27, PthreadAssumption DEF LosesPost, Releases, Goto, kVars, Trylocks, Trying, Types,
                                  TypeOK
<1>28. ASSUME NEW t \in Thread, CondFinds(t) PROVE Trylocks'
  BY <1>28, PthreadAssumption DEF CondFinds, Goto, Trylocks, Trying, Types, TypeOK
<1>29. ASSUME NEW t \in Thread, MutexAborts(t) PROVE Trylocks'
  BY <1>29, PthreadAssumption DEF MutexAborts, pVars, Trylocks, Trying, Types, TypeOK
<1> QED
  BY <1>1, <1>2, <1>3, <1>4, <1>5, <1>6, <1>7, <1>8, <1>9, <1>10, <1>11, <1>12, <1>13, <1>14,
     <1>15, <1>16, <1>17, <1>18, <1>19, <1>20, <1>21, <1>22, <1>23, <1>24, <1>25, <1>26,
     <1>27, <1>28, <1>29, NextCases DEF Atoms

\* Books is inductive, whatever waits are interrupted.
LEMMA BooksStep ==
  ASSUME Books, [Next]_vars PROVE Books'
BY TypesStep, StartingStep, CountersStep, WaitingStep, PoolStep, TrylocksStep DEF Books

-----------------------------------------------------------------------------
(* When condition waits only are interrupted                               *)

\* The mutex's semaphore is there for whoever is about to release the mutex, and
\* it is the one that semaphore_wait_signal was given.
LEMMA Handed ==
  ASSUME PthreadInv, NEW t \in Thread
  PROVE  /\ mutex.sem \in Sem => value[mutex.sem] \in {0, 1}
         /\ Releases(t) => /\ pc[t] \in {"unlock_signal", "cond_signal"}
                           /\ mutex.sem \in Sem /\ Released(t) = mutex.sem
<1> USE DEF PthreadInv, Books
<1>1. mutex.sem \in Sem => value[mutex.sem] \in {0, 1}
  BY PthreadAssumption DEF Posts
<1>2. ASSUME Releases(t)
      PROVE  /\ pc[t] \in {"unlock_signal", "cond_signal"}
             /\ mutex.sem \in Sem /\ Released(t) = mutex.sem
  <2>1. pc[t] \in {"unlock_signal", "cond_signal"}
    BY <1>2 DEF Releases
  <2>2. mutex.waiters > 0 \/ mutex.cond_lock
    BY <2>1 DEF Places
  <2>3. mutex.sem \in Sem
    BY <2>2 DEF Waiting, Types, TypeOK
  <2> QED BY <2>1, <2>3 DEF Places, Released
<1> QED BY <1>1, <1>2

\* No post is lost, none waits for the condition, and no wait for the mutex is
\* interrupted.
LEMMA Excluded ==
  ASSUME Calm, PthreadInv, NEW t \in Thread
  PROVE  ~LosesPost(t) /\ ~CondFinds(t) /\ ~MutexAborts(t)
<1> USE DEF PthreadInv, Books
<1>1. ~LosesPost(t)
  BY Handed DEF LosesPost
<1>2. ~CondFinds(t)
  <2>1. pc[t] = "cond_wait" => cond.sem \in Sem
    BY Occupied DEF CondWaiting
  <2> QED BY <2>1, PthreadAssumption DEF CondFinds, Posts, Waiting
<1>3. ~MutexAborts(t)
  BY DEF MutexAborts, Calm
<1> QED BY <1>1, <1>2, <1>3

\* Nobody else has the mutex while one thread has it, and nobody tries for it
\* while mutex->lock is free.
LEMMA Alone ==
  ASSUME PthreadInv, NEW t \in Thread, NEW u \in Thread
  PROVE  /\ Active(t) /\ u # t =>
              ~holds[u] /\ pc[u] \notin Owning \union {"unlock_signal"}
         /\ LockFree => pc[u] \notin Trying
BY PthreadAssumption DEF PthreadInv, Books, OneToken, Active, Places, Trylocks, LockFree

\* What a thread's place in the code says about the mutex.
LEMMA PlacesStep ==
  ASSUME Calm, PthreadInv, [Next]_vars PROVE Places'
<1> USE DEF PthreadInv, Books
<1>1. CASE UNCHANGED vars
  BY <1>1 DEF vars, kVars, Places, Types, TypeOK, Owning, Initializing, Locking, CondWaiting,
              Signalling, Trying
<1>2. ASSUME NEW t \in Thread, NEW o \in MutexOp, MutexCall(t, o) PROVE Places'
  BY <1>2 DEF MutexCall, Goto, kVars, MutexOp, InitLabel, Places, Types, TypeOK, Owning,
              Initializing, Locking, CondWaiting, Signalling, Trying
<1>3. ASSUME NEW t \in Thread, NEW o \in MutexOp, InitSig(t, o) PROVE Places'
  BY <1>3 DEF InitSig, Goto, kVars, MutexOp, InitLabel, FieldsLabel, Places, Types, TypeOK,
              Owning, Initializing, Locking, CondWaiting, Signalling, Trying
<1>4. ASSUME NEW t \in Thread, NEW o \in MutexOp, InitDone(t, o) PROVE Places'
  BY <1>4 DEF InitDone, Goto, kVars, pVars, MutexOp, FieldsLabel, Places, Types, TypeOK, Owning,
              Initializing, Locking, CondWaiting, Signalling, Trying
<1>5. ASSUME NEW t \in Thread, LockSlow(t) PROVE Places'
  <2>1. \A u \in Thread : /\ pc'[u] = IF u = t THEN "lock_wait" ELSE pc[u]
                          /\ holds'[u] = holds[u]
    BY <1>5 DEF LockSlow, LockFree, Goto, kVars, Types, TypeOK
  <2>2. /\ mutex'.waiters > 0 /\ mutex'.sem = SemOf(mutex)
        /\ mutex'.cond_lock = mutex.cond_lock /\ mutex'.owner = mutex.owner
    BY <1>5 DEF LockSlow, LockFree, Goto, kVars, Types, TypeOK
  <2>3. mutex_lock' = mutex_lock /\ arg' = arg
    BY <1>5 DEF LockSlow, LockFree, Goto, kVars
  <2>4. mutex.cond_lock => SemOf(mutex) = mutex.sem
    BY DEF SemOf, Waiting, Posts
  <2>5. \A u \in Thread : pc[u] \notin Trying
    BY <1>5, Alone DEF LockSlow, LockFree, Goto, kVars
  <2>6. pc[t] = "lock" /\ mutex_lock = NoThread
    BY <1>5 DEF LockSlow, LockFree, Goto, kVars
  <2> QED BY <2>1, <2>2, <2>3, <2>4, <2>5, <2>6, PthreadAssumption DEF Places, Owning,
             Initializing, Locking, CondWaiting, Signalling, Trying
<1>6. ASSUME NEW t \in Thread, TakeFree(t) PROVE Places'
  <2>1. \A u \in Thread : /\ pc'[u] = IF u = t THEN "held" ELSE pc[u]
                          /\ holds'[u] = IF u = t THEN TRUE ELSE holds[u]
    BY <1>6 DEF TakeFree, LockFree, Goto, kVars, Types, TypeOK
  <2>2. /\ mutex'.waiters = mutex.waiters /\ mutex'.sem = mutex.sem
        /\ mutex'.cond_lock = mutex.cond_lock /\ mutex'.owner = TRUE
    BY <1>6 DEF TakeFree, LockFree, Goto, kVars, Types, TypeOK
  <2>3. mutex_lock' = mutex_lock /\ arg' = arg
    BY <1>6 DEF TakeFree, LockFree, Goto, kVars
  <2>4. mutex.cond_lock = FALSE /\ pc[t] \notin Trying
    BY <1>6 DEF TakeFree, LockFree, Goto, kVars, OneToken, Trying, Types, TypeOK
  <2>5. \A u \in Thread \ {t} :
          /\ pc'[u] = pc[u] /\ holds'[u] = holds[u] /\ (holds[u] => mutex.owner)
          /\ pc[u] \notin {"cond_wait", "cond_signal"}
    BY <2>1, <2>4 DEF Places
  <2>6. /\ holds'[t] /\ pc'[t] = "held" /\ mutex_lock' # t
        /\ mutex'.cond_lock = FALSE /\ mutex'.owner = TRUE
    BY <2>1, <2>2, <2>3, <2>4 DEF Trylocks
  <2> QED BY <2>2, <2>3, <2>4, <2>5, <2>6 DEF Places, Owning, Signalling, Trying
<1>7. ASSUME NEW t \in Thread, FindsPost(t) PROVE Places'
  BY <1>7 DEF FindsPost, Blocked, Goto, pVars, Places, Types, TypeOK, Owning, Initializing,
              Locking, CondWaiting, Signalling, Trying
<1>8. ASSUME NEW t \in Thread, FindsNoPost(t) PROVE Places'
  <2>1. /\ pc[t] \in {"lock_wait", "try_wait"} /\ pc'[t] \in {"lock_blocked", "try_blocked"}
        /\ \A u \in Thread \ {t} : pc'[u] = pc[u]
    BY <1>8 DEF FindsNoPost, Blocked, Goto, Types
  <2>2. mutex' = mutex /\ holds' = holds /\ arg' = arg
    BY <1>8 DEF FindsNoPost, pVars
  <2> QED BY <2>1, <2>2 DEF Places, Owning, Signalling
<1>9. ASSUME NEW t \in Thread, LockDoneLast(t) PROVE Places'
  <2>1. \A u \in Thread : /\ pc'[u] = IF u = t THEN "held" ELSE pc[u]
                          /\ holds'[u] = IF u = t THEN TRUE ELSE holds[u]
    BY <1>9 DEF LockDoneLast, LockFree, Goto, Types, TypeOK
  <2>2. mutex'.cond_lock = FALSE /\ mutex'.owner = TRUE
    BY <1>9 DEF LockDoneLast, LockFree, Goto, Types, TypeOK
  <2>3. mutex_lock' = mutex_lock /\ arg' = arg
    BY <1>9 DEF LockDoneLast, LockFree, Goto
  <2>4. \A u \in Thread : /\ u # t => ~holds[u] /\ pc[u] \notin Owning \union {"unlock_signal"}
                          /\ pc[u] \in Trying => u = t
    BY <1>9, Alone DEF LockDoneLast, LockFree, Goto, Active, Places, Owning
  <2>5. pc[t] = "lock_blocked" /\ mutex_lock = NoThread
    BY <1>9 DEF LockDoneLast, LockFree, Goto
  <2>6. \A u \in Thread \ {t} : /\ ~holds'[u] /\ mutex_lock' # u /\ pc'[u] \notin Trying
                                /\ pc'[u] \notin Owning \union {"unlock_signal"}
    BY <2>1, <2>3, <2>4, <2>5, PthreadAssumption
  <2>7. /\ holds'[t] /\ pc'[t] = "held" /\ mutex_lock' # t
        /\ mutex'.cond_lock = FALSE /\ mutex'.owner = TRUE
    BY <2>1, <2>2, <2>3, <2>5, PthreadAssumption
  <2> QED BY <2>6, <2>7 DEF Places, Owning, Signalling, Trying
<1>10. ASSUME NEW t \in Thread, LockDoneMore(t) PROVE Places'
  <2>1. \A u \in Thread : /\ pc'[u] = IF u = t THEN "held" ELSE pc[u]
                          /\ holds'[u] = IF u = t THEN TRUE ELSE holds[u]
    BY <1>10 DEF LockDoneMore, LockFree, Goto, Types, TypeOK
  <2>2. mutex'.cond_lock = FALSE /\ mutex'.owner = TRUE
    BY <1>10 DEF LockDoneMore, LockFree, Goto, Types, TypeOK
  <2>3. mutex_lock' = mutex_lock /\ arg' = arg
    BY <1>10 DEF LockDoneMore, LockFree, Goto
  <2>4. \A u \in Thread : /\ u # t => ~holds[u] /\ pc[u] \notin Owning \union {"unlock_signal"}
                          /\ pc[u] \in Trying => u = t
    BY <1>10, Alone DEF LockDoneMore, LockFree, Goto, Active, Places, Owning
  <2>5. pc[t] = "lock_blocked" /\ mutex_lock = NoThread
    BY <1>10 DEF LockDoneMore, LockFree, Goto
  <2>6. \A u \in Thread \ {t} : /\ ~holds'[u] /\ mutex_lock' # u /\ pc'[u] \notin Trying
                                /\ pc'[u] \notin Owning \union {"unlock_signal"}
    BY <2>1, <2>3, <2>4, <2>5, PthreadAssumption
  <2>7. /\ holds'[t] /\ pc'[t] = "held" /\ mutex_lock' # t
        /\ mutex'.cond_lock = FALSE /\ mutex'.owner = TRUE
    BY <2>1, <2>2, <2>3, <2>5, PthreadAssumption
  <2> QED BY <2>6, <2>7 DEF Places, Owning, Signalling, Trying
<1>11. ASSUME NEW t \in Thread, TryOwned(t) PROVE Places'
  <2>1. \A u \in Thread : /\ pc'[u] = IF u = t THEN "try_wait" ELSE pc[u]
                          /\ holds'[u] = holds[u]
    BY <1>11 DEF TryOwned, LockFree, Goto, kVars, Types, TypeOK
  <2>2. mutex' = mutex /\ mutex.waiters = 0 /\ mutex.cond_lock
    BY <1>11 DEF TryOwned, OneToken, Types, TypeOK
  <2>3. mutex_lock' = t /\ arg' = arg
    BY <1>11 DEF TryOwned, LockFree, Goto, kVars
  <2>4. \A u \in Thread : pc[u] \notin Trying
    BY <1>11, Alone DEF TryOwned, LockFree, Goto, kVars
  <2>5. pc[t] = "trylock"
    BY <1>11 DEF TryOwned, LockFree, Goto, kVars
  <2> QED BY <2>1, <2>2, <2>3, <2>4, <2>5 DEF Places, Owning, Initializing, Locking,
                                              CondWaiting, Signalling, Trying
<1>12. ASSUME NEW t \in Thread, TryBusy(t) PROVE Places'
  BY <1>12 DEF TryBusy, Goto, kVars, Places, Types, TypeOK, Owning, Initializing, Locking,
               CondWaiting, Signalling, Trying
<1>13. ASSUME NEW t \in Thread, TryDone(t) PROVE Places'
  <2>1. \A u \in Thread : /\ pc'[u] = IF u = t THEN "held" ELSE pc[u]
                          /\ holds'[u] = IF u = t THEN TRUE ELSE holds[u]
    BY <1>13 DEF TryDone, Goto, K!Leave, Types, TypeOK
  <2>2. mutex'.cond_lock = FALSE /\ mutex'.owner = TRUE
    BY <1>13 DEF TryDone, Types, TypeOK, OneToken, Trylocks, Trying
  <2>3. mutex_lock' = NoThread /\ arg' = arg
    BY <1>13 DEF TryDone, Goto, K!Leave
  <2>4. \A u \in Thread : /\ u # t => ~holds[u] /\ pc[u] \notin Owning \union {"unlock_signal"}
                          /\ pc[u] \in Trying => u = t
    BY <1>13, Alone DEF TryDone, Active, Places, Trylocks, Owning, Trying
  <2>5. pc[t] = "try_blocked" /\ mutex.owner
    BY <1>13 DEF TryDone, Trylocks, Trying, OneToken
  <2>6. \A u \in Thread \ {t} : /\ ~holds'[u] /\ mutex_lock' # u /\ pc'[u] \notin Trying
                                /\ pc'[u] \notin Owning \union {"unlock_signal"}
    BY <2>1, <2>3, <2>4, PthreadAssumption
  <2>7. /\ holds'[t] /\ pc'[t] = "held" /\ mutex_lock' # t
        /\ mutex'.cond_lock = FALSE /\ mutex'.owner = TRUE
    BY <2>1, <2>2, <2>3, PthreadAssumption
  <2> QED BY <2>6, <2>7 DEF Places, Owning, Signalling, Trying
<1>14. ASSUME NEW t \in Thread, Unlock(t) PROVE Places'
  <2>1. \A u \in Thread : /\ pc'[u] = IF u # t THEN pc[u]
                                     ELSE IF mutex.waiters > 0 THEN "unlock_signal" ELSE "out"
                          /\ holds'[u] = IF u = t THEN FALSE ELSE holds[u]
    BY <1>14 DEF Unlock, LockFree, Goto, kVars, Types, TypeOK
  <2>2. mutex'.waiters = mutex.waiters
    BY <1>14 DEF Unlock, LockFree, Goto, kVars, Types, TypeOK
  <2>3. mutex_lock' = mutex_lock /\ arg' = arg
    BY <1>14 DEF Unlock, LockFree, Goto, kVars
  <2>4. \A u \in Thread : /\ u # t => ~holds[u] /\ pc[u] \notin Owning \union {"unlock_signal"}
                          /\ pc[u] \in Trying => u = t
    BY <1>14, Alone DEF Unlock, LockFree, Goto, kVars, Active, Places, Owning
  <2>5. pc[t] = "held" /\ mutex_lock = NoThread
    BY <1>14 DEF Unlock, LockFree, Goto, kVars
  <2>6. \A u \in Thread \ {t} : /\ ~holds'[u] /\ mutex_lock' # u /\ pc'[u] \notin Trying
                                /\ pc'[u] \notin Owning \union {"unlock_signal"}
    BY <2>1, <2>3, <2>4, <2>5, PthreadAssumption
  <2>7. /\ ~holds'[t] /\ pc'[t] \in {"unlock_signal", "out"} /\ mutex_lock' # t
        /\ pc'[t] = "unlock_signal" => mutex'.waiters > 0
    BY <2>1, <2>2, <2>3, <2>5, PthreadAssumption
  <2> QED BY <2>6, <2>7 DEF Places, Owning, Signalling, Trying
<1>15. ASSUME NEW t \in Thread, StoresPost(t) PROVE Places'
  <2>1. /\ mutex' = mutex /\ mutex_lock' = mutex_lock /\ arg' = arg
        /\ \A u \in Thread \ {t} : pc'[u] = pc[u] /\ holds'[u] = holds[u]
    BY <1>15 DEF StoresPost, Releases, Goto, Types, TypeOK
  <2>2. pc'[t] \in {"out", "cond_blocked"} /\ ~holds'[t]
    BY <1>15 DEF StoresPost, Releases, Goto, Places, Owning, Signalling, Types, TypeOK
  <2> QED BY <2>1, <2>2 DEF Places, Owning
<1>16. ASSUME NEW t \in Thread, NEW w \in Thread, HandsTo(t, w) PROVE Places'
  BY <1>16 DEF HandsTo, Releases, Goto, Places, Types, TypeOK, Owning, Initializing, Locking,
               CondWaiting, Signalling, Trying
<1>17. ASSUME NEW t \in Thread, CondWaitFirst(t) PROVE Places'
  BY <1>17 DEF CondWaitFirst, Goto, kVars, Places, Types, TypeOK, Owning, Initializing, Locking,
               CondWaiting, Signalling, Trying
<1>18. ASSUME NEW t \in Thread, CondWaitMore(t) PROVE Places'
  BY <1>18 DEF CondWaitMore, Goto, kVars, Places, Types, TypeOK, Owning, Initializing, Locking,
               CondWaiting, Signalling, Trying
<1>19. ASSUME NEW t \in Thread, CondMutex(t) PROVE Places'
  <2>1. \A u \in Thread : /\ pc'[u] = IF u = t THEN "cond_wait" ELSE pc[u]
                          /\ holds'[u] = holds[u]
    BY <1>19 DEF CondMutex, LockFree, Goto, kVars, Types, TypeOK
  <2>2. mutex'.cond_lock = TRUE /\ mutex'.owner = mutex.owner /\ mutex'.waiters = mutex.waiters
    BY <1>19 DEF CondMutex, LockFree, Goto, kVars, Types, TypeOK
  <2>3. mutex_lock' = mutex_lock /\ arg' = arg
    BY <1>19 DEF CondMutex, LockFree, Goto, kVars
  <2>4. \A u \in Thread : /\ u # t => ~holds[u] /\ pc[u] \notin Owning \union {"unlock_signal"}
                          /\ pc[u] \in Trying => u = t
    BY <1>19, Alone DEF CondMutex, LockFree, Goto, kVars, Active, Places, Owning, CondWaiting
  <2>5. pc[t] = "cond_mutex" /\ mutex_lock = NoThread
    BY <1>19 DEF CondMutex, LockFree, Goto, kVars
  <2> QED BY <2>1, <2>2, <2>3, <2>4, <2>5, PthreadAssumption DEF Places, Owning, Initializing,
             Locking, CondWaiting, Signalling, Trying
<1>20. ASSUME NEW t \in Thread, CondBlocks(t) PROVE Places'
  BY <1>20 DEF CondBlocks, Goto, Places, Types, TypeOK, Owning, Initializing, Locking,
               CondWaiting, Signalling, Trying
<1>21. ASSUME NEW t \in Thread, CondDoneLast(t) PROVE Places'
  BY <1>21 DEF CondDoneLast, Goto, Places, Types, TypeOK, Owning, Initializing, Locking,
               CondWaiting, Signalling, Trying
<1>22. ASSUME NEW t \in Thread, CondDoneMore(t) PROVE Places'
  BY <1>22 DEF CondDoneMore, Goto, Places, Types, TypeOK, Owning, Initializing, Locking,
               CondWaiting, Signalling, Trying
<1>23. ASSUME NEW t \in Thread, SignalledLast(t) PROVE Places'
  BY <1>23 DEF SignalledLast, Goto, kVars, Places, Types, TypeOK, Owning, Initializing, Locking,
               CondWaiting, Signalling, Trying
<1>24. ASSUME NEW t \in Thread, SignalledMore(t) PROVE Places'
  BY <1>24 DEF SignalledMore, Goto, kVars, Places, Types, TypeOK, Owning, Initializing, Locking,
               CondWaiting, Signalling, Trying
<1>25. ASSUME NEW t \in Thread, NEW o \in SignalKind, CondAnnounce(t, o) PROVE Places'
  BY <1>25 DEF CondAnnounce, MaySignal, SignalKind, Goto, kVars, Places, Types, TypeOK, Owning,
               Initializing, Locking, CondWaiting, Signalling, Trying
<1>26. ASSUME NEW t \in Thread, NEW G \in SUBSET Thread, CondWakes(t, G) PROVE Places'
  BY <1>26 DEF CondWakes, SignalKind, Goto, pVars, Places, Types, TypeOK, Owning, Initializing,
               Locking, CondWaiting, Signalling, Trying
<1>27. ASSUME NEW t \in Thread, LosesPost(t) PROVE Places'
  BY <1>27, Excluded
<1>28. ASSUME NEW t \in Thread, CondFinds(t) PROVE Places'
  BY <1>28, Excluded
<1>29. ASSUME NEW t \in Thread, MutexAborts(t) PROVE Places'
  BY <1>29, Excluded
<1> QED
  BY <1>1, <1>2, <1>3, <1>4, <1>5, <1>6, <1>7, <1>8, <1>9, <1>10, <1>11, <1>12, <1>13, <1>14,
     <1>15, <1>16, <1>17, <1>18, <1>19, <1>20, <1>21, <1>22, <1>23, <1>24, <1>25, <1>26,
     <1>27, <1>28, <1>29, NextCases DEF Atoms


\* A mutex semaphore that goes back to the pool has no post.
LEMMA MutexSemEmpty ==
  ASSUME PthreadInv, NEW t \in Thread, LockDoneLast(t) \/ TryDone(t)
  PROVE  value[mutex.sem] = 0
<1> USE DEF PthreadInv, Books
<1>1. Active(t)
  BY DEF LockDoneLast, TryDone, Active
<1>2. mutex.sem \in Sem
  BY MutexSemIdle
<1> QED BY <1>1, <1>2, Handed, PthreadAssumption DEF OneToken, Stored

\* Only the mutex's semaphore stores a post, and one at most.
LEMMA PostsStep ==
  ASSUME Calm, PthreadInv, [Next]_vars PROVE Posts'
<1> USE DEF PthreadInv, Books
<1>1. CASE UNCHANGED vars
  BY <1>1 DEF vars, kVars, Posts
<1>2. ASSUME NEW t \in Thread, NEW o \in MutexOp, MutexCall(t, o) PROVE Posts'
  BY <1>2 DEF MutexCall, kVars, Posts, Types, TypeOK
<1>3. ASSUME NEW t \in Thread, NEW o \in MutexOp, InitSig(t, o) PROVE Posts'
  BY <1>3 DEF InitSig, kVars, Posts, Types, TypeOK
<1>4. ASSUME NEW t \in Thread, NEW o \in MutexOp, InitDone(t, o) PROVE Posts'
  BY <1>4 DEF InitDone, kVars, pVars, Posts, Types, TypeOK
<1>5. ASSUME NEW t \in Thread, LockSlow(t) PROVE Posts'
  <2>1. mutex'.sem = SemOf(mutex) /\ value' = value
    BY <1>5 DEF LockSlow, kVars, Types, TypeOK
  <2> QED BY <2>1, MutexSem, PthreadAssumption DEF Posts
<1>6. ASSUME NEW t \in Thread, TakeFree(t) PROVE Posts'
  BY <1>6 DEF TakeFree, kVars, Posts, Types, TypeOK
<1>7. ASSUME NEW t \in Thread, FindsPost(t) PROVE Posts'
  <2>1. mutex.sem \in Sem /\ mutex' = mutex
    BY <1>7, Occupied DEF FindsPost, Blocked, pVars, Locking, Trying
  <2>2. value'[mutex.sem] = 0 /\ \A s \in Sem \ {mutex.sem} : value'[s] = value[s]
    BY <1>7, <2>1, Handed DEF FindsPost, Types, TypeOK
  <2> QED BY <2>1, <2>2 DEF Posts
<1>8. ASSUME NEW t \in Thread, FindsNoPost(t) PROVE Posts'
  BY <1>8 DEF FindsNoPost, pVars, Posts, Types, TypeOK
<1>9. ASSUME NEW t \in Thread, LockDoneLast(t) PROVE Posts'
  <2>1. value[mutex.sem] = 0
    BY <1>9, MutexSemEmpty
  <2> QED BY <1>9, <2>1 DEF LockDoneLast, Posts, Types, TypeOK
<1>10. ASSUME NEW t \in Thread, LockDoneMore(t) PROVE Posts'
  BY <1>10 DEF LockDoneMore, Posts, Types, TypeOK
<1>11. ASSUME NEW t \in Thread, TryOwned(t) PROVE Posts'
  BY <1>11 DEF TryOwned, kVars, Posts, Types, TypeOK
<1>12. ASSUME NEW t \in Thread, TryBusy(t) PROVE Posts'
  BY <1>12 DEF TryBusy, kVars, Posts, Types, TypeOK
<1>13. ASSUME NEW t \in Thread, TryDone(t) PROVE Posts'
  <2>1. value[mutex.sem] = 0
    BY <1>13, MutexSemEmpty
  <2> QED BY <1>13, <2>1 DEF TryDone, K!Leave, Posts, Types, TypeOK
<1>14. ASSUME NEW t \in Thread, Unlock(t) PROVE Posts'
  BY <1>14 DEF Unlock, kVars, Posts, Types, TypeOK
<1>15. ASSUME NEW t \in Thread, StoresPost(t) PROVE Posts'
  <2>1. mutex.sem \in Sem /\ Released(t) = mutex.sem /\ Active(t)
    BY <1>15, Handed DEF StoresPost, Active, Places, Owning
  <2>2. value[mutex.sem] = 0
    BY <2>1, Handed, PthreadAssumption DEF OneToken, Stored
  <2>3. /\ value'[mutex.sem] = 1 /\ mutex' = mutex
        /\ \A s \in Sem \ {mutex.sem} : value'[s] = value[s]
    BY <1>15, <2>1, <2>2 DEF StoresPost, Types, TypeOK
  <2> QED BY <2>1, <2>3 DEF Posts
<1>16. ASSUME NEW t \in Thread, NEW w \in Thread, HandsTo(t, w) PROVE Posts'
  BY <1>16 DEF HandsTo, Posts, Types, TypeOK
<1>17. ASSUME NEW t \in Thread, CondWaitFirst(t) PROVE Posts'
  BY <1>17 DEF CondWaitFirst, kVars, Posts, Types, TypeOK
<1>18. ASSUME NEW t \in Thread, CondWaitMore(t) PROVE Posts'
  BY <1>18 DEF CondWaitMore, kVars, Posts, Types, TypeOK
<1>19. ASSUME NEW t \in Thread, CondMutex(t) PROVE Posts'
  <2>1. mutex'.sem = SemOf(mutex) /\ value' = value
    BY <1>19 DEF CondMutex, kVars, Types, TypeOK
  <2> QED BY <2>1, MutexSem, PthreadAssumption DEF Posts
<1>20. ASSUME NEW t \in Thread, CondBlocks(t) PROVE Posts'
  BY <1>20 DEF CondBlocks, Posts, Types, TypeOK
<1>21. ASSUME NEW t \in Thread, CondDoneLast(t) PROVE Posts'
  BY <1>21 DEF CondDoneLast, Posts, Types, TypeOK
<1>22. ASSUME NEW t \in Thread, CondDoneMore(t) PROVE Posts'
  BY <1>22 DEF CondDoneMore, Posts, Types, TypeOK
<1>23. ASSUME NEW t \in Thread, SignalledLast(t) PROVE Posts'
  BY <1>23 DEF SignalledLast, kVars, Posts, Types, TypeOK
<1>24. ASSUME NEW t \in Thread, SignalledMore(t) PROVE Posts'
  BY <1>24 DEF SignalledMore, kVars, Posts, Types, TypeOK
<1>25. ASSUME NEW t \in Thread, NEW o \in SignalKind, CondAnnounce(t, o) PROVE Posts'
  BY <1>25 DEF CondAnnounce, kVars, Posts, Types, TypeOK
<1>26. ASSUME NEW t \in Thread, NEW G \in SUBSET Thread, CondWakes(t, G) PROVE Posts'
  BY <1>26 DEF CondWakes, pVars, Posts, Types, TypeOK
<1>27. ASSUME NEW t \in Thread, LosesPost(t) PROVE Posts'
  BY <1>27, Excluded
<1>28. ASSUME NEW t \in Thread, CondFinds(t) PROVE Posts'
  BY <1>28, Excluded
<1>29. ASSUME NEW t \in Thread, MutexAborts(t) PROVE Posts'
  BY <1>29, Excluded
<1> QED
  BY <1>1, <1>2, <1>3, <1>4, <1>5, <1>6, <1>7, <1>8, <1>9, <1>10, <1>11, <1>12, <1>13, <1>14,
     <1>15, <1>16, <1>17, <1>18, <1>19, <1>20, <1>21, <1>22, <1>23, <1>24, <1>25, <1>26,
     <1>27, <1>28, <1>29, NextCases DEF Atoms

\* The mutex is with one thread, in its semaphore, or free.
LEMMA OneTokenStep ==
  ASSUME Calm, PthreadInv, [Next]_vars PROVE OneToken'
<1> USE DEF PthreadInv, Books
<1>1. CASE UNCHANGED vars
  BY <1>1 DEF vars, kVars, OneToken, Active, Stored, Waits, Places, Waiting, Posts, Types,
              TypeOK,
              Owning, Signalling, Trying
<1>2. ASSUME NEW t \in Thread, NEW o \in MutexOp, MutexCall(t, o) PROVE OneToken'
  BY <1>2, PthreadAssumption DEF MutexCall, Goto, kVars, MutexOp, InitLabel, OneToken, Active,
                                 Stored, Waits, Places, Waiting, Posts, Types, TypeOK, Owning,
                                 Signalling, Trying
<1>3. ASSUME NEW t \in Thread, NEW o \in MutexOp, InitSig(t, o) PROVE OneToken'
  <2>1. /\ holds' = holds /\ value' = value /\ waiters' = waiters /\ mutex'.sem = mutex.sem
        /\ mutex'.owner = mutex.owner /\ mutex'.waiters = mutex.waiters
        /\ mutex'.cond_lock = mutex.cond_lock
    BY <1>3 DEF InitSig, kVars, Types, TypeOK
  <2>2. \A u \in Thread : Active(u)' => Active(u)
    BY <1>3, <2>1 DEF InitSig, Goto, MutexOp, FieldsLabel, Active, Waits, Types
  <2> QED BY <2>1, <2>2 DEF OneToken, Stored
<1>4. ASSUME NEW t \in Thread, NEW o \in MutexOp, InitDone(t, o) PROVE OneToken'
  BY <1>4, PthreadAssumption DEF InitDone, Goto, kVars, pVars, MutexOp, FieldsLabel, OneToken,
                                 Active, Stored, Waits, Places, Waiting, Posts, Types, TypeOK,
                                 Owning, Signalling, Trying
<1>5. ASSUME NEW t \in Thread, LockSlow(t) PROVE OneToken'
  BY <1>5, MutexSem, PthreadAssumption DEF LockSlow, LockFree, Goto, kVars, OneToken, Active,
                                           Stored, Waits, Places, Waiting, Posts, Types, TypeOK,
                                           Owning, Signalling, Trying
<1>6. ASSUME NEW t \in Thread, TakeFree(t) PROVE OneToken'
  <2>1. \A u \in Thread : ~Active(u)
    <3>1. \A u \in Thread : pc[u] \notin Locking
      BY <1>6, Occupied DEF TakeFree
    <3> QED BY <1>6, <3>1 DEF TakeFree, Active, Places, Trylocks, OneToken, Locking, Trying
  <2>2. ~Stored /\ ~mutex.cond_lock
    BY <1>6 DEF TakeFree, OneToken
  <2>3. \A u \in Thread \ {t} : ~Active(u)'
    BY <1>6, <2>1 DEF TakeFree, Goto, kVars, Active, Waits, Types, TypeOK
  <2>4. ~Stored' /\ mutex'.cond_lock = mutex.cond_lock /\ mutex'.owner = TRUE
    BY <1>6, <2>2 DEF TakeFree, kVars, Stored, Types, TypeOK
  <2> QED BY <2>3, <2>4 DEF OneToken
<1>7. ASSUME NEW t \in Thread, FindsPost(t) PROVE OneToken'
  <2>1. mutex.sem \in Sem /\ pc[t] \in {"lock_wait", "try_wait"}
    BY <1>7, Occupied DEF FindsPost, Blocked, Locking, Trying
  <2>2. \A u \in Thread : ~Active(u)
    BY <1>7, <2>1, PthreadAssumption DEF FindsPost, OneToken, Stored
  <2>3. \A u \in Thread \ {t} : ~Active(u)'
    BY <1>7, <2>2 DEF FindsPost, Blocked, Goto, pVars, Active, Waits, Types, TypeOK
  <2>4. ~Stored' /\ mutex' = mutex
    <3>1. value[mutex.sem] = 1
      BY <1>7, <2>1, Handed DEF FindsPost
    <3> QED BY <1>7, <2>1, <3>1 DEF FindsPost, pVars, Stored, Types, TypeOK
  <2> QED BY <2>3, <2>4 DEF OneToken
<1>8. ASSUME NEW t \in Thread, FindsNoPost(t) PROVE OneToken'
  <2>1. mutex.sem \in Sem /\ pc[t] \in {"lock_wait", "try_wait"}
    BY <1>8, Occupied DEF FindsNoPost, Blocked, Locking, Trying
  <2>2. \A u \in Thread : Active(u)' => Active(u)
    <3>1. t \in waiters'[mutex.sem] /\ ~holds'[t]
      BY <1>8, <2>1 DEF FindsNoPost, pVars, Places, Owning, Signalling, Types, TypeOK
    <3>2. ~Active(t)'
      BY <1>8, <2>1, <3>1 DEF FindsNoPost, Blocked, Goto, pVars, Active, Waits, Types
    <3>3. \A u \in Thread \ {t} : Active(u)' => Active(u)
      BY <1>8, <2>1 DEF FindsNoPost, Blocked, Goto, pVars, Active, Waits, Types, TypeOK
    <3> QED BY <3>2, <3>3
  <2>3. ~Stored' /\ mutex' = mutex
    BY <1>8, <2>1 DEF FindsNoPost, pVars, Stored, Types, TypeOK
  <2> QED BY <2>2, <2>3 DEF OneToken
<1>9. ASSUME NEW t \in Thread, LockDoneLast(t) PROVE OneToken'
  BY <1>9, PthreadAssumption DEF LockDoneLast, LockFree, Goto, OneToken, Active, Stored, Waits,
                                 Places, Waiting, Posts, Types, TypeOK, Owning, Signalling, Trying
<1>10. ASSUME NEW t \in Thread, LockDoneMore(t) PROVE OneToken'
  BY <1>10, PthreadAssumption DEF LockDoneMore, LockFree, Goto, OneToken, Active, Stored, Waits,
                                  Places, Waiting, Posts, Types, TypeOK, Owning, Signalling, Trying
<1>11. ASSUME NEW t \in Thread, TryOwned(t) PROVE OneToken'
  BY <1>11, PthreadAssumption DEF TryOwned, LockFree, Goto, kVars, OneToken, Active, Stored,
                                  Waits, Places, Waiting, Posts, Types, TypeOK, Owning, Signalling,
                                  Trying
<1>12. ASSUME NEW t \in Thread, TryBusy(t) PROVE OneToken'
  BY <1>12, PthreadAssumption DEF TryBusy, Goto, kVars, OneToken, Active, Stored, Waits, Places,
                                  Waiting, Posts, Types, TypeOK, Owning, Signalling, Trying
<1>13. ASSUME NEW t \in Thread, TryDone(t) PROVE OneToken'
  BY <1>13, PthreadAssumption DEF TryDone, Goto, K!Leave, OneToken, Active, Stored, Waits,
                                  Places, Waiting, Posts, Types, TypeOK, Owning, Signalling, Trying
<1>14. ASSUME NEW t \in Thread, Unlock(t) PROVE OneToken'
  BY <1>14, PthreadAssumption DEF Unlock, LockFree, Goto, kVars, OneToken, Active, Stored,
                                  Waits, Places, Waiting, Posts, Types, TypeOK, Owning, Signalling,
                                  Trying
<1>15. ASSUME NEW t \in Thread, StoresPost(t) PROVE OneToken'
  <2>1. pc[t] \in {"unlock_signal", "cond_signal"} /\ Active(t) /\ mutex' = mutex
    BY <1>15 DEF StoresPost, Releases, Active, Places, Owning
  <2>2. mutex.sem \in Sem /\ ~Stored /\ \A u \in Thread \ {t} : ~Active(u)
    BY <1>15, <2>1, Handed DEF StoresPost, OneToken
  <2>3. ~Active(t)'
    <3>1. pc'[t] \in {"out", "cond_blocked"}
      BY <1>15, <2>1 DEF StoresPost, Releases, Goto, Types
    <3>2. pc[t] = "unlock_signal" => ~holds[t]
      BY DEF Places, Owning, Signalling
    <3>3. ~holds'[t]
      BY <1>15, <3>2 DEF StoresPost, Releases, Goto, Types, TypeOK
    <3> QED BY <3>1, <3>3 DEF Active
  <2>4. mutex.owner \/ mutex.waiters > 0
    BY <2>1 DEF Places, Owning
  <2>5. \A u \in Thread : ~Active(u)'
    BY <1>15, <2>2, <2>3 DEF StoresPost, Releases, Goto, Active, Waits, Types, TypeOK
  <2> QED BY <2>1, <2>4, <2>5 DEF OneToken
<1>16. ASSUME NEW t \in Thread, NEW w \in Thread, HandsTo(t, w) PROVE OneToken'
  <2>1. pc[t] \in {"unlock_signal", "cond_signal"} /\ Active(t) /\ mutex' = mutex
    BY <1>16 DEF HandsTo, Releases, Active, Places, Owning
  <2>2. mutex.sem \in Sem /\ ~Stored /\ \A u \in Thread \ {t} : ~Active(u)
    BY <1>16, <2>1, Handed DEF HandsTo, OneToken
  <2>3. ~Active(t)'
    <3>1. pc'[t] \in {"out", "cond_blocked"}
      BY <1>16, <2>1 DEF HandsTo, Releases, Goto, Types
    <3>2. pc[t] = "unlock_signal" => ~holds[t]
      BY DEF Places, Owning, Signalling
    <3>3. ~holds'[t]
      BY <1>16, <3>2 DEF HandsTo, Releases, Goto, Types, TypeOK
    <3> QED BY <3>1, <3>3 DEF Active
  <2>4. mutex.owner \/ mutex.waiters > 0
    BY <2>1 DEF Places, Owning
  <2>5. \A u \in Thread \ {t, w} : ~Active(u)'
    BY <1>16, <2>2 DEF HandsTo, Releases, Goto, Active, Waits, Types, TypeOK
  <2>6. ~Stored'
    BY <1>16, <2>2 DEF HandsTo, Stored
  <2> QED BY <2>1, <2>3, <2>5, <2>6 DEF OneToken
<1>17. ASSUME NEW t \in Thread, CondWaitFirst(t) PROVE OneToken'
  BY <1>17, PthreadAssumption DEF CondWaitFirst, Goto, kVars, OneToken, Active, Stored, Waits,
                                  Places, Waiting, Posts, Types, TypeOK, Owning, Signalling, Trying
<1>18. ASSUME NEW t \in Thread, CondWaitMore(t) PROVE OneToken'
  BY <1>18, PthreadAssumption DEF CondWaitMore, Goto, kVars, OneToken, Active, Stored, Waits,
                                  Places, Waiting, Posts, Types, TypeOK, Owning, Signalling, Trying
<1>19. ASSUME NEW t \in Thread, CondMutex(t) PROVE OneToken'
  BY <1>19, MutexSem, PthreadAssumption DEF CondMutex, LockFree, Goto, kVars, OneToken, Active,
                                            Stored, Waits, Places, Waiting, Posts, Types, TypeOK,
                                            Owning, Signalling, Trying
<1>20. ASSUME NEW t \in Thread, CondBlocks(t) PROVE OneToken'
  BY <1>20, PthreadAssumption DEF CondBlocks, Goto, OneToken, Active, Stored, Waits, Places,
                                  Waiting, Posts, Types, TypeOK, Owning, Signalling, Trying
<1>21. ASSUME NEW t \in Thread, CondDoneLast(t) PROVE OneToken'
  BY <1>21, PthreadAssumption DEF CondDoneLast, Goto, OneToken, Active, Stored, Waits, Places,
                                  Waiting, Posts, Types, TypeOK, Owning, Signalling, Trying
<1>22. ASSUME NEW t \in Thread, CondDoneMore(t) PROVE OneToken'
  <2>1. mutex' = mutex /\ value' = value /\ waiters' = waiters /\ holds' = holds
    BY <1>22 DEF CondDoneMore
  <2>2. \A u \in Thread : Active(u)' => Active(u)
    BY <1>22, <2>1 DEF CondDoneMore, Goto, Active, Waits, Types
  <2> QED BY <2>1, <2>2 DEF OneToken, Stored
<1>23. ASSUME NEW t \in Thread, SignalledLast(t) PROVE OneToken'
  BY <1>23, PthreadAssumption DEF SignalledLast, Goto, kVars, OneToken, Active, Stored, Waits,
                                  Places, Waiting, Posts, Types, TypeOK, Owning, Signalling, Trying
<1>24. ASSUME NEW t \in Thread, SignalledMore(t) PROVE OneToken'
  BY <1>24, PthreadAssumption DEF SignalledMore, Goto, kVars, OneToken, Active, Stored, Waits,
                                  Places, Waiting, Posts, Types, TypeOK, Owning, Signalling, Trying
<1>25. ASSUME NEW t \in Thread, NEW o \in SignalKind, CondAnnounce(t, o) PROVE OneToken'
  BY <1>25, PthreadAssumption DEF CondAnnounce, MaySignal, SignalKind, Goto, kVars, OneToken,
                                  Active, Stored, Waits, Places, Waiting, Posts, Types, TypeOK,
                                  Owning, Signalling, Trying
<1>26. ASSUME NEW t \in Thread, NEW G \in SUBSET Thread, CondWakes(t, G) PROVE OneToken'
  BY <1>26, PthreadAssumption DEF CondWakes, SignalKind, Goto, pVars, OneToken, Active, Stored,
                                  Waits, Places, Waiting, Posts, Types, TypeOK, Owning, Signalling,
                                  Trying
<1>27. ASSUME NEW t \in Thread, LosesPost(t) PROVE OneToken'
  BY <1>27, Excluded
<1>28. ASSUME NEW t \in Thread, CondFinds(t) PROVE OneToken'
  BY <1>28, Excluded
<1>29. ASSUME NEW t \in Thread, MutexAborts(t) PROVE OneToken'
  BY <1>29, Excluded
<1> QED
  BY <1>1, <1>2, <1>3, <1>4, <1>5, <1>6, <1>7, <1>8, <1>9, <1>10, <1>11, <1>12, <1>13, <1>14,
     <1>15, <1>16, <1>17, <1>18, <1>19, <1>20, <1>21, <1>22, <1>23, <1>24, <1>25, <1>26,
     <1>27, <1>28, <1>29, NextCases DEF Atoms


-----------------------------------------------------------------------------
(* The invariant                                                           *)

\* The pool first holds every semaphore once.
LEMMA PoolInit ==
  ASSUME Init PROVE pool \in Seq(Sem) /\ Distinct(pool) /\ Values(pool) = Sem
<1> DEFINE n == Cardinality(Sem)
           D == 1 .. n
<1>1. IsFiniteSet(Sem) /\ n \in Nat
  BY PthreadAssumption, FS_CardinalityType
<1>2. pool \in [D -> Sem] /\ Distinct(pool)
  BY DEF Init, Distinct
<1>3. pool \in Seq(Sem)
  BY <1>1, <1>2
<1>4. Cardinality(D) = n
  BY <1>1, FS_Interval
<1> HIDE DEF D
<1>5. pool \in Injection(D, Sem)
  BY <1>2 DEF Injection, IsInjective, Distinct
<1>6. pool \in Surjection(D, Sem)
  BY <1>1, <1>4, <1>5, FS_Injection
<1>7. Values(pool) = Sem
  BY <1>2, <1>6 DEF Surjection, Values
<1> QED BY <1>2, <1>3, <1>7

\* The initial states satisfy both invariants.
LEMMA PthreadInit == ASSUME Static # "race", Init PROVE PthreadInv
<1>1. Types
  BY PoolInit DEF Init, Types, TypeOK, Label, Arg, NoArg
<1>2. Starting
  BY PthreadAssumption DEF Init, Starting, Fresh, Initializing
<1>3. Counters
  <2>1. Lockers = {} /\ CondWaiters = {} /\ Announced = {}
    BY DEF Init, Lockers, CondWaiters, Announced, Locking, CondWaiting, NoArg
  <2> QED BY <2>1, FS_EmptySet DEF Init, Counters, Signalling, NoArg
<1>4. Waiting /\ Posts
  BY PthreadAssumption DEF Init, Waiting, Posts
<1>5. Pool
  <2>1. mutex.sem = NoSem /\ cond.sem = NoSem
    BY DEF Init
  <2> QED BY <2>1, PoolInit, PthreadAssumption DEF Pool
<1>6. Places /\ Trylocks
  BY PthreadAssumption DEF Init, Places, Trylocks, Owning, Signalling, Trying
<1>7. OneToken
  BY DEF Init, OneToken, Active, Stored
<1> QED BY <1>1, <1>2, <1>3, <1>4, <1>5, <1>6, <1>7 DEF PthreadInv, Books

\* Whatever waits UNIX signals interrupt, those of pthread_mutex_lock included:
\* the counters count the threads, the pool holds what neither object uses, and
\* only threads at the right place wait on a semaphore.  The one condition is
\* that the first use of a static mutex does not overlap another.
THEOREM BooksInvariant == ASSUME Static # "race" PROVE Spec => []Books
<1>1. Init => Books
  BY PthreadInit DEF PthreadInv
<1>2. Books /\ [Next]_vars => Books'
  BY BooksStep
<1> QED BY <1>1, <1>2, PTL DEF Spec

\* mutex->waiters, cond->waiters and cond->sigspending count the threads that
\* they stand for, and the semaphores are there while they are needed, whatever
\* the kernel calls return and whatever waits are interrupted, unless first uses
\* of a static mutex overlap.
THEOREM CountersExact == ASSUME Static # "race" PROVE Spec => []CountsExact
<1>1. Books => CountsExact
  <2> SUFFICES ASSUME Books PROVE CountsExact
    OBVIOUS
  <2>1. TypeOK
    BY DEF Books, Types
  <2>2. /\ mutex.waiters = Cardinality({t \in Thread : pc[t] \in Locking})
        /\ cond.waiters = Cardinality({t \in Thread : pc[t] \in CondWaiting})
        /\ cond.sigspending = Cardinality(Announced)
    BY DEF Books, Counters, Lockers, CondWaiters
  <2> QED BY <2>1, <2>2 DEF Books, Waiting, CountsExact
<1> QED BY <1>1, BooksInvariant, PTL

\* PoolSound without the posts: a semaphore is in the pool once or in use by one
\* object, and nobody waits on one in the pool
PoolUnshared ==
  /\ \A i, j \in DOMAIN pool : pool[i] = pool[j] => i = j
  /\ \A i \in DOMAIN pool :
       pool[i] # mutex.sem /\ pool[i] # cond.sem /\ waiters[pool[i]] = {}
  /\ mutex.sem # NoSem => mutex.sem # cond.sem

\* A semaphore is in the pool once, or in use by one object, and nobody waits on
\* one in the pool: whatever waits are interrupted, unless first uses of a static
\* mutex overlap.  It may have a post there: see PoolClean.
THEOREM PoolNotShared == ASSUME Static # "race" PROVE Spec => []PoolUnshared
<1>1. Books => PoolUnshared
  <2> SUFFICES ASSUME Books PROVE PoolUnshared
    OBVIOUS
  <2> USE DEF Books
  <2>1. \A i \in DOMAIN pool : pool[i] \in Sem \ {mutex.sem, cond.sem}
    BY DEF Pool, Values
  <2>2. \A s \in Sem \ {mutex.sem, cond.sem} : waiters[s] = {}
    BY DEF Waiting, Types, TypeOK
  <2> QED BY <2>1, <2>2 DEF PoolUnshared, Pool, Distinct, Waiting
<1> QED BY <1>1, BooksInvariant, PTL

\* When UNIX signals interrupt condition waits only and first uses of a static
\* mutex do not overlap: the mutex is with at most one thread, is stored as one
\* post in its semaphore, or is free.
THEOREM PthreadInvariant == ASSUME Calm PROVE Spec => []PthreadInv
<1>1. Init => PthreadInv
  BY PthreadInit DEF Calm
<1>2. PthreadInv /\ [Next]_vars => PthreadInv'
  BY BooksStep, PostsStep, PlacesStep, OneTokenStep DEF PthreadInv
<1> QED BY <1>1, <1>2, PTL DEF Spec

\* Under the same two conditions: pthread_mutex_lock, pthread_mutex_trylock and
\* pthread_cond_wait let at most one thread at a time hold the mutex, also when
\* it is handed on through the semaphore and when trylock waits for a release in
\* progress.
THEOREM OneHolder == ASSUME Calm PROVE Spec => []MutualExclusion
<1>1. PthreadInv => MutualExclusion
  BY DEF PthreadInv, OneToken, Active, MutualExclusion
<1> QED BY <1>1, PthreadInvariant, PTL

\* Under the same two conditions: a semaphore in the pool also has no post for
\* its next user to find.  An interrupted pthread_mutex_lock leaves one there.
THEOREM PoolClean == ASSUME Calm PROVE Spec => []PoolSound
<1>1. PthreadInv => PoolSound
  <2> SUFFICES ASSUME PthreadInv PROVE PoolSound
    OBVIOUS
  <2> USE DEF PthreadInv, Books
  <2>1. \A i \in DOMAIN pool : pool[i] \in Sem \ {mutex.sem, cond.sem}
    BY DEF Pool, Values
  <2>2. \A s \in Sem \ {mutex.sem, cond.sem} : value[s] = 0 /\ waiters[s] = {}
    BY DEF Waiting, Posts, Types, TypeOK
  <2>3. mutex.sem # NoSem => mutex.sem # cond.sem
    BY DEF Waiting
  <2> QED BY <2>1, <2>2, <2>3 DEF PoolSound, Pool, Distinct
<1> QED BY <1>1, PthreadInvariant, PTL

=============================================================================
