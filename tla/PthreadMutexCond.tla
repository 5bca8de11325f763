--------------------------- MODULE PthreadMutexCond ---------------------------
(***************************************************************************)
(* One pthread mutex and one condition variable that uses it:              *)
(* Libc-166/pthreads.subproj/pthread_mutex.c, pthread_cond.c and the pool  *)
(* of Mach semaphores in pthread.c.  The kernel semaphores are those of    *)
(* SemaphoreContract, which sync_sema.c implements (module Semaphore).     *)
(*                                                                         *)
(* Each section under mutex->lock or cond->lock is one action: the spin    *)
(* locks are never held across a blocking call, with one exception, so     *)
(* only that one (pthread_mutex_trylock) shows mutex->lock as held.  A     *)
(* system call is a separate action, and reads mutex->sem and cond->sem    *)
(* where the code does, after the spin lock has been dropped.              *)
(***************************************************************************)
EXTENDS Naturals, FiniteSets, Sequences

CONSTANTS
  Thread, Sem,
  NoSem,       \* MACH_PORT_NULL
  NoThread,
  Static,      \* how the mutex was initialized: by a call of pthread_mutex_init
               \* ("no"), or statically, with PTHREAD_MUTEX_INITIALIZER, and then
               \* first used by one thread alone ("first") or by several ("race")
  Interrupts,  \* the calls in which UNIX signals may interrupt the wait
  Ops          \* what the threads do

AllOps == {"lock", "trylock", "wait", "timedwait", "signal", "signal_thread",
           "broadcast", "signal_unlocked", "broadcast_unlocked"}

ASSUME PthreadAssumption ==
  /\ IsFiniteSet(Thread)
  /\ IsFiniteSet(Sem) /\ Cardinality(Sem) >= 2     \* the code adds to the pool at need
  /\ NoSem \notin Sem /\ NoThread \notin Thread
  /\ Static \in {"no", "first", "race"}
  /\ Interrupts \subseteq {"lock_blocked", "try_blocked", "cond_signal", "cond_blocked"}
  /\ Ops \subseteq AllOps

VARIABLES
  value, waiters, alive, granted,   \* the kernel's semaphores (SemaphoreContract)
  pool,                             \* the free part of sem_pool, next one first
  mutex,                            \* the pthread_mutex_t
  mutex_lock,                       \* the thread that holds mutex->lock in trylock
  cond,                             \* the pthread_cond_t
  pc,
  holds,                            \* whether the thread has the mutex locked
  arg                               \* semaphore the thread's kernel call waits on,
                                    \* and the one it signals; broadcast's delta

K == INSTANCE SemaphoreContract WITH posted <- {}

kVars == <<value, waiters, alive, granted>>
vars == <<kVars, pool, mutex, mutex_lock, cond, pc, holds, arg>>

NoArg == [wait |-> NoSem, signal |-> NoSem, delta |-> 0]

Init ==
  /\ value = [s \in Sem |-> 0]
  /\ waiters = [s \in Sem |-> {}]
  /\ alive = Sem
  /\ granted = {}
  /\ pool \in {p \in [1 .. Cardinality(Sem) -> Sem] :
                 \A i, j \in DOMAIN p : p[i] = p[j] => i = j}
  /\ mutex = [sig |-> IF Static = "no" THEN "SIG" ELSE "SIG_init", owner |-> FALSE,
              waiters |-> 0, cond_lock |-> FALSE, sem |-> NoSem]
  /\ mutex_lock = NoThread
  /\ cond = [busy |-> FALSE, waiters |-> 0, sigspending |-> 0, sem |-> NoSem]
  /\ pc = [t \in Thread |-> "out"]
  /\ holds = [t \in Thread |-> FALSE]
  /\ arg = [t \in Thread |-> NoArg]

Goto(t, l) == pc' = [pc EXCEPT ![t] = l]
LockFree == mutex_lock = NoThread

\* new_sem_from_pool for a field that may already have one
SemOf(f) == IF f.sem = NoSem THEN Head(pool) ELSE f.sem
PoolAfterNew(f) == IF f.sem = NoSem THEN Tail(pool) ELSE pool

\* restore_sem_to_pool
Restored(s) == <<s>> \o pool

-----------------------------------------------------------------------------
(* Kernel calls                                                            *)

\* semaphore_wait's first half, which returns at once if there is a post (or,
\* given MACH_PORT_NULL, with an error that is ignored)
SemWait(t, s) ==
  \/ s \in Sem /\ (K!Take(t, s) \/ K!Enqueue(t, s))
  \/ s \notin Sem /\ UNCHANGED kVars
Waits(t) == \E s \in Sem : t \in waiters[s]

\* semaphore_signal: one waiter, or stored
SemSignal(s) ==
  \/ s \in Sem /\ waiters[s] # {} /\ K!GrantOne(s)
  \/ s \in Sem /\ K!Store(s)
  \/ s \notin Sem /\ UNCHANGED kVars

-----------------------------------------------------------------------------
(* pthread_mutex_init, as run by pthread_mutex_lock and                    *)
(* pthread_mutex_trylock on a static mutex: the signature is set first, the*)
(* rest of the fields after it.                                            *)

MutexOp == {"lock", "trylock"}
Initializing == {"init_lock", "init_trylock", "fields_lock", "fields_trylock"}
InitLabel == [lock |-> "init_lock", trylock |-> "init_trylock"]
FieldsLabel == [lock |-> "fields_lock", trylock |-> "fields_trylock"]

\* pthread_mutex_lock and pthread_mutex_trylock look at the signature
MutexCall(t, o) ==
  /\ o \in Ops
  /\ pc[t] = "out"
  /\ Static = "first" => \A u \in Thread : pc[u] \notin Initializing
  /\ Goto(t, IF mutex.sig = "SIG_init" THEN InitLabel[o] ELSE o)
  /\ UNCHANGED <<kVars, pool, mutex, mutex_lock, cond, holds, arg>>

InitSig(t, o) ==
  /\ pc[t] = InitLabel[o]
  /\ mutex' = [mutex EXCEPT !.sig = "SIG"]
  /\ Goto(t, FieldsLabel[o])
  /\ UNCHANGED <<kVars, pool, mutex_lock, cond, holds, arg>>

InitFields(t, o) ==
  /\ pc[t] = FieldsLabel[o]
  /\ mutex' = [mutex EXCEPT !.owner = FALSE, !.waiters = 0,
                            !.cond_lock = FALSE, !.sem = NoSem]
  /\ Goto(t, o)
  /\ UNCHANGED <<kVars, pool, mutex_lock, cond, holds, arg>>

-----------------------------------------------------------------------------
(* pthread_mutex_lock                                                      *)

\* Mutant: looks at the owner only, so it overtakes a hand-off in progress
LockBarges(t) ==
  /\ pc[t] = "lock"
  /\ LockFree
  /\ \/ /\ mutex.owner
        /\ mutex' = [mutex EXCEPT !.waiters = @ + 1, !.sem = SemOf(mutex)]
        /\ pool' = PoolAfterNew(mutex)
        /\ Goto(t, "lock_wait")
        /\ UNCHANGED holds
     \/ /\ ~mutex.owner
        /\ mutex' = [mutex EXCEPT !.owner = TRUE]
        /\ holds' = [holds EXCEPT ![t] = TRUE]
        /\ Goto(t, "held")
        /\ UNCHANGED pool
  /\ UNCHANGED <<kVars, mutex_lock, cond, arg>>

Lock(t) ==
  /\ pc[t] = "lock"
  /\ LockFree
  /\ \/ /\ mutex.waiters > 0 \/ mutex.owner
        /\ mutex' = [mutex EXCEPT !.waiters = @ + 1, !.sem = SemOf(mutex)]
        /\ pool' = PoolAfterNew(mutex)
        /\ Goto(t, "lock_wait")
        /\ UNCHANGED holds
     \/ /\ ~(mutex.waiters > 0 \/ mutex.owner)
        /\ mutex' = [mutex EXCEPT !.owner = TRUE]
        /\ holds' = [holds EXCEPT ![t] = TRUE]
        /\ Goto(t, "held")
        /\ UNCHANGED pool
  /\ UNCHANGED <<kVars, mutex_lock, cond, arg>>

\* semaphore_wait(mutex->sem)
LockWait(t) ==
  /\ pc[t] = "lock_wait"
  /\ SemWait(t, mutex.sem)
  /\ Goto(t, "lock_blocked")
  /\ UNCHANGED <<pool, mutex, mutex_lock, cond, holds, arg>>

\* After it, whatever it returned
LockDone(t) ==
  /\ pc[t] = "lock_blocked"
  /\ ~Waits(t)
  /\ LockFree
  /\ mutex' = [mutex EXCEPT !.waiters = @ - 1,
                            !.sem = IF mutex.waiters = 1 THEN NoSem ELSE @,
                            !.cond_lock = FALSE,
                            !.owner = TRUE]
  /\ pool' = IF mutex.waiters = 1 THEN Restored(mutex.sem) ELSE pool
  /\ holds' = [holds EXCEPT ![t] = TRUE]
  /\ Goto(t, "held")
  /\ K!Leave(t)
  /\ UNCHANGED <<mutex_lock, cond, arg>>

-----------------------------------------------------------------------------
(* pthread_mutex_trylock                                                   *)

\* Mutant: takes a mutex released by pthread_cond_wait without its post
TryLockNoWait(t) ==
  /\ pc[t] = "trylock"
  /\ LockFree
  /\ mutex.waiters = 0 /\ (mutex.owner => mutex.cond_lock)
  /\ mutex' = [mutex EXCEPT !.owner = TRUE, !.cond_lock = FALSE]
  /\ Goto(t, "held")
  /\ holds' = [holds EXCEPT ![t] = TRUE]
  /\ UNCHANGED <<kVars, pool, mutex_lock, cond, arg>>

TryLock(t) ==
  /\ pc[t] = "trylock"
  /\ LockFree
  /\ mutex.waiters = 0 /\ (mutex.owner => mutex.cond_lock)
  /\ mutex' = [mutex EXCEPT !.owner = TRUE]
  /\ \/ /\ mutex.cond_lock
        /\ mutex_lock' = t
        /\ Goto(t, "try_wait")
        /\ UNCHANGED holds
     \/ /\ ~mutex.cond_lock
        /\ holds' = [holds EXCEPT ![t] = TRUE]
        /\ Goto(t, "held")
        /\ UNCHANGED mutex_lock
  /\ UNCHANGED <<kVars, pool, cond, arg>>

\* EBUSY, also when another pthread_mutex_trylock has mutex->lock
TryBusy(t) ==
  /\ pc[t] = "trylock"
  /\ ~LockFree \/ mutex.waiters > 0 \/ (mutex.owner /\ ~mutex.cond_lock)
  /\ Goto(t, "out")
  /\ UNCHANGED <<kVars, pool, mutex, mutex_lock, cond, holds, arg>>

\* semaphore_wait(mutex->sem) with mutex->lock held: the thread in
\* pthread_cond_wait that set cond_lock is about to post it
TryWait(t) ==
  /\ pc[t] = "try_wait"
  /\ SemWait(t, mutex.sem)
  /\ Goto(t, "try_blocked")
  /\ UNCHANGED <<pool, mutex, mutex_lock, cond, holds, arg>>

TryDone(t) ==
  /\ pc[t] = "try_blocked"
  /\ ~Waits(t)
  /\ pool' = Restored(mutex.sem)
  /\ mutex' = [mutex EXCEPT !.cond_lock = FALSE, !.sem = NoSem]
  /\ mutex_lock' = NoThread
  /\ holds' = [holds EXCEPT ![t] = TRUE]
  /\ Goto(t, "held")
  /\ K!Leave(t)
  /\ UNCHANGED <<cond, arg>>

-----------------------------------------------------------------------------
(* pthread_mutex_unlock                                                    *)

\* Mutant: leaves the waiters to somebody else
UnlockNoSignal(t) ==
  /\ pc[t] = "held"
  /\ LockFree
  /\ mutex' = [mutex EXCEPT !.owner = FALSE]
  /\ holds' = [holds EXCEPT ![t] = FALSE]
  /\ Goto(t, "out")
  /\ UNCHANGED <<kVars, pool, mutex_lock, cond, arg>>

Unlock(t) ==
  /\ pc[t] = "held"
  /\ LockFree
  /\ mutex' = [mutex EXCEPT !.owner = FALSE]
  /\ holds' = [holds EXCEPT ![t] = FALSE]
  /\ Goto(t, IF mutex.waiters > 0 THEN "unlock_signal" ELSE "out")
  /\ UNCHANGED <<kVars, pool, mutex_lock, cond, arg>>

UnlockSignal(t) ==
  /\ pc[t] = "unlock_signal"
  /\ SemSignal(mutex.sem)
  /\ Goto(t, "out")
  /\ UNCHANGED <<pool, mutex, mutex_lock, cond, holds, arg>>

-----------------------------------------------------------------------------
(* pthread_cond_wait, pthread_cond_timedwait                               *)

\* Under cond->lock; the first waiter also runs _pthread_cond_add
CondWait(t) ==
  /\ Ops \intersect {"wait", "timedwait"} # {}
  /\ pc[t] = "held"
  /\ \/ /\ cond.waiters = 0
        /\ LockFree
        /\ cond' = [cond EXCEPT !.waiters = 1, !.busy = TRUE, !.sem = SemOf(cond)]
        /\ pool' = PoolAfterNew(cond)
     \/ /\ cond.waiters > 0
        /\ cond' = [cond EXCEPT !.waiters = @ + 1]
        /\ UNCHANGED pool
  /\ Goto(t, "cond_mutex")
  /\ UNCHANGED <<kVars, mutex, mutex_lock, holds, arg>>

\* Under mutex->lock: there must be a semaphore to release the mutex through
CondMutex(t) ==
  /\ pc[t] = "cond_mutex"
  /\ LockFree
  /\ mutex' = [mutex EXCEPT !.sem = SemOf(mutex), !.cond_lock = TRUE]
  /\ pool' = PoolAfterNew(mutex)
  /\ Goto(t, "cond_wait")
  /\ UNCHANGED <<kVars, mutex_lock, cond, holds, arg>>

\* semaphore_wait_signal(cond->sem, mutex->sem): the wait is asserted ...
CondSemWait(t) ==
  /\ pc[t] = "cond_wait"
  /\ arg' = [arg EXCEPT ![t].wait = cond.sem, ![t].signal = mutex.sem]
  /\ SemWait(t, cond.sem)
  /\ Goto(t, "cond_signal")
  /\ UNCHANGED <<pool, mutex, mutex_lock, cond, holds>>

\* Mutant: the companion signal is dropped
CondSignalDropped(t) ==
  /\ pc[t] = "cond_signal"
  /\ holds' = [holds EXCEPT ![t] = FALSE]
  /\ Goto(t, "cond_blocked")
  /\ UNCHANGED <<kVars, pool, mutex, mutex_lock, cond, arg>>

\* ... and then the mutex is released by signalling its semaphore
CondSemSignal(t) ==
  /\ pc[t] = "cond_signal"
  /\ SemSignal(arg[t].signal)
  /\ holds' = [holds EXCEPT ![t] = FALSE]
  /\ Goto(t, "cond_blocked")
  /\ UNCHANGED <<pool, mutex, mutex_lock, cond, arg>>

\* Mutant: returns the semaphore although a signaller is about to use it
CondDoneRestores(t) ==
  /\ pc[t] = "cond_blocked"
  /\ ~Waits(t)
  /\ \/ /\ cond.waiters = 1 /\ LockFree
        /\ cond' = [cond EXCEPT !.waiters = 0, !.busy = FALSE, !.sem = NoSem]
        /\ pool' = Restored(cond.sem)
     \/ /\ cond.waiters > 1
        /\ cond' = [cond EXCEPT !.waiters = @ - 1]
        /\ UNCHANGED pool
  /\ arg' = [arg EXCEPT ![t] = NoArg]
  /\ Goto(t, "lock")
  /\ K!Leave(t)
  /\ UNCHANGED <<mutex, mutex_lock, holds>>

\* Under cond->lock; the last waiter also runs _pthread_cond_remove, which
\* leaves the semaphore to the last signaller if there are any.  Then
\* pthread_mutex_lock.
CondDone(t) ==
  /\ pc[t] = "cond_blocked"
  /\ ~Waits(t)
  /\ \/ /\ cond.waiters = 1 /\ cond.sigspending = 0 /\ LockFree
        /\ cond' = [cond EXCEPT !.waiters = 0, !.busy = FALSE, !.sem = NoSem]
        /\ pool' = Restored(cond.sem)
     \/ /\ cond.waiters = 1 /\ cond.sigspending > 0 /\ LockFree
        /\ cond' = [cond EXCEPT !.waiters = 0, !.busy = FALSE]
        /\ UNCHANGED pool
     \/ /\ cond.waiters > 1
        /\ cond' = [cond EXCEPT !.waiters = @ - 1]
        /\ UNCHANGED pool
  /\ arg' = [arg EXCEPT ![t] = NoArg]
  /\ Goto(t, "lock")
  /\ K!Leave(t)
  /\ UNCHANGED <<mutex, mutex_lock, holds>>

-----------------------------------------------------------------------------
(* pthread_cond_signal, pthread_cond_signal_thread_np,                     *)
(* pthread_cond_broadcast: with the mutex held, or without it              *)

MaySignal(t, o) ==
  \/ o \in Ops /\ pc[t] = "held"
  \/ o = "signal" /\ "signal_unlocked" \in Ops /\ pc[t] = "out"
  \/ o = "broadcast" /\ "broadcast_unlocked" \in Ops /\ pc[t] = "out"

\* "Avoid kernel call since there are not enough waiters...": the call returns
\* without changing anything
CondSkips(t, o) == MaySignal(t, o) /\ cond.waiters <= cond.sigspending

\* Under cond->lock: announce the kernel call
CondAnnounce(t, o) ==
  /\ MaySignal(t, o)
  /\ cond.waiters > cond.sigspending
  /\ LET delta == IF o = "broadcast" THEN cond.waiters - cond.sigspending ELSE 1 IN
       /\ cond' = [cond EXCEPT !.sigspending = @ + delta]
       /\ arg' = [arg EXCEPT ![t].delta = delta]
  /\ Goto(t, o)
  /\ UNCHANGED <<kVars, pool, mutex, mutex_lock, holds>>

\* semaphore_signal_thread(cond->sem, MACH_PORT_NULL or the thread's port):
\* a post that finds nobody is not stored
CondSignal(t) ==
  /\ \/ /\ pc[t] = "signal"
        /\ \/ waiters[cond.sem] # {} /\ K!GrantOne(cond.sem)
           \/ waiters[cond.sem] = {} /\ UNCHANGED kVars
     \/ /\ pc[t] = "signal_thread"
        /\ \E target \in Thread \ {t} :
             \/ target \in waiters[cond.sem] /\ K!Grant(cond.sem, {target})
             \/ target \notin waiters[cond.sem] /\ UNCHANGED kVars
  /\ Goto(t, "signalled")
  /\ UNCHANGED <<pool, mutex, mutex_lock, cond, holds, arg>>

\* semaphore_signal_all(cond->sem)
CondBroadcast(t) ==
  /\ pc[t] = "broadcast"
  /\ \/ waiters[cond.sem] # {} /\ K!GrantAll(cond.sem)
     \/ waiters[cond.sem] = {} /\ UNCHANGED kVars
  /\ Goto(t, "signalled")
  /\ UNCHANGED <<pool, mutex, mutex_lock, cond, holds, arg>>

\* Under cond->lock again: whoever is last returns the semaphore
CondSignalled(t) ==
  /\ pc[t] = "signalled"
  /\ LET left == cond.sigspending - arg[t].delta IN
       \/ /\ cond.waiters = 0 /\ left = 0
          /\ cond' = [cond EXCEPT !.sigspending = left, !.sem = NoSem]
          /\ pool' = Restored(cond.sem)
       \/ /\ ~(cond.waiters = 0 /\ left = 0)
          /\ cond' = [cond EXCEPT !.sigspending = left]
          /\ UNCHANGED pool
  /\ arg' = [arg EXCEPT ![t] = NoArg]
  /\ Goto(t, IF holds[t] THEN "held" ELSE "out")
  /\ UNCHANGED <<kVars, mutex, mutex_lock, holds>>

-----------------------------------------------------------------------------
(* A wait can end without a post: semaphore_timedwait_signal runs out, or a*)
(* UNIX signal aborts the wait (thread_abort_safely in psignal).           *)

CancelWait(t) ==
  /\ \E s \in Sem : K!Cancel(t, s)
  /\ UNCHANGED <<pool, mutex, mutex_lock, cond, pc, holds, arg>>

Timeout(t) ==
  /\ "timedwait" \in Ops
  /\ pc[t] = "cond_blocked"
  /\ CancelWait(t)

Abort(t) ==
  /\ pc[t] \in Interrupts
  /\ CancelWait(t)

\* What a thread inside the library does next
Step(t) ==
  \/ \E o \in MutexOp : InitSig(t, o) \/ InitFields(t, o)
  \/ Lock(t) \/ LockWait(t) \/ LockDone(t)
  \/ TryLock(t) \/ TryBusy(t) \/ TryWait(t) \/ TryDone(t)
  \/ UnlockSignal(t)
  \/ CondMutex(t) \/ CondSemWait(t) \/ CondSemSignal(t) \/ CondDone(t)
  \/ CondSignal(t) \/ CondBroadcast(t) \/ CondSignalled(t)

SignalKind == {"signal", "signal_thread", "broadcast"}

\* What its program calls
Call(t) ==
  \/ \E o \in MutexOp : MutexCall(t, o)
  \/ Unlock(t) \/ CondWait(t)
  \/ \E o \in SignalKind : CondAnnounce(t, o)

Next == \E t \in Thread : Step(t) \/ Call(t) \/ Timeout(t) \/ Abort(t)

Spec == Init /\ [][Next]_vars

-----------------------------------------------------------------------------
TypeOK ==
  /\ value \in [Sem -> Nat]
  /\ waiters \in [Sem -> SUBSET Thread]
  /\ alive = Sem
  /\ granted \subseteq Thread
  /\ pool \in Seq(Sem)
  /\ mutex \in [sig : {"SIG_init", "SIG"}, owner : BOOLEAN, waiters : Nat,
                cond_lock : BOOLEAN, sem : Sem \union {NoSem}]
  /\ mutex_lock \in Thread \union {NoThread}
  /\ cond \in [busy : BOOLEAN, waiters : Nat, sigspending : Nat,
               sem : Sem \union {NoSem}]
  /\ holds \in [Thread -> BOOLEAN]

\* At most one thread is between a successful lock or trylock and the unlock
\* (or the wait) that releases the mutex.
MutualExclusion == \A t, u \in Thread : holds[t] /\ holds[u] => t = u

\* The semaphores in the pool are distinct, in use by neither the mutex nor
\* the condition variable, and clean: no post that the next user would find,
\* no thread left waiting on one.  The mutex and the condition do not share.
PoolSound ==
  /\ \A i, j \in DOMAIN pool : pool[i] = pool[j] => i = j
  /\ \A i \in DOMAIN pool :
       /\ pool[i] # mutex.sem /\ pool[i] # cond.sem
       /\ value[pool[i]] = 0 /\ waiters[pool[i]] = {}
  /\ mutex.sem # NoSem => mutex.sem # cond.sem

Locking == {"lock_wait", "lock_blocked"}
CondWaiting == {"cond_mutex", "cond_wait", "cond_signal", "cond_blocked"}

\* The wake-ups that signallers between their two critical sections announced
Announced == {p \in Thread \X (1 .. Cardinality(Thread)) : p[2] =< arg[p[1]].delta}

\* The counters agree with where the threads are, whatever the kernel calls
\* returned (post, time-out or KERN_ABORTED): mutex->waiters counts the threads
\* about to wait, waiting or just woken in pthread_mutex_lock, cond->waiters
\* those of pthread_cond_wait, cond->sigspending covers every signaller between
\* its two critical sections, and a semaphore is assigned while it is needed.
CountsExact ==
  /\ TypeOK
  /\ mutex.waiters = Cardinality({t \in Thread : pc[t] \in Locking})
  /\ cond.waiters = Cardinality({t \in Thread : pc[t] \in CondWaiting})
  /\ cond.sigspending = Cardinality(Announced)
  /\ mutex.waiters > 0 => mutex.sem # NoSem
  /\ (cond.waiters > 0 \/ cond.sigspending > 0) <=> cond.sem # NoSem

\* The signallers that have announced themselves and not called the kernel yet
Unsent == {t \in Thread : pc[t] = "signal"}

\* "Signal a condition variable, waking only one thread": whenever a signal or
\* a broadcast would be skipped because sigspending covers the waiters, every
\* thread that still waits in the kernel is going to be woken by a signaller
\* that has announced itself and has not called the kernel yet.
SkipIsHarmless ==
  \A t \in Thread, o \in {"signal", "broadcast"} :
    CondSkips(t, o) /\ cond.sem # NoSem =>
      \/ Cardinality(waiters[cond.sem]) <= Cardinality(Unsent)
      \/ \E u \in Thread : pc[u] = "broadcast"

-----------------------------------------------------------------------------
(* Liveness: a thread inside the library goes on, and the program of one   *)
(* that holds the mutex eventually unlocks it or waits.  Which waiter gets *)
(* a post is left open, so only the progress of some thread is promised.   *)

Fairness ==
  \A t \in Thread :
    /\ WF_vars(Step(t))
    /\ WF_vars(Unlock(t) \/ CondWait(t))

FairSpec == Spec /\ Fairness

\* No unlock is lost: whenever threads are inside pthread_mutex_lock, somebody
\* gets the mutex.
LockProgress ==
  (\E t \in Thread : pc[t] \in {"lock", "lock_wait", "lock_blocked"})
    ~> (\E t \in Thread : holds[t])

\* pthread_mutex_trylock waits for a semaphore with mutex->lock held; it never
\* keeps that lock for ever.
TryLockReturns == (mutex_lock # NoThread) ~> (mutex_lock = NoThread)
=============================================================================
