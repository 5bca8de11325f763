-------------------------------- MODULE LockSet --------------------------------
(***************************************************************************)
(* Mach lock sets: xnu-123.5/osfmk/kern/sync_lock.c, one set with one      *)
(* ulock, whose wait queue is that of WaitQueue, and thread_abort_safely.  *)
(*                                                                         *)
(* Two mutexes protect them, the lock set's (ls_lock) and the ulock's      *)
(* (ulock_lock).  Every operation takes the first, tests `active', takes   *)
(* the second and drops the first; four of them drop it again when they    *)
(* find the ulock held, or not theirs.  mutex_unlock does not ask who      *)
(* holds the mutex, so the second one frees it for whoever has it by then, *)
(* and nothing below relies on ls_lock to keep a second thread out.        *)
(* An action is a stretch of code between two points where another thread  *)
(* may matter: the two mutexes, that second unlock, the test of `active'   *)
(* and its clearing, the wake-up of a thread that is made owner only       *)
(* afterwards, and blocking.                                               *)
(***************************************************************************)
EXTENDS WaitQueue

CONSTANTS
  LOCK_SET_EVENT, LOCK_SET_HANDOFF,
  Nobody,      \* THR_ACT_NULL, and the holder of a free mutex
  Ops          \* what the threads call

AllOps == {"acquire", "try", "release", "handoff", "accept", "destroy"}

ASSUME LockSetAssumption ==
  /\ {LOCK_SET_EVENT, LOCK_SET_HANDOFF} \subseteq Event
  /\ LOCK_SET_EVENT # LOCK_SET_HANDOFF
  /\ Nobody \notin Thread
  /\ Ops \subseteq AllOps
  /\ IsFiniteSet(Thread)
  /\ Cardinality(WaitQ) = 1

VARIABLES
  ls_lock, ulock_lock,                    \* who holds each mutex
  active,                                 \* the lock set's
  dropped,                                \* history: how often lock_set_destroy has
                                          \* dropped the reference of the creation
  holder, blocked, ho_wait, accept_wait,  \* the ulock's
  pc, op,
  heir,                                   \* the thread an owner has just woken
  mine                                    \* history: who was told that it has the
                                          \* ulock and has not been told otherwise

ulockVars == <<holder, blocked, ho_wait, accept_wait>>
vars == <<wqVars, ls_lock, ulock_lock, active, dropped, ulockVars, pc, op, heir, mine>>

Queue == CHOOSE q \in WaitQ : TRUE        \* &ulock->wait_queue
EventWaiters == Waiters(Queue, LOCK_SET_EVENT)
HandoffWaiters == Waiters(Queue, LOCK_SET_HANDOFF)

\* lock_set_create, which does not set accept_wait
Init ==
  /\ WQInit
  /\ ls_lock = Nobody /\ ulock_lock = Nobody
  /\ active = TRUE /\ dropped = 0
  /\ holder = Nobody
  /\ blocked = FALSE /\ ho_wait = FALSE
  /\ accept_wait \in BOOLEAN
  /\ pc = [t \in Thread |-> "user"]
  /\ op = [t \in Thread |-> "none"]
  /\ heir = [t \in Thread |-> Nobody]
  /\ mine = [t \in Thread |-> FALSE]

Goto(t, l) == pc' = [pc EXCEPT ![t] = l] /\ UNCHANGED op
Return(t) == pc' = [pc EXCEPT ![t] = "user"] /\ op' = [op EXCEPT ![t] = "none"]
Told(t, b) == mine' = [mine EXCEPT ![t] = b]
SetLocks(l, u) == ls_lock' = l /\ ulock_lock' = u

AssertWait(t, e) ==
  /\ AssertWaitLocked(t, Queue, e, "ABORTSAFE")
  /\ UNCHANGED <<aborting, removing>>

\* wait_queue_wakeup_identity_locked and its like, for the threads S
Wake(S, r) == GoLocked(S, r) /\ UNCHANGED <<aborting, removing>>

\* The waiters for an event in front of all others, at most one
First(e) == {t \in Thread : SelectOne(Queue, e, t)}

-----------------------------------------------------------------------------
\* A thread calls one of the operations.  Whoever releases gives the ulock up.
Call(t, o) ==
  /\ o \in Ops
  /\ pc[t] = "user"
  /\ pc' = [pc EXCEPT ![t] = "enter"]
  /\ op' = [op EXCEPT ![t] = o]
  /\ Told(t, mine[t] /\ o # "release")
  /\ UNCHANGED <<wqVars, ls_lock, ulock_lock, active, dropped, ulockVars, heir>>

\* lock_set_lock (where RESTART retries)
Enter(t) ==
  /\ pc[t] = "enter"
  /\ ls_lock = Nobody
  /\ ls_lock' = t
  /\ Goto(t, "test")
  /\ UNCHANGED <<wqVars, ulock_lock, active, dropped, ulockVars, heir, mine>>

\* The test of active, which ls_lock may no longer cover
TestActive(t) ==
  /\ pc[t] = "test"
  /\ IF active
       THEN /\ Goto(t, IF op[t] = "destroy" THEN "deactivate" ELSE "body")
            /\ UNCHANGED ls_lock
       ELSE ls_lock' = Nobody /\ Return(t)            \* KERN_LOCK_SET_DESTROYED
  /\ UNCHANGED <<wqVars, ulock_lock, active, dropped, ulockVars, heir, mine>>

\* ulock_lock and lock_set_unlock, in an operation other than destroy
Body(t, o) ==
  /\ pc[t] = "body" /\ op[t] = o
  /\ ulock_lock = Nobody

-----------------------------------------------------------------------------
(* lock_acquire and lock_try                                               *)

AcquireFree(t) ==
  /\ Body(t, "acquire") \/ Body(t, "try")
  /\ holder = Nobody
  /\ SetLocks(Nobody, Nobody)
  /\ holder' = t
  /\ Told(t, TRUE)
  /\ Return(t)
  /\ UNCHANGED <<wqVars, active, dropped, blocked, ho_wait, accept_wait, heir>>

AcquireHeld(t) ==
  /\ Body(t, "acquire") \/ Body(t, "try")
  /\ holder # Nobody
  /\ SetLocks(Nobody, t)
  /\ Goto(t, "held")
  /\ UNCHANGED <<wqVars, active, dropped, ulockVars, heir, mine>>

\* Mutant: blocks without leaving the hint
HeldNoHint(t) ==
  /\ pc[t] = "held"
  /\ SetLocks(Nobody, Nobody)
  /\ IF op[t] = "try" \/ holder = t
       THEN Return(t) /\ UNCHANGED wqVars
       ELSE AssertWait(t, LOCK_SET_EVENT) /\ Goto(t, "acquire_blocked")
  /\ UNCHANGED <<active, dropped, ulockVars, heir, mine>>

\* The second lock_set_unlock; then KERN_LOCK_OWNED(_SELF), or block
Held(t) ==
  /\ pc[t] = "held"
  /\ SetLocks(Nobody, Nobody)
  /\ IF op[t] = "try" \/ holder = t
       THEN Return(t) /\ UNCHANGED <<wqVars, blocked>>
       ELSE /\ blocked' = TRUE
            /\ AssertWait(t, LOCK_SET_EVENT)
            /\ Goto(t, "acquire_blocked")
  /\ UNCHANGED <<active, dropped, holder, ho_wait, accept_wait, heir, mine>>

AcquireResumes(t) ==
  /\ pc[t] = "acquire_blocked"
  /\ ~waiting[t]
  /\ IF wait_result[t] = "RESTART" THEN Goto(t, "enter") ELSE Return(t)
  /\ Told(t, mine[t] \/ wait_result[t] = "AWAKENED")
  /\ UNCHANGED <<wqVars, ls_lock, ulock_lock, active, dropped, ulockVars, heir>>

-----------------------------------------------------------------------------
(* lock_release (lock_release_internal) and lock_handoff                   *)

\* Not the holder: ulock_unlock and then the second lock_set_unlock
NotHolder(t) ==
  /\ Body(t, "release") \/ Body(t, "handoff")
  /\ holder # t
  /\ SetLocks(Nobody, Nobody)
  /\ Goto(t, "not_holder")
  /\ UNCHANGED <<wqVars, active, dropped, ulockVars, heir, mine>>

NotHolderReturns(t) ==
  /\ pc[t] = "not_holder"
  /\ SetLocks(Nobody, ulock_lock)
  /\ Return(t)
  /\ UNCHANGED <<wqVars, active, dropped, ulockVars, heir, mine>>

\* Wake the thread w, which becomes the owner when Transfer says so
WakeHeir(t, w) ==
  /\ Wake({w}, "AWAKENED")
  /\ heir' = [heir EXCEPT ![t] = w]
  /\ SetLocks(Nobody, t)
  /\ Goto(t, "transfer")
  /\ UNCHANGED <<active, dropped, ulockVars, mine>>

Release(t) ==
  /\ Body(t, "release") /\ holder = t
  /\ \/ \E w \in First(LOCK_SET_EVENT) : blocked /\ WakeHeir(t, w)
     \/ /\ ~blocked \/ First(LOCK_SET_EVENT) = {}
        /\ blocked' = FALSE
        /\ holder' = Nobody
        /\ SetLocks(Nobody, Nobody)
        /\ Return(t)
        /\ UNCHANGED <<wqVars, active, dropped, ho_wait, accept_wait, heir, mine>>

\* Mutant: wakes the next owner, but keeps the ulock
TransferLater(t) ==
  /\ pc[t] = "transfer"
  /\ accept_wait' = (accept_wait /\ op[t] # "handoff")
  /\ heir' = [heir EXCEPT ![t] = Nobody]
  /\ SetLocks(ls_lock, Nobody)
  /\ Told(t, FALSE)
  /\ Return(t)
  /\ UNCHANGED <<wqVars, active, dropped, holder, blocked, ho_wait>>

\* ulock_ownership_clear, ulock_ownership_set
Transfer(t) ==
  /\ pc[t] = "transfer"
  /\ holder' = heir[t]
  /\ accept_wait' = (accept_wait /\ op[t] # "handoff")
  /\ heir' = [heir EXCEPT ![t] = Nobody]
  /\ SetLocks(ls_lock, Nobody)
  /\ Told(t, FALSE)
  /\ Return(t)
  /\ UNCHANGED <<wqVars, active, dropped, blocked, ho_wait>>

Handoff(t) ==
  /\ Body(t, "handoff") /\ holder = t
  /\ \/ \E w \in First(LOCK_SET_HANDOFF) : accept_wait /\ WakeHeir(t, w)
     \/ /\ ~accept_wait \/ First(LOCK_SET_HANDOFF) = {}
        /\ ho_wait' = TRUE
        /\ AssertWait(t, LOCK_SET_HANDOFF)
        /\ SetLocks(Nobody, Nobody)
        /\ Goto(t, "handoff_blocked")
        /\ UNCHANGED <<active, dropped, holder, blocked, accept_wait, heir, mine>>

HandoffResumes(t) ==
  /\ pc[t] = "handoff_blocked"
  /\ ~waiting[t]
  /\ \/ wait_result[t] = "AWAKENED" /\ Return(t) /\ Told(t, FALSE) /\ UNCHANGED ho_wait
     \/ wait_result[t] = "RESTART" /\ Goto(t, "enter") /\ UNCHANGED <<mine, ho_wait>>
     \/ /\ wait_result[t] = "INTERRUPTED"
        /\ ulock_lock = Nobody
        /\ ho_wait' = FALSE
        /\ Return(t) /\ UNCHANGED mine
  /\ UNCHANGED <<wqVars, ls_lock, ulock_lock, active, dropped, holder, blocked,
                 accept_wait, heir>>

-----------------------------------------------------------------------------
(* lock_handoff_accept                                                     *)

AcceptRefused(t) ==
  /\ Body(t, "accept")
  /\ accept_wait \/ holder = t      \* KERN_ALREADY_WAITING, KERN_LOCK_OWNED_SELF
  /\ SetLocks(Nobody, Nobody)
  /\ Return(t)
  /\ UNCHANGED <<wqVars, active, dropped, ulockVars, heir, mine>>

\* The holder waits to hand the ulock off
HolderOffers == ho_wait /\ holder \in HandoffWaiters

AcceptTakes(t) ==
  /\ Body(t, "accept")
  /\ ~accept_wait /\ holder # t
  /\ HolderOffers
  /\ Wake({holder}, "AWAKENED")
  /\ holder' = t
  /\ ho_wait' = FALSE
  /\ SetLocks(Nobody, Nobody)
  /\ Told(t, TRUE)
  /\ Return(t)
  /\ UNCHANGED <<active, dropped, blocked, accept_wait, heir>>

\* Mutant: waits although the holder offers
AcceptAlwaysWaits(t) ==
  /\ Body(t, "accept")
  /\ ~accept_wait /\ holder # t
  /\ accept_wait' = TRUE
  /\ AssertWait(t, LOCK_SET_HANDOFF)
  /\ SetLocks(Nobody, Nobody)
  /\ Goto(t, "accept_blocked")
  /\ UNCHANGED <<active, dropped, holder, blocked, ho_wait, heir, mine>>

AcceptWaits(t) ==
  /\ Body(t, "accept")
  /\ ~accept_wait /\ holder # t
  /\ ~HolderOffers
  /\ accept_wait' = TRUE
  /\ AssertWait(t, LOCK_SET_HANDOFF)
  /\ SetLocks(Nobody, Nobody)
  /\ Goto(t, "accept_blocked")
  /\ UNCHANGED <<active, dropped, holder, blocked, ho_wait, heir, mine>>

AcceptResumes(t) ==
  /\ pc[t] = "accept_blocked"
  /\ ~waiting[t]
  /\ \/ wait_result[t] = "AWAKENED" /\ Return(t) /\ Told(t, TRUE) /\ UNCHANGED accept_wait
     \/ wait_result[t] = "RESTART" /\ Goto(t, "enter") /\ UNCHANGED <<mine, accept_wait>>
     \/ /\ wait_result[t] = "INTERRUPTED"
        /\ ulock_lock = Nobody
        /\ accept_wait' = FALSE
        /\ Return(t) /\ UNCHANGED mine
  /\ UNCHANGED <<wqVars, ls_lock, ulock_lock, active, dropped, holder, blocked,
                 ho_wait, heir>>

-----------------------------------------------------------------------------
(* lock_set_destroy, after the test                                        *)

Deactivate(t) ==
  /\ pc[t] = "deactivate"
  /\ active' = FALSE
  /\ Goto(t, "body")
  /\ UNCHANGED <<wqVars, ls_lock, ulock_lock, dropped, ulockVars, heir, mine>>

\* Whoever waits is woken, the holder loses the ulock.  Both flags may be up the
\* first time only, and then one thread at most waits for a handoff.
DestroyUlock(t) ==
  LET accepting == IF accept_wait THEN First(LOCK_SET_HANDOFF) ELSE {}
      offering  == IF ho_wait THEN First(LOCK_SET_HANDOFF) ELSE {}
      acquiring == IF blocked THEN EventWaiters ELSE {} IN
  /\ Body(t, "destroy")
  /\ accept_wait' = FALSE
  /\ Wake(accepting \union (IF holder = Nobody THEN {} ELSE acquiring \union offering),
          "RESTART")
  /\ blocked' = (blocked /\ holder = Nobody)
  /\ ho_wait' = (ho_wait /\ holder = Nobody)
  /\ holder' = Nobody
  /\ mine' = [u \in Thread |-> FALSE]
  /\ Goto(t, "unlock_set")
  /\ UNCHANGED <<ls_lock, ulock_lock, active, dropped, heir>>

DestroyUnlocks(t) ==
  /\ pc[t] = "unlock_set"
  /\ ls_lock' = Nobody
  /\ Goto(t, "drop")
  /\ UNCHANGED <<wqVars, ulock_lock, active, dropped, ulockVars, heir, mine>>

\* lock_set_dereference, which takes ls_lock and drops it
DropReference(t) ==
  /\ pc[t] = "drop"
  /\ ls_lock = Nobody
  /\ dropped' = dropped + 1
  /\ Return(t)
  /\ UNCHANGED <<wqVars, ls_lock, ulock_lock, active, ulockVars, heir, mine>>

-----------------------------------------------------------------------------
AbortStart(k, t) ==
  /\ ThreadAbortSafely(k, t)
  /\ UNCHANGED <<ls_lock, ulock_lock, active, dropped, ulockVars, pc, op, heir, mine>>

AbortFinish(k) ==
  /\ ClearWaitFinish(k)
  /\ UNCHANGED <<aborting, ls_lock, ulock_lock, active, dropped, ulockVars, pc, op,
                 heir, mine>>

-----------------------------------------------------------------------------
Step(t) ==
  \/ Enter(t) \/ TestActive(t)
  \/ AcquireFree(t) \/ AcquireHeld(t) \/ Held(t) \/ AcquireResumes(t)
  \/ NotHolder(t) \/ NotHolderReturns(t) \/ Release(t) \/ Transfer(t)
  \/ Handoff(t) \/ HandoffResumes(t)
  \/ AcceptRefused(t) \/ AcceptTakes(t) \/ AcceptWaits(t) \/ AcceptResumes(t)
  \/ Deactivate(t) \/ DestroyUlock(t) \/ DestroyUnlocks(t) \/ DropReference(t)

Next ==
  \/ \E t \in Thread : Step(t) \/ \E o \in AllOps : Call(t, o)
  \/ \E k \in Aborter : AbortFinish(k) \/ \E t \in Thread : AbortStart(k, t)

Spec == Init /\ [][Next]_vars

-----------------------------------------------------------------------------
TypeOK ==
  /\ WQTypeOK
  /\ ls_lock \in Thread \union {Nobody} /\ ulock_lock \in Thread \union {Nobody}
  /\ holder \in Thread \union {Nobody}
  /\ {active, blocked, ho_wait, accept_wait} \subseteq BOOLEAN
  /\ op \in [Thread -> AllOps \union {"none"}]
  /\ heir \in [Thread -> Thread \union {Nobody}]
  /\ dropped \in Nat
  /\ mine \in [Thread -> BOOLEAN]

\* While the set is active, one thread at a time is told that it has the
\* ulock, by lock_acquire, lock_try, lock_handoff_accept or a wake-up, and it
\* is the holder, or is just being made holder: a lock_handoff that was
\* aborted still has it, one that was answered has not, and the thread that
\* lock_release woke does not compete with lock_acquire for it.
Exclusion ==
  active =>
    \A t \in Thread : mine[t] /\ pc[t] = "user" =>
      \/ holder = t
      \/ \E u \in Thread : heir[u] = t /\ ulock_lock = u

\* A thread that waits for the ulock is found by whoever has it: the ulock is
\* held and its `blocked' hint is up, even if the set was destroyed in between.
AcquirersSeen ==
  EventWaiters # {} => blocked /\ holder # Nobody

\* No lock_set_destroy has got to the ulock yet
Intact == dropped = 0 /\ \A t \in Thread : pc[t] \notin {"unlock_set", "drop"}

\* lock_handoff and lock_handoff_accept meet: an offering holder and an
\* accepting thread never both wait, and the one that does has its flag up, so
\* that the other side, or lock_set_destroy, looks for it.
HandoffMeets ==
  /\ TypeOK
  /\ Intact =>
       /\ Cardinality(HandoffWaiters) =< 1
       /\ \A t \in HandoffWaiters : IF holder = t THEN ho_wait ELSE accept_wait
       /\ ho_wait => holder # Nobody

\* "assert(ulock->holder == current_act())" where lock_handoff has been aborted
HandoffAssertion ==
  \A t \in Thread :
    /\ pc[t] = "handoff_blocked" /\ ~waiting[t] /\ wait_result[t] = "INTERRUPTED"
    /\ ulock_lock = Nobody
    => holder = t

\* "All threads currently blocked on the lock set's ulocks are awoken": nobody
\* waits on a set whose destruction is over.
NobodyLeft ==
  ~active /\ (\A t \in Thread : op[t] # "destroy")
    => EventWaiters \union HandoffWaiters = {}

\* "Deallocate.  Drop the lock set reference": the reference of lock_set_create
\* is dropped once.
CreationDroppedOnce == dropped =< 1
=============================================================================
