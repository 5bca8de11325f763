---------------------------- MODULE SemaphoreProofs ----------------------------
(***************************************************************************)
(* Mach semaphores for any number of threads, semaphores, aborting         *)
(* contexts and stored posts: references are counted exactly, nothing      *)
(* freed is used, every waiter is announced by the -1 mark, results are    *)
(* right, and the whole implements SemaphoreContract.                      *)
(***************************************************************************)
EXTENDS Semaphore, WaitQueueProofs, FiniteSetTheorems

InWait == {"lookup", "wait", "signal2", "arm", "block", "blocked"}
InDestroy == {"disown", "deactivate", "dealloc", "drop"}
AfterAssert == {"signal2", "arm", "block", "blocked"}

\* What the operation of a thread looks like at each point of it
OpShape ==
  \A t \in Thread :
    /\ pc[t] = "user" => op[t] = NoOp
    /\ pc[t] \in InWait => op[t].name \in WaitOp /\ op[t].wait \in Sem
    /\ pc[t] \in {"arm", "block", "blocked"} => op[t].name \in {"wait", "timedwait"}
    /\ pc[t] \in {"lookup", "signal2", "signal"} \union InDestroy => op[t].signal \in Sem
    /\ pc[t] = "signal" => op[t].name \in SignalOp /\ op[t].wait = NoSem
    /\ pc[t] \in InDestroy => op[t].name = "destroy" /\ op[t].wait = NoSem

\* A thread waits only inside semaphore_wait_internal, on the semaphore of its
\* operation and abortable; the result of a wait that is over has been set
WaitShape ==
  \A t \in Thread :
    /\ waiting[t] => /\ pc[t] \in AfterAssert
                     /\ op[t].wait = wait_queue[t]
                     /\ wait_event[t] = SEMAPHORE_EVENT
                     /\ mode[t] = "ABORTSAFE"
                     /\ op[t].name # "poll"
                     /\ pc[t] = "signal2" => kr[t] = "ALREADY_WAITING"
    /\ pc[t] = "signal2" /\ kr[t] = "ALREADY_WAITING" => op[t].name # "poll"
    /\ wait_result[t] = "NONE" => waiting[t]

\* A timer is armed, or its expiration inside clear_wait_internal, only while
\* the thread that armed it has not left its timed wait; aborts interrupt
TimerShape ==
  /\ \A t \in Thread :
       /\ timer_set[t] => pc[t] \in {"block", "blocked"} /\ op[t].name = "timedwait"
       /\ removing[t] # Idle =>
            /\ pc[t] \in {"block", "blocked"}
            /\ op[t].name = "timedwait"
            /\ removing[t].thread = t
            /\ removing[t].wq = op[t].wait
            /\ removing[t].result = "TIMED_OUT"
  /\ \A k \in Aborter : removing[k] # Idle => removing[k].result = "INTERRUPTED"

Destroying == {"deactivate", "dealloc", "drop"}
At(t, l, s) == pc[t] = l /\ op[t].signal = s

\* The four stages in the life of a semaphore: owned, being deactivated by one
\* destroyer, deactivated, without a port
Life(s) ==
  /\ owned[s] => active[s] /\ port[s]
  /\ active[s] => owned[s] \/ \E t \in Thread : At(t, "deactivate", s)
  /\ port[s] => owned[s] \/ \E t \in Thread : At(t, "deactivate", s) \/ At(t, "dealloc", s)
  /\ \A t \in Thread :
       /\ At(t, "deactivate", s) => ~owned[s] /\ active[s] /\ port[s]
       /\ At(t, "dealloc", s) => ~owned[s] /\ ~active[s] /\ port[s]
       /\ At(t, "drop", s) => ~owned[s] /\ ~active[s] /\ ~port[s]
  /\ \A t, u \in Thread :
       (\E l, m \in Destroying : At(t, l, s) /\ At(u, m, s)) => t = u

Lifecycle == \A s \in Sem : Life(s)

WaitHolders(s) == {t \in Thread : HoldsWait(t, s)}
SignalHolders(s) == {t \in Thread : HoldsSignal(t, s)}
Counted ==
  \A s \in Sem :
    ref_count[s] = Creation(s) + Cardinality(WaitHolders(s)) + Cardinality(SignalHolders(s))

\* The inductive invariant
SemInv ==
  /\ TypeOK /\ WaitingIffQueued /\ QueueOrder
  /\ OpShape /\ WaitShape /\ TimerShape
  /\ WaitersSeen
  /\ Lifecycle /\ Counted

\* Where the operation's post is: the thread has taken one, or its wait ended
\* with THREAD_AWAKENED
Granted(t) == ~waiting[t] /\ wait_result[t] = "AWAKENED"

\* Without wait_signal, what a thread returns and what it consumed agree
ResultOk(t) ==
  /\ pc[t] \in {"user", "lookup", "wait"} => ~token[t]
  /\ waiting[t] => ~token[t]
  /\ pc[t] # "signal2" /\ pc[t] # "lookup"
  /\ pc[t] \in {"arm", "block", "blocked"} =>
       /\ token[t] = Granted(t)
       /\ wait_result[t] = "TIMED_OUT" => op[t].name = "timedwait"
  /\ pc[t] = "release" /\ op[t].name \in WaitOp => (kr[t] = "SUCCESS") = token[t]
  /\ pc[t] = "release" /\ kr[t] = "TIMED_OUT" => op[t].name \in {"timedwait", "poll"}
  /\ pc[t] # "user" => op[t].signal = NoSem \/ op[t].name \notin WaitOp

ResultInv == SemInv /\ \A t \in Thread : ResultOk(t)

-----------------------------------------------------------------------------
(* The wait queues                                                         *)

\* The actions that leave the wait queues, aborts and clearers alone
Quiet(t) ==
  \/ Start(t) \/ LookupWait(t) \/ WaitDead(t) \/ WaitTake(t) \/ WaitPoll(t)
  \/ Arm(t) \/ Wake(t) \/ Disown(t) \/ DeallocPort(t) \/ DropCreation(t)

\* (By their definitions.)
LEMMA QuietUnchanged ==
  ASSUME NEW t \in Thread, Quiet(t) PROVE UNCHANGED wqVars
BY DEF Quiet, Start, StartWait, StartWaitSignal, StartSignal, StartDestroy, LookupWait,
       WaitDead, WaitTake, WaitPoll, Arm, Wake, Disown, DeallocPort, DropCreation

\* The lock section of a signal wakes threads or leaves the queues alone.
LEMMA SignalOneWakes ==
  ASSUME NEW s \in Sem, NEW prepost \in BOOLEAN, NEW v \in Return,
         SignalOne(s, prepost, v)
  PROVE  UNCHANGED waitVars \/ \E S \in SUBSET Thread : GoLocked(S, "AWAKENED")
BY DEF SignalOne, WakeupOneLocked

\* So does semaphore_signal_internal in all its forms.
LEMMA SignalWakes ==
  ASSUME NEW t \in Thread, Signal(t), op[t].signal \in Sem
  PROVE  UNCHANGED waitVars \/ \E S \in SUBSET Thread : GoLocked(S, "AWAKENED")
<1> DEFINE s == op[t].signal
<1>1. PICK v \in Return :
        \/ SignalDead(s, v)
        \/ SignalOne(s, TRUE, v) \/ SignalOne(s, FALSE, v)
        \/ SignalAll(s, v)
        \/ \E target \in Thread : SignalThread(s, target, v)
  BY DEF Signal
<1>2. CASE SignalDead(s, v)
  BY <1>2 DEF SignalDead
<1>3. CASE SignalOne(s, TRUE, v) \/ SignalOne(s, FALSE, v)
  BY <1>3, SignalOneWakes
<1>4. CASE SignalAll(s, v)
  BY <1>4 DEF SignalAll, WakeupAllLocked, Waiters, Members
<1>5. CASE \E target \in Thread : SignalThread(s, target, v)
  BY <1>5 DEF SignalThread, WakeupThreadLocked
<1> QED BY <1>1, <1>2, <1>3, <1>4, <1>5

\* Every action but WaitAssert ends waits only, and all keep the queues sound.
LEMMA QueuesStep ==
  ASSUME SemInv, [Next]_vars
  PROVE  WQInv' /\ (OnlyEnds \/ \E t \in Thread : WaitAssert(t))
<1>1. WQInv
  BY DEF SemInv, TypeOK, WQInv
<1>2. /\ aborting \in [Thread -> BOOLEAN]
      /\ removing \in [Clearer -> Removal \union {Idle}]
  BY <1>1 DEF WQInv, WQTypeOK
<1>3. {"AWAKENED", "INTERRUPTED", "TIMED_OUT", "RESTART"} \subseteq Result
  BY DEF Result
<1>4. CASE UNCHANGED wqVars
  BY <1>1, <1>2, <1>4, QuietInv DEF wqVars
<1>5. ASSUME NEW t \in Thread, WaitAssert(t) PROVE WQInv'
  <2>1. op[t].wait \in WaitQ /\ ~waiting[t]
    BY <1>5 DEF SemInv, OpShape, WaitShape, WaitAssert, InWait, AfterAssert, Sem
  <2>2. SEMAPHORE_EVENT \in Event /\ "ABORTSAFE" \in Mode
    BY SemaphoreAssumption DEF Mode
  <2> QED BY <1>1, <1>5, <2>1, <2>2, AssertWaitInv DEF WaitAssert
<1>6. ASSUME NEW t \in Thread, SignalSecond(t) PROVE WQInv' /\ OnlyEnds
  <2>1. UNCHANGED <<aborting, removing>> /\ op[t].signal \in Sem
    BY <1>6 DEF SignalSecond, SemInv, OpShape
  <2>2. UNCHANGED waitVars \/ \E S \in SUBSET Thread : GoLocked(S, "AWAKENED")
    BY <1>6, <2>1, SignalOneWakes DEF SignalSecond
  <2> QED BY <1>1, <1>2, <1>3, <2>1, <2>2, QuietInv, GoInv
<1>7. ASSUME NEW t \in Thread, SignalSecondDead(t) PROVE WQInv' /\ OnlyEnds
  BY <1>1, <1>3, <1>7, ClearSelfInv DEF SignalSecondDead
<1>8. ASSUME NEW t \in Thread, Block(t) PROVE WQInv' /\ OnlyEnds
  BY <1>1, <1>2, <1>3, <1>8, ClearSelfInv, QuietInv DEF Block
<1>9. ASSUME NEW t \in Thread, Release(t) \/ SpecialHandler(t) PROVE WQInv' /\ OnlyEnds
  <2>1. aborting' \in [Thread -> BOOLEAN] /\ UNCHANGED <<waitVars, removing>>
    BY <1>2, <1>9 DEF Release, SpecialHandler
  <2> QED BY <1>1, <1>2, <2>1, QuietInv
<1>10. ASSUME NEW t \in Thread, Signal(t) PROVE WQInv' /\ OnlyEnds
  <2>1. UNCHANGED <<aborting, removing>> /\ op[t].signal \in Sem
    BY <1>10 DEF Signal, SemInv, OpShape
  <2>2. UNCHANGED waitVars \/ \E S \in SUBSET Thread : GoLocked(S, "AWAKENED")
    BY <1>10, <2>1, SignalWakes
  <2> QED BY <1>1, <1>2, <1>3, <2>1, <2>2, QuietInv, GoInv
<1>11. ASSUME NEW t \in Thread, Deactivate(t) PROVE WQInv' /\ OnlyEnds
  <2>1. UNCHANGED <<aborting, removing>>
    BY <1>11 DEF Deactivate
  <2>2. UNCHANGED waitVars \/ \E S \in SUBSET Thread : GoLocked(S, "RESTART")
    BY <1>11 DEF Deactivate, WakeupAllLocked, Waiters, Members
  <2> QED BY <1>1, <1>2, <1>3, <2>1, <2>2, QuietInv, GoInv
<1>12. ASSUME NEW t \in Thread, Timeout(t) PROVE WQInv' /\ OnlyEnds
  BY <1>1, <1>2, <1>3, <1>12, ClearStartInv DEF Timeout, Clearer
<1>13. ASSUME NEW k \in Aborter, NEW t \in Thread, Abort(k, t) \/ AbortSafely(k, t)
       PROVE  WQInv' /\ OnlyEnds
  BY <1>1, <1>13, AbortInv DEF Abort, AbortSafely
<1>14. ASSUME NEW k \in Clearer, FinishClear(k) PROVE WQInv' /\ OnlyEnds
  BY <1>1, <1>14, ClearFinishInv DEF FinishClear
<1>15. ASSUME NEW s \in Sem, NEW v \in 0 .. MaxCount, Create(s, v) PROVE UNCHANGED wqVars
  BY <1>15 DEF Create
<1> QED
  BY <1>4, <1>5, <1>6, <1>7, <1>8, <1>9, <1>10, <1>11, <1>12, <1>13, <1>14, <1>15,
     QuietUnchanged DEF Next, Step, Wait, Quiet, vars

-----------------------------------------------------------------------------
(* Fields and operations                                                   *)

\* TypeOK without the wait queues and ref_count, which have lemmas of their own
FieldType ==
  /\ count \in [Sem -> -1 .. MaxCount]
  /\ active \in [Sem -> BOOLEAN]
  /\ owned \in [Sem -> BOOLEAN]
  /\ port \in [Sem -> BOOLEAN]
  /\ pc \in [Thread -> Label]
  /\ op \in [Thread -> OpRecord]
  /\ kr \in [Thread -> Return]
  /\ timer_set \in [Thread -> BOOLEAN]
  /\ token \in [Thread -> BOOLEAN]
  /\ posted \subseteq Thread

\* What the lock section of a signal makes of the fields
LEMMA SignalOneType ==
  ASSUME SemInv, NEW s \in Sem, NEW prepost \in BOOLEAN, NEW v \in Return,
         SignalOne(s, prepost, v)
  PROVE  count' \in [Sem -> -1 .. MaxCount] /\ token' \in [Thread -> BOOLEAN]
<1>1. count' \in [Sem -> -1 .. MaxCount]
  BY SemaphoreAssumption DEF SemInv, TypeOK, SignalOne
<1>2. token' \in [Thread -> BOOLEAN]
  BY DEF SemInv, TypeOK, SignalOne, GrantWoken
<1> QED BY <1>1, <1>2

\* So does a whole signal operation.
LEMMA SignalType ==
  ASSUME SemInv, NEW t \in Thread, Signal(t), op[t].signal \in Sem
  PROVE  FieldType'
<1> DEFINE s == op[t].signal
<1>1. PICK v \in Return :
        /\ \/ SignalDead(s, v)
           \/ SignalOne(s, TRUE, v) \/ SignalOne(s, FALSE, v)
           \/ SignalAll(s, v)
           \/ \E target \in Thread : SignalThread(s, target, v)
        /\ kr' = [kr EXCEPT ![t] = v]
  BY DEF Signal, SetKr
<1>2. count' \in [Sem -> -1 .. MaxCount] /\ token' \in [Thread -> BOOLEAN]
  <2>1. CASE SignalDead(s, v)
    BY <2>1 DEF SignalDead, SemInv, TypeOK
  <2>2. CASE SignalOne(s, TRUE, v) \/ SignalOne(s, FALSE, v)
    BY <2>2, SignalOneType
  <2>3. CASE SignalAll(s, v)
    BY <2>3, SemaphoreAssumption DEF SignalAll, GrantWoken, SemInv, TypeOK
  <2>4. CASE \E target \in Thread : SignalThread(s, target, v)
    BY <2>4 DEF SignalThread, GrantWoken, SemInv, TypeOK
  <2> QED BY <1>1, <2>1, <2>2, <2>3, <2>4
<1>3. posted' \subseteq Thread
  BY DEF Signal, SemInv, TypeOK
<1>4. kr' \in [Thread -> Return] /\ pc' \in [Thread -> Label]
  BY <1>1 DEF Signal, Goto, Label, SemInv, TypeOK
<1>5. UNCHANGED <<active, owned, port, op, timer_set>>
  BY DEF Signal
<1> QED BY <1>2, <1>3, <1>4, <1>5 DEF FieldType, SemInv, TypeOK

\* semaphore_convert_wait_result of a result that has been set
LEMMA ConvertType ==
  ASSUME NEW r \in Result \ {"NONE"} PROVE Convert(r) \in Return
BY DEF Convert, Result, Return

\* After it has cleared its own wait, a thread's result has been set.
LEMMA ClearedResult ==
  ASSUME SemInv, NEW t \in Thread, ClearSelf(t, "INTERRUPTED")
  PROVE  /\ GoLocked({t}, "INTERRUPTED")
         /\ wait_result'[t] = IF waiting[t] THEN "INTERRUPTED" ELSE wait_result[t]
         /\ wait_result'[t] \in Result \ {"NONE"}
<1>1. ~Uninterruptible(t)
  BY DEF SemInv, WaitShape, Uninterruptible
<1>2. GoLocked({t}, "INTERRUPTED")
  BY <1>1 DEF ClearSelf
<1>3. wait_result'[t] = IF waiting[t] THEN "INTERRUPTED" ELSE wait_result[t]
  BY <1>2 DEF GoLocked
<1> QED BY <1>2, <1>3 DEF SemInv, WaitShape, TypeOK, WQTypeOK, Result

\* The fields keep their types and operations their shape, action by action.
LEMMA FieldsStep ==
  ASSUME SemInv, [Next]_vars PROVE FieldType' /\ OpShape'
<1> USE SemaphoreAssumption
    DEF SemInv, TypeOK, FieldType, OpShape, semVars, Label, OpRecord, Return, InWait, InDestroy
<1>1. CASE UNCHANGED vars
  BY <1>1 DEF vars
<1>2. ASSUME NEW t \in Thread, NEW w \in Sem, NEW o \in WaitOp, StartWait(t, o, w)
      PROVE  FieldType' /\ OpShape'
  BY <1>2 DEF StartWait, Goto, AllOps, WaitOp, SignalOp
<1>3. ASSUME NEW t \in Thread, NEW s \in Sem, NEW w \in Sem, NEW o \in WaitOp,
             StartWaitSignal(t, o, w, s)
      PROVE  FieldType' /\ OpShape'
  BY <1>3 DEF StartWaitSignal, Goto, AllOps, WaitOp, SignalOp
<1>4. ASSUME NEW t \in Thread, NEW s \in Sem, NEW o \in SignalOp, StartSignal(t, o, s)
      PROVE  FieldType' /\ OpShape'
  BY <1>4 DEF StartSignal, Goto, AllOps, WaitOp, SignalOp
<1>5. ASSUME NEW t \in Thread, NEW s \in Sem, StartDestroy(t, s)
      PROVE  FieldType' /\ OpShape'
  BY <1>5 DEF StartDestroy, Goto, AllOps, WaitOp, SignalOp
<1>6. ASSUME NEW t \in Thread, LookupWait(t)
      PROVE  FieldType' /\ OpShape'
  <2>1. CASE Reference(op[t].wait) /\ Goto(t, "wait") /\ UNCHANGED <<op, kr>>
    BY <1>6, <2>1 DEF LookupWait, Goto, WaitOp, SignalOp
  <2>2. CASE op' = [op EXCEPT ![t] = NoOp] /\ SetKr(t, "NONE") /\ Goto(t, "user")
    <3>1. NoOp \in OpRecord
      BY DEF NoOp
    <3> QED BY <1>6, <2>2, <3>1 DEF LookupWait, Goto, SetKr
  <2> QED BY <1>6, <2>1, <2>2 DEF LookupWait
<1>7. ASSUME NEW t \in Thread, WaitDead(t)
      PROVE  FieldType' /\ OpShape'
  BY <1>7 DEF WaitDead, AfterWait, Goto, SetKr, WaitOp, SignalOp
<1>8. ASSUME NEW t \in Thread, WaitTake(t)
      PROVE  FieldType' /\ OpShape'
  BY <1>8 DEF WaitTake, AfterWait, Goto, SetKr, WaitOp, SignalOp
<1>9. ASSUME NEW t \in Thread, WaitPoll(t)
      PROVE  FieldType' /\ OpShape'
  BY <1>9 DEF WaitPoll, AfterWait, Goto, SetKr, WaitOp, SignalOp
<1>10. ASSUME NEW t \in Thread, WaitAssert(t)
      PROVE  FieldType' /\ OpShape'
  BY <1>10 DEF WaitAssert, AfterWait, Goto, SetKr, WaitOp, SignalOp
<1>11. ASSUME NEW t \in Thread, SignalSecond(t)
      PROVE  FieldType' /\ OpShape'
  <2>1. count' \in [Sem -> -1 .. MaxCount] /\ token' \in [Thread -> BOOLEAN]
    BY <1>11, SignalOneType DEF SignalSecond
  <2>2. FieldType'
    BY <1>11, <2>1 DEF SignalSecond, Goto
  <2>3. OpShape'
    BY <1>11 DEF SignalSecond, Goto, WaitShape, WaitOp, SignalOp
  <2> QED BY <2>2, <2>3
<1>12. ASSUME NEW t \in Thread, SignalSecondDead(t)
      PROVE  FieldType' /\ OpShape'
  <2>1. Convert(wait_result'[t]) \in Return
    BY <1>12, ClearedResult, ConvertType DEF SignalSecondDead
  <2>2. kr' \in [Thread -> Return]
    BY <1>12, <2>1 DEF SignalSecondDead, SetKr
  <2>3. token' \in [Thread -> BOOLEAN]
    BY <1>12 DEF SignalSecondDead, GrantWoken
  <2> QED BY <1>12, <2>2, <2>3 DEF SignalSecondDead, Goto
<1>13. ASSUME NEW t \in Thread, Arm(t)
      PROVE  FieldType' /\ OpShape'
  BY <1>13 DEF Arm, Goto, WaitOp, SignalOp
<1>14. ASSUME NEW t \in Thread, Block(t)
      PROVE  FieldType' /\ OpShape'
  BY <1>14 DEF Block, Goto, WaitOp, SignalOp
<1>15. ASSUME NEW t \in Thread, Wake(t)
      PROVE  FieldType' /\ OpShape'
  <2>1. Convert(wait_result[t]) \in Return
    BY <1>15, ConvertType DEF Wake, WaitShape, WQTypeOK
  <2>2. kr' \in [Thread -> Return]
    BY <1>15, <2>1 DEF Wake, SetKr
  <2> QED BY <1>15, <2>2 DEF Wake, Goto
<1>16. ASSUME NEW t \in Thread, Release(t)
      PROVE  FieldType' /\ OpShape'
  BY <1>16 DEF Release, NoOp, Goto, SetKr, WaitOp, SignalOp
<1>17. ASSUME NEW t \in Thread, Signal(t)
      PROVE  FieldType' /\ OpShape'
  <2>0. op[t].signal \in Sem
    BY <1>17 DEF Signal
  <2>1. FieldType'
    BY <1>17, <2>0, SignalType
  <2>2. OpShape'
    BY <1>17 DEF Signal, Goto
  <2> QED BY <2>1, <2>2
<1>18. ASSUME NEW t \in Thread, Disown(t)
      PROVE  FieldType' /\ OpShape'
  <2>1. FieldType'
    BY <1>18 DEF Disown, Goto, SetKr
  <2>2. OpShape'
    BY <1>18 DEF Disown, Goto, SetKr
  <2> QED BY <2>1, <2>2
<1>19. ASSUME NEW t \in Thread, Deactivate(t)
      PROVE  FieldType' /\ OpShape'
  BY <1>19 DEF Deactivate, Goto, WaitOp, SignalOp
<1>20. ASSUME NEW t \in Thread, DeallocPort(t)
      PROVE  FieldType' /\ OpShape'
  BY <1>20 DEF DeallocPort, Goto, WaitOp, SignalOp
<1>21. ASSUME NEW t \in Thread, DropCreation(t)
      PROVE  FieldType' /\ OpShape'
  BY <1>21 DEF DropCreation, Goto, SetKr, WaitOp, SignalOp
<1>22. ASSUME NEW t \in Thread, Timeout(t)
      PROVE  FieldType' /\ OpShape'
  BY <1>22 DEF Timeout, WaitOp, SignalOp
<1>23. ASSUME NEW t \in Thread, SpecialHandler(t)
      PROVE  FieldType' /\ OpShape'
  BY <1>23 DEF SpecialHandler, others, WaitOp, SignalOp
<1>24. ASSUME NEW k \in Aborter, NEW t \in Thread, Abort(k, t) \/ AbortSafely(k, t)
       PROVE  FieldType' /\ OpShape'
  BY <1>24 DEF Abort, AbortSafely, GrantWoken, others
<1>25. ASSUME NEW k \in Clearer, FinishClear(k) PROVE FieldType' /\ OpShape'
  BY <1>25 DEF FinishClear, GrantWoken, others
<1>26. ASSUME NEW s \in Sem, NEW v \in 0 .. MaxCount, Create(s, v) PROVE FieldType' /\ OpShape'
  BY <1>26 DEF Create
<1> QED
  BY <1>1, <1>2, <1>3, <1>4, <1>5, <1>6, <1>7, <1>8, <1>9, <1>10, <1>11, <1>12, <1>13, <1>14, <1>15, <1>16, <1>17, <1>18, <1>19, <1>20, <1>21, <1>22, <1>23, <1>24, <1>25, <1>26
     DEF Next, Start, Step, Wait

-----------------------------------------------------------------------------
(* Waits and timers                                                        *)

\* Every action but WaitAssert leaves the queues alone or sets threads running
\* with a result: no wait changes its queue, its event or its mode.
LEMMA WaitsKept ==
  ASSUME SemInv, [Next]_vars, \A t \in Thread : ~WaitAssert(t)
  PROVE  \A u \in Thread :
           /\ waiting'[u] => /\ waiting[u]
                             /\ wait_queue'[u] = wait_queue[u]
                             /\ wait_event'[u] = wait_event[u]
                             /\ mode'[u] = mode[u]
           /\ wait_result'[u] = "NONE" => waiting'[u]
<1> DEFINE R == Result \ {"NONE"}
           Woken == \E S \in SUBSET Thread, r \in R : GoLocked(S, r)
<1>1. {"AWAKENED", "INTERRUPTED", "TIMED_OUT", "RESTART"} \subseteq R
  BY DEF Result
<1>2. ASSUME NEW t \in Thread, SignalSecond(t) PROVE UNCHANGED waitVars \/ Woken
  <2>1. op[t].signal \in Sem
    BY <1>2 DEF SignalSecond, SemInv, OpShape
  <2> QED BY <1>1, <1>2, <2>1, SignalOneWakes DEF SignalSecond
<1>3. ASSUME NEW t \in Thread, SignalSecondDead(t) \/ Block(t)
      PROVE UNCHANGED waitVars \/ Woken
  BY <1>1, <1>3, ClearedResult DEF SignalSecondDead, Block
<1>4. ASSUME NEW t \in Thread, Release(t) \/ SpecialHandler(t) PROVE UNCHANGED waitVars
  BY <1>4 DEF Release, SpecialHandler
<1>5. ASSUME NEW t \in Thread, Signal(t) PROVE UNCHANGED waitVars \/ Woken
  <2>1. op[t].signal \in Sem
    BY <1>5 DEF Signal, SemInv, OpShape
  <2> QED BY <1>1, <1>5, <2>1, SignalWakes
<1>6. ASSUME NEW t \in Thread, Deactivate(t) PROVE UNCHANGED waitVars \/ Woken
  BY <1>1, <1>6 DEF Deactivate, WakeupAllLocked, Waiters, Members
<1>7. ASSUME NEW t \in Thread, Timeout(t) PROVE UNCHANGED waitVars \/ Woken
  BY <1>1, <1>7 DEF Timeout, ClearWaitStart
<1>8. ASSUME NEW k \in Aborter, NEW t \in Thread, Abort(k, t) \/ AbortSafely(k, t)
      PROVE  UNCHANGED waitVars \/ Woken
  BY <1>1, <1>8 DEF Abort, AbortSafely, ThreadAbort, ThreadAbortSafely, ClearWaitStart
<1>9. ASSUME NEW k \in Clearer, FinishClear(k) PROVE UNCHANGED waitVars \/ Woken
  <2>1. removing[k].thread \in Thread /\ removing[k].result \in R
    BY <1>1, <1>9 DEF FinishClear, ClearWaitFinish, SemInv, TypeOK, WQTypeOK, Removal,
                      TimerShape, Clearer
  <2> QED BY <1>9, <2>1 DEF FinishClear, ClearWaitFinish
<1>10. UNCHANGED waitVars \/ Woken
  <2>1. ASSUME NEW s \in Sem, NEW v \in 0 .. MaxCount, Create(s, v) PROVE UNCHANGED wqVars
    BY <2>1 DEF Create
  <2> QED
    BY <1>2, <1>3, <1>4, <1>5, <1>6, <1>7, <1>8, <1>9, <2>1, QuietUnchanged
    DEF Next, Step, Wait, Quiet, vars, wqVars
<1>11. CASE UNCHANGED waitVars
  BY <1>11 DEF waitVars, SemInv, WaitShape
<1>12. CASE Woken
  <2>1. PICK S \in SUBSET Thread, r \in R : GoLocked(S, r)
    BY <1>12
  <2>2. /\ mode' = mode
        /\ \A u \in Thread :
             /\ waiting'[u] = (u \notin S /\ waiting[u])
             /\ u \notin S => wait_queue'[u] = wait_queue[u] /\ wait_event'[u] = wait_event[u]
             /\ wait_result'[u] = IF u \in S /\ waiting[u] THEN r ELSE wait_result[u]
    BY <2>1 DEF GoLocked
  <2>3. \A u \in Thread : wait_result[u] = "NONE" => waiting[u]
    BY DEF SemInv, WaitShape
  <2> QED BY <2>2, <2>3
<1> QED BY <1>10, <1>11, <1>12

\* A thread's step changes the operation and the timer of no other thread.
Local(t) ==
  \A u \in Thread \ {t} : /\ pc'[u] = pc[u] /\ op'[u] = op[u]
                          /\ kr'[u] = kr[u] /\ timer_set'[u] = timer_set[u]

\* (By the definitions of the steps.)
LEMMA LocalStep ==
  ASSUME SemInv, NEW t \in Thread, Start(t) \/ Step(t) PROVE Local(t)
<1> USE DEF SemInv, TypeOK, Local, Goto, SetKr
<1>1. CASE Start(t)
  BY <1>1 DEF Start, StartWait, StartWaitSignal, StartSignal, StartDestroy
<1>2. CASE LookupWait(t)
  BY <1>2 DEF LookupWait
<1>3. CASE Wait(t)
  BY <1>3 DEF Wait, WaitDead, WaitTake, WaitPoll, WaitAssert, AfterWait
<1>4. CASE SignalSecond(t)
  BY <1>4 DEF SignalSecond
<1>5. CASE SignalSecondDead(t)
  BY <1>5 DEF SignalSecondDead
<1>6. CASE Arm(t) \/ Block(t) \/ Wake(t)
  BY <1>6 DEF Arm, Block, Wake
<1>7. CASE Release(t) \/ Disown(t) \/ Deactivate(t) \/ DeallocPort(t) \/ DropCreation(t)
  BY <1>7 DEF Release, Disown, Deactivate, DeallocPort, DropCreation, NoOp
<1>8. CASE Signal(t)
  BY <1>8 DEF Signal
<1> QED BY <1>1, <1>2, <1>3, <1>4, <1>5, <1>6, <1>7, <1>8 DEF Step

\* The other actions change no operation.
LEMMA OtherSteps ==
  ASSUME SemInv, [Next]_vars, \A t \in Thread : ~Start(t) /\ ~Step(t)
  PROVE  UNCHANGED <<pc, op, kr>>
BY DEF Next, Timeout, SpecialHandler, Abort, AbortSafely, FinishClear, Create, others, vars

\* The steps of a thread that waits for nothing before or after them
Unwaited(t) ==
  \/ Start(t) \/ LookupWait(t) \/ WaitDead(t) \/ WaitTake(t) \/ WaitPoll(t)
  \/ Wake(t) \/ Release(t) \/ Signal(t)
  \/ Disown(t) \/ Deactivate(t) \/ DeallocPort(t) \/ DropCreation(t)

\* Such a thread is not about to mistake an old result for a wait in progress.
LEMMA UnwaitedStep ==
  ASSUME SemInv, NEW t \in Thread, Unwaited(t)
  PROVE  ~waiting[t] /\ (pc'[t] = "signal2" => kr'[t] # "ALREADY_WAITING")
<1> USE DEF SemInv, TypeOK, WaitShape, AfterAssert, Goto, SetKr
<1>1. CASE Start(t)
  BY <1>1 DEF Start, StartWait, StartWaitSignal, StartSignal, StartDestroy
<1>2. CASE LookupWait(t)
  BY <1>2 DEF LookupWait
<1>3. CASE WaitDead(t) \/ WaitTake(t) \/ WaitPoll(t)
  BY <1>3 DEF WaitDead, WaitTake, WaitPoll, AfterWait
<1>4. CASE Wake(t) \/ Release(t)
  BY <1>4 DEF Wake, Release
<1>5. CASE Signal(t) \/ Disown(t) \/ Deactivate(t) \/ DeallocPort(t) \/ DropCreation(t)
  BY <1>5 DEF Signal, Disown, Deactivate, DeallocPort, DropCreation
<1> QED BY <1>1, <1>2, <1>3, <1>4, <1>5 DEF Unwaited

\* Waits stay inside semaphore_wait_internal.
LEMMA WaitShapeStep ==
  ASSUME SemInv, [Next]_vars PROVE WaitShape'
<1>1. CASE \E t \in Thread : WaitAssert(t)
  <2>1. PICK t \in Thread : WaitAssert(t)
    BY <1>1
  <2>2. Local(t)
    BY <2>1, LocalStep DEF Step, Wait
  <2>3. op' = op /\ pc'[t] \in {"signal2", "arm"} /\ kr'[t] = "ALREADY_WAITING"
    BY <2>1 DEF WaitAssert, AfterWait, Goto, SetKr, SemInv, TypeOK
  <2>4. /\ waiting'[t] /\ wait_queue'[t] = op[t].wait
        /\ wait_event'[t] = SEMAPHORE_EVENT /\ mode'[t] = "ABORTSAFE"
        /\ op[t].name # "poll"
        /\ \A u \in Thread \ {t} :
             /\ waiting'[u] = waiting[u] /\ wait_queue'[u] = wait_queue[u]
             /\ wait_event'[u] = wait_event[u] /\ mode'[u] = mode[u]
             /\ wait_result'[u] = wait_result[u]
    BY <2>1 DEF WaitAssert, AssertWaitLocked, SemInv, TypeOK, WQTypeOK
  <2> QED BY <2>2, <2>3, <2>4 DEF SemInv, WaitShape, AfterAssert, Local
<1>2. CASE \A t \in Thread : ~WaitAssert(t)
  <2> DEFINE Kept == \A u \in Thread :
               /\ waiting'[u] => /\ waiting[u]
                                 /\ wait_queue'[u] = wait_queue[u]
                                 /\ wait_event'[u] = wait_event[u]
                                 /\ mode'[u] = mode[u]
               /\ wait_result'[u] = "NONE" => waiting'[u]
  <2>1. Kept
    BY <1>2, WaitsKept
  <2>2. CASE UNCHANGED <<pc, op, kr>>
    BY <2>1, <2>2 DEF SemInv, WaitShape
  <2>3. ASSUME NEW t \in Thread, Unwaited(t) PROVE WaitShape'
    <3>1. Local(t)
      BY <2>3, LocalStep DEF Unwaited, Step, Wait
    <3> QED BY <2>1, <2>3, <3>1, UnwaitedStep DEF Local, SemInv, WaitShape
  <2>4. ASSUME NEW t \in Thread, SignalSecond(t) \/ Arm(t) \/ Block(t) PROVE WaitShape'
    <3>1. Local(t)
      BY <2>4, LocalStep DEF Step
    <3>2. /\ op' = op /\ kr' = kr
          /\ pc[t] \in AfterAssert
          /\ pc'[t] \in {"arm", "block", "blocked"} \/ ~waiting[t]
          /\ pc'[t] # "signal2"
      BY <2>4 DEF SignalSecond, Arm, Block, Goto, SemInv, TypeOK, WaitShape, AfterAssert
    <3> QED BY <2>1, <3>1, <3>2 DEF Local, SemInv, WaitShape, AfterAssert
  <2>5. ASSUME NEW t \in Thread, SignalSecondDead(t) PROVE WaitShape'
    <3>1. Local(t)
      BY <2>5, LocalStep DEF Step
    <3>2. ~waiting'[t]
      BY <2>5, ClearedResult DEF SignalSecondDead, GoLocked
    <3>3. pc'[t] # "signal2"
      BY <2>5 DEF SignalSecondDead, Goto, SemInv, TypeOK
    <3> QED BY <2>1, <3>1, <3>2, <3>3 DEF Local, SemInv, WaitShape
  <2> QED
    BY <1>2, <2>2, <2>3, <2>4, <2>5, OtherSteps DEF Step, Wait, Unwaited
<1> QED BY <1>1, <1>2

\* Threads leave what the clearers decided alone, and of their steps only Arm
\* sets a timer.
LEMMA TimersKept ==
  ASSUME SemInv, NEW t \in Thread, Start(t) \/ Step(t)
  PROVE  /\ removing' = removing
         /\ \/ Arm(t) \/ Block(t) \/ Wake(t)
            \/ timer_set' = timer_set /\ pc[t] \notin {"block", "blocked"}
<1>1. CASE Start(t)
  BY <1>1 DEF Start, StartWait, StartWaitSignal, StartSignal, StartDestroy, wqVars
<1>2. CASE Step(t)
  BY <1>2 DEF Step, LookupWait, Wait, WaitDead, WaitTake, WaitPoll, WaitAssert, SignalSecond,
              SignalSecondDead, Arm, Block, Wake, Release, Signal, Disown, Deactivate,
              DeallocPort, DropCreation, wqVars
<1> QED BY <1>1, <1>2

\* An expiration is always that of the wait the thread is still in.
LEMMA TimerShapeStep ==
  ASSUME SemInv, [Next]_vars PROVE TimerShape'
<1>1. /\ removing \in [Clearer -> Removal \union {Idle}]
      /\ timer_set \in [Thread -> BOOLEAN]
      /\ pc \in [Thread -> Label]
      /\ \A t \in Thread : t \in Clearer /\ t \notin Aborter
      /\ \A k \in Aborter : k \in Clearer /\ k \notin Thread
  BY WaitQueueAssumption DEF SemInv, TypeOK, WQTypeOK, Clearer
<1>2. ASSUME NEW t \in Thread, Start(t) \/ Step(t) PROVE TimerShape'
  <2>1. Local(t) /\ removing' = removing
    BY <1>2, LocalStep, TimersKept
  <2>2. CASE timer_set' = timer_set /\ pc[t] \notin {"block", "blocked"}
    BY <2>1, <2>2 DEF SemInv, TimerShape, Local
  <2>3. CASE Arm(t)
    BY <1>1, <2>1, <2>3 DEF SemInv, TimerShape, Local, Arm, Goto
  <2>4. CASE Block(t)
    BY <1>1, <2>1, <2>4 DEF SemInv, TimerShape, Local, Block, Goto
  <2>5. CASE Wake(t)
    BY <1>1, <2>1, <2>5 DEF SemInv, TimerShape, Local, Wake, Goto
  <2> QED BY <1>2, <2>2, <2>3, <2>4, <2>5, TimersKept
<1>3. ASSUME NEW t \in Thread, Timeout(t) PROVE TimerShape'
  <2>1. /\ timer_set' = [timer_set EXCEPT ![t] = FALSE] /\ UNCHANGED <<pc, op>>
        /\ timer_set[t]
        /\ \/ removing' = removing
           \/ /\ wait_queue[t] # NoQueue
              /\ removing' = [removing EXCEPT ![t] =
                   [thread |-> t, wq |-> wait_queue[t], result |-> "TIMED_OUT"]]
    BY <1>3 DEF Timeout, ClearWaitStart
  <2>2. wait_queue[t] # NoQueue => op[t].wait = wait_queue[t]
    BY DEF SemInv, WaitingIffQueued, WaitShape
  <2> QED BY <1>1, <2>1, <2>2 DEF SemInv, TimerShape
<1>4. ASSUME NEW k \in Aborter, NEW t \in Thread, Abort(k, t) \/ AbortSafely(k, t)
      PROVE  TimerShape'
  <2>1. /\ UNCHANGED <<timer_set, pc, op>>
        /\ \/ removing' = removing
           \/ removing' = [removing EXCEPT ![k] =
                   [thread |-> t, wq |-> wait_queue[t], result |-> "INTERRUPTED"]]
    BY <1>4 DEF Abort, AbortSafely, ThreadAbort, ThreadAbortSafely, ClearWaitStart, others
  <2> QED BY <1>1, <2>1 DEF SemInv, TimerShape
<1>5. ASSUME NEW k \in Clearer, FinishClear(k) PROVE TimerShape'
  <2>1. UNCHANGED <<timer_set, pc, op>> /\ removing' = [removing EXCEPT ![k] = Idle]
    BY <1>5 DEF FinishClear, ClearWaitFinish, others
  <2> QED BY <1>1, <2>1 DEF SemInv, TimerShape
<1>6. CASE UNCHANGED <<timer_set, pc, op, removing>>
  BY <1>6 DEF SemInv, TimerShape
<1>7. ASSUME NEW s \in Sem, NEW v \in 0 .. MaxCount, Create(s, v)
      PROVE  UNCHANGED <<timer_set, pc, op, removing>>
  BY <1>7 DEF Create, wqVars
<1>8. ASSUME NEW t \in Thread, SpecialHandler(t)
      PROVE  UNCHANGED <<timer_set, pc, op, removing>>
  BY <1>8 DEF SpecialHandler, others
<1> QED
  BY <1>2, <1>3, <1>4, <1>5, <1>6, <1>7, <1>8 DEF Next, vars, wqVars

-----------------------------------------------------------------------------
(* The -1 mark                                                             *)

\* Every member of a semaphore's queue waits for its event.
LEMMA MembersWait ==
  ASSUME SemInv, NEW s \in Sem
  PROVE  Members(s) = Waiters(s, SEMAPHORE_EVENT)
<1>1. s # NoQueue
  BY WaitQueueAssumption DEF Sem
<1> QED BY <1>1 DEF SemInv, WaitShape, WaitingIffQueued, Members, Waiters

\* A semaphore nobody references has no port, no operation and no waiter.
LEMMA Unreferenced ==
  ASSUME SemInv, NEW s \in Sem, ref_count[s] = 0
  PROVE  /\ WaitHolders(s) = {} /\ SignalHolders(s) = {}
         /\ ~port[s] /\ ~active[s] /\ ~owned[s]
         /\ Members(s) = {}
<1>1. IsFiniteSet(WaitHolders(s)) /\ IsFiniteSet(SignalHolders(s))
  BY FS_Subset, SemaphoreAssumption DEF WaitHolders, SignalHolders
<1>2. Cardinality(WaitHolders(s)) \in Nat /\ Cardinality(SignalHolders(s)) \in Nat
  BY <1>1, FS_CardinalityType
<1>3. Creation(s) \in {0, 1} /\ (port[s] => Creation(s) = 1)
  BY DEF Creation
<1>4. Creation(s) = 0 /\ Cardinality(WaitHolders(s)) = 0 /\ Cardinality(SignalHolders(s)) = 0
  BY <1>2, <1>3 DEF SemInv, Counted
<1>5. WaitHolders(s) = {} /\ SignalHolders(s) = {}
  BY <1>1, <1>4, FS_EmptySet
<1>6. ~port[s] /\ ~active[s] /\ ~owned[s]
  BY <1>3, <1>4, <1>5 DEF SemInv, TypeOK, Lifecycle, Life, At, SignalHolders, HoldsSignal
<1>7. s # NoQueue
  BY WaitQueueAssumption DEF Sem
<1>8. Members(s) = {}
  BY <1>5, <1>7 DEF SemInv, WaitShape, WaitingIffQueued, Members, WaitHolders, HoldsWait, AfterAssert
<1> QED BY <1>5, <1>6, <1>8

\* Where a signal leaves no mark it leaves no waiter.
LEMMA SignalOneMark ==
  ASSUME SemInv, NEW s \in Sem, NEW prepost \in BOOLEAN, NEW v \in Return,
         SignalOne(s, prepost, v)
  PROVE  /\ \A q \in Sem : q # s => count'[q] = count[q]
         /\ count'[s] = count[s] \/ Members(s) = {}
<1> USE DEF SemInv, TypeOK
<1>1. CASE count[s] < 0 /\ UNCHANGED count
  BY <1>1
<1>2. CASE /\ ~(count[s] < 0 /\ Waiters(s, SEMAPHORE_EVENT) # {})
           /\ count' = [count EXCEPT ![s] = (IF @ < 0 THEN 0 ELSE @)
                                         + (IF prepost THEN 1 ELSE 0)]
  <2>1. Members(s) = {}
    <3>1. Members(s) = Waiters(s, SEMAPHORE_EVENT)
      BY MembersWait
    <3>2. Members(s) # {} => count[s] = -1
      BY DEF WaitersSeen
    <3> QED BY <1>2, <3>1, <3>2
  <2> QED BY <1>2, <2>1
<1> QED BY <1>1, <1>2 DEF SignalOne

\* The queue of a semaphore all of whose waiters are woken
LEMMA AllWoken ==
  ASSUME SemInv, NEW s \in Sem, NEW r, WakeupAllLocked(s, SEMAPHORE_EVENT, r)
  PROVE  Members(s)' = {}
<1>1. s # NoQueue
  BY WaitQueueAssumption DEF Sem
<1>2. WakeupAllLocked(s, SEMAPHORE_EVENT, r) => GoLocked(Members(s), r)
  BY MembersWait DEF WakeupAllLocked
<1> QED BY <1>1, <1>2 DEF GoLocked, Members

\* Waiters are announced from the moment they are queued to the moment the
\* last one has been pulled off.
LEMMA WaitersSeenStep ==
  ASSUME SemInv, [Next]_vars PROVE WaitersSeen'
<1> USE DEF SemInv, TypeOK, WaitersSeen
<1>0. \A s \in Sem : s # NoQueue
  BY WaitQueueAssumption DEF Sem
<1>1. ASSUME NEW t \in Thread, WaitAssert(t) PROVE WaitersSeen'
  <2>1. op[t].wait \in Sem /\ active[op[t].wait] /\ active' = active
    BY <1>1 DEF WaitAssert, OpShape, InWait
  <2>2. count' = [count EXCEPT ![op[t].wait] = -1]
    BY <1>1 DEF WaitAssert
  <2>3. \A s \in Sem : s # op[t].wait => Members(s)' \subseteq Members(s)
    BY <1>1 DEF WaitAssert, AssertWaitLocked, WQTypeOK, Members
  <2> QED BY <2>1, <2>2, <2>3
<1>2. CASE \A t \in Thread : ~WaitAssert(t)
  <2>1. \A s \in Sem : Members(s)' \subseteq Members(s)
    BY <1>0, <1>2, QueuesStep DEF OnlyEnds, Members
  <2>2. SUFFICES \A s \in Sem : Members(s)' # {} => active'[s] = active[s] /\ count'[s] = count[s]
    BY <2>1
  <2>3. CASE UNCHANGED <<active, count>>
    BY <2>3
  <2>4. ASSUME NEW t \in Thread, WaitTake(t)
        PROVE  \A s \in Sem : Members(s)' # {} => active'[s] = active[s] /\ count'[s] = count[s]
    BY <2>1, <2>4 DEF WaitTake
  <2>5. ASSUME NEW t \in Thread, SignalSecond(t)
        PROVE  \A s \in Sem : Members(s)' # {} => active'[s] = active[s] /\ count'[s] = count[s]
    <3>1. op[t].signal \in Sem /\ active' = active
      BY <2>5 DEF SignalSecond, OpShape
    <3>2. PICK v \in Return : SignalOne(op[t].signal, TRUE, v)
      BY <2>5 DEF SignalSecond
    <3> QED BY <2>1, <3>1, <3>2, SignalOneMark
  <2>6. ASSUME NEW t \in Thread, Signal(t)
        PROVE  \A s \in Sem : Members(s)' # {} => active'[s] = active[s] /\ count'[s] = count[s]
    <3> DEFINE q == op[t].signal
    <3>1. q \in Sem /\ active' = active
      BY <2>6 DEF Signal, OpShape
    <3>2. PICK v \in Return :
            \/ SignalDead(q, v)
            \/ SignalOne(q, TRUE, v) \/ SignalOne(q, FALSE, v)
            \/ SignalAll(q, v)
            \/ \E target \in Thread : SignalThread(q, target, v)
      BY <2>6 DEF Signal
    <3>3. CASE SignalDead(q, v) \/ \E target \in Thread : SignalThread(q, target, v)
      BY <3>1, <3>3 DEF SignalDead, SignalThread
    <3>4. CASE SignalOne(q, TRUE, v) \/ SignalOne(q, FALSE, v)
      BY <2>1, <3>1, <3>4, SignalOneMark
    <3>5. CASE SignalAll(q, v)
      BY <3>1, <3>5, AllWoken DEF SignalAll
    <3> QED BY <3>2, <3>3, <3>4, <3>5
  <2>7. ASSUME NEW t \in Thread, Deactivate(t)
        PROVE  \A s \in Sem : Members(s)' # {} => active'[s] = active[s] /\ count'[s] = count[s]
    <3>1. op[t].signal \in Sem
      BY <2>7 DEF Deactivate, OpShape, InDestroy
    <3>2. Members(op[t].signal)' = {}
      BY <2>1, <2>7, <3>1, AllWoken DEF Deactivate
    <3> QED BY <2>7, <3>1, <3>2 DEF Deactivate
  <2>8. ASSUME NEW s \in Sem, NEW v \in 0 .. MaxCount, Create(s, v)
        PROVE  \A q \in Sem : Members(q)' # {} => active'[q] = active[q] /\ count'[q] = count[q]
    BY <2>1, <2>8, Unreferenced DEF Create
  <2>9. ASSUME NEW t \in Thread,
               \/ Start(t) \/ LookupWait(t) \/ WaitDead(t) \/ WaitPoll(t) \/ SignalSecondDead(t)
               \/ Arm(t) \/ Block(t) \/ Wake(t) \/ Release(t) \/ Disown(t) \/ DeallocPort(t)
               \/ DropCreation(t) \/ Timeout(t) \/ SpecialHandler(t)
        PROVE  UNCHANGED <<active, count>>
    BY <2>9 DEF Start, StartWait, StartWaitSignal, StartSignal, StartDestroy, LookupWait, WaitDead,
         WaitPoll, SignalSecondDead, Arm, Block, Wake, Release, Disown, DeallocPort, DropCreation,
         Timeout, SpecialHandler, others, semVars
  <2>10. ASSUME NEW k \in Aborter, NEW t \in Thread, Abort(k, t) \/ AbortSafely(k, t)
         PROVE  UNCHANGED <<active, count>>
    BY <2>10 DEF Abort, AbortSafely, others, semVars
  <2>11. ASSUME NEW k \in Clearer, FinishClear(k) PROVE UNCHANGED <<active, count>>
    BY <2>11 DEF FinishClear, others, semVars
  <2> QED
    BY <1>2, <2>3, <2>4, <2>5, <2>6, <2>7, <2>8, <2>9, <2>10, <2>11
    DEF Next, Step, Wait, vars, semVars
<1> QED BY <1>1, <1>2

-----------------------------------------------------------------------------
(* Destruction                                                             *)

\* The steps that have nothing to do with the destruction of a semaphore
Bystander(t) ==
  \/ Start(t) \/ LookupWait(t) \/ Wait(t) \/ SignalSecond(t) \/ SignalSecondDead(t)
  \/ Arm(t) \/ Block(t) \/ Wake(t) \/ Release(t) \/ Signal(t)

\* They leave the stages alone.
LEMMA BystanderStep ==
  ASSUME SemInv, NEW t \in Thread, Bystander(t)
  PROVE  /\ UNCHANGED <<owned, active, port>>
         /\ pc[t] \notin Destroying /\ pc'[t] \notin Destroying
<1> USE DEF SemInv, TypeOK, Goto, Destroying, semVars
<1>1. CASE Start(t)
  BY <1>1 DEF Start, StartWait, StartWaitSignal, StartSignal, StartDestroy
<1>2. CASE LookupWait(t) \/ Wait(t)
  BY <1>2 DEF LookupWait, Wait, WaitDead, WaitTake, WaitPoll, WaitAssert, AfterWait
<1>3. CASE SignalSecond(t) \/ SignalSecondDead(t) \/ Signal(t)
  BY <1>3 DEF SignalSecond, SignalSecondDead, Signal
<1>4. CASE Arm(t) \/ Block(t) \/ Wake(t) \/ Release(t)
  BY <1>4 DEF Arm, Block, Wake, Release
<1> QED BY <1>1, <1>2, <1>3, <1>4 DEF Bystander

\* What happens elsewhere does not matter to a semaphore.
LEMMA LifeKept ==
  ASSUME NEW s, Life(s),
         owned'[s] = owned[s], active'[s] = active[s], port'[s] = port[s],
         \A u \in Thread, l \in Destroying : At(u, l, s)' <=> At(u, l, s)
  PROVE  Life(s)'
BY DEF Life, Destroying

\* A semaphore goes through its stages in order, at the hand of one destroyer.
LEMMA LifecycleStep ==
  ASSUME SemInv, [Next]_vars PROVE Lifecycle'
<1> USE DEF SemInv, TypeOK, Lifecycle
<1>0. \A s \in Sem : Life(s)
  OBVIOUS
<1>1. ASSUME NEW t \in Thread, Bystander(t) PROVE Lifecycle'
  <2>1. Local(t)
    BY <1>1, LocalStep DEF Bystander, Step
  <2>2. /\ UNCHANGED <<owned, active, port>>
        /\ pc[t] \notin Destroying /\ pc'[t] \notin Destroying
    BY <1>1, BystanderStep
  <2>3. \A u \in Thread, l \in Destroying, s \in Sem : At(u, l, s)' <=> At(u, l, s)
    BY <2>1, <2>2 DEF Local, At
  <2> QED BY <1>0, <2>2, <2>3, LifeKept
<1>2. ASSUME NEW t \in Thread, Disown(t) PROVE Lifecycle'
  <2> DEFINE q == op[t].signal
  <2>1. /\ Local(t) /\ q \in Sem /\ op' = op /\ UNCHANGED <<active, port>>
        /\ pc[t] = "disown"
    BY <1>2, LocalStep DEF Step, Disown, OpShape, InDestroy
  <2>2. CASE ~owned[q] /\ owned' = owned /\ Goto(t, "release")
    <3>1. \A u \in Thread, l \in Destroying, s \in Sem : At(u, l, s)' <=> At(u, l, s)
      BY <2>1, <2>2 DEF Local, At, Goto, Destroying
    <3> QED BY <1>0, <2>1, <2>2, <3>1, LifeKept
  <2>3. CASE owned[q] /\ Goto(t, "deactivate") /\ owned' = [owned EXCEPT ![q] = FALSE]
    <3>1. \A u \in Thread \ {t}, l \in Destroying, s \in Sem : At(u, l, s)' <=> At(u, l, s)
      BY <2>1, <2>3 DEF Local, At
    <3>2. \A l \in Destroying, s \in Sem : ~At(t, l, s) /\ (At(t, l, s)' <=> l = "deactivate" /\ s = q)
      BY <2>1, <2>3 DEF At, Goto, Destroying
    <3>3. ASSUME NEW s \in Sem, s # q PROVE Life(s)'
      <4>1. owned'[s] = owned[s] /\ active'[s] = active[s] /\ port'[s] = port[s]
        BY <2>1, <2>3, <3>3
      <4>2. \A u \in Thread, l \in Destroying : At(u, l, s)' <=> At(u, l, s)
        BY <3>1, <3>2, <3>3
      <4> QED BY <1>0, <4>1, <4>2, LifeKept
    <3>4. \A u \in Thread, l \in Destroying : ~At(u, l, q)
      BY <1>0, <2>1, <2>3 DEF Life, Destroying
    <3>5. ~owned'[q] /\ active'[q] /\ port'[q]
      BY <1>0, <2>1, <2>3 DEF Life
    <3>6. ASSUME NEW s \in Sem, s = q PROVE Life(s)'
      <4>1. \A u \in Thread, l \in Destroying : At(u, l, s)' <=> u = t /\ l = "deactivate"
        BY <3>1, <3>2, <3>4, <3>6
      <4>2. ~owned'[s] /\ active'[s] /\ port'[s]
        BY <3>5, <3>6
      <4> HIDE DEF q
      <4> QED BY <4>1, <4>2 DEF Life, Destroying
    <3> QED BY <3>3, <3>6
  <2> QED BY <1>2, <2>2, <2>3 DEF Disown
<1>3. ASSUME NEW t \in Thread, NEW l \in Destroying, NEW m \in Destroying \union {"release"},
             pc[t] = l, pc'[t] = m, op' = op, Local(t), op[t].signal \in Sem,
             UNCHANGED owned,
             \A s \in Sem : s # op[t].signal => active'[s] = active[s] /\ port'[s] = port[s],
             \/ /\ l = "deactivate" /\ m = "dealloc"
                /\ ~active'[op[t].signal] /\ port' = port
             \/ /\ l = "dealloc" /\ m = "drop"
                /\ active' = active /\ ~port'[op[t].signal]
             \/ l = "drop" /\ m = "release" /\ active' = active /\ port' = port
      PROVE  Lifecycle'
  <2> DEFINE q == op[t].signal
  <2>1. \A u \in Thread \ {t}, n \in Destroying, s \in Sem : At(u, n, s)' <=> At(u, n, s)
    BY <1>3 DEF Local, At
  <2>2. \A n \in Destroying, s \in Sem : /\ At(t, n, s) <=> n = l /\ s = q
                                         /\ At(t, n, s)' <=> n = m /\ s = q
    BY <1>3 DEF At
  <2>3. \A s \in Sem : s # q => Life(s)'
    BY <1>0, <1>3, <2>1, <2>2, LifeKept
  <2>4. \A u \in Thread \ {t}, n \in Destroying : ~At(u, n, q)
    BY <1>0, <1>3, <2>2 DEF Life
  <2>5. /\ ~owned[q]
        /\ l = "deactivate" => active[q] /\ port[q]
        /\ l = "dealloc" => ~active[q] /\ port[q]
        /\ l = "drop" => ~active[q] /\ ~port[q]
    BY <1>0, <1>3, <2>2 DEF Life
  <2>7. ASSUME NEW s \in Sem, s = q PROVE Life(s)'
    <3>1. \A u \in Thread, n \in Destroying : At(u, n, s)' <=> u = t /\ n = m
      BY <1>3, <2>1, <2>2, <2>4, <2>7
    <3>2. ~owned'[s] /\ \/ m = "dealloc" /\ ~active'[s] /\ port'[s]
                        \/ m \in {"drop", "release"} /\ ~active'[s] /\ ~port'[s]
      <4>1. CASE l = "deactivate" /\ m = "dealloc" /\ ~active'[s] /\ port' = port
        BY <2>5, <2>7, <4>1, <1>3
      <4>2. CASE l = "dealloc" /\ m = "drop" /\ active' = active /\ ~port'[s]
        BY <2>5, <2>7, <4>2, <1>3
      <4>3. CASE l = "drop" /\ m = "release" /\ active' = active /\ port' = port
        BY <2>5, <2>7, <4>3, <1>3
      <4> QED BY <1>3, <2>7, <4>1, <4>2, <4>3
    <3> HIDE DEF q
    <3> QED BY <3>1, <3>2 DEF Life, Destroying
  <2> QED BY <2>3, <2>7
<1>4. ASSUME NEW t \in Thread, Deactivate(t) \/ DeallocPort(t) \/ DropCreation(t) PROVE Lifecycle'
  <2>1. Local(t) /\ op' = op /\ op[t].signal \in Sem /\ UNCHANGED owned
    BY <1>4, LocalStep DEF Step, Deactivate, DeallocPort, DropCreation, OpShape, InDestroy, semVars
  <2>2. CASE Deactivate(t)
    BY <1>3, <2>1, <2>2 DEF Deactivate, Goto, Destroying
  <2>3. CASE DeallocPort(t)
    BY <1>3, <2>1, <2>3 DEF DeallocPort, Goto, Destroying
  <2>4. CASE DropCreation(t)
    BY <1>3, <2>1, <2>4 DEF DropCreation, Goto, Destroying, semVars
  <2> QED BY <1>4, <2>2, <2>3, <2>4
<1>6. ASSUME NEW s \in Sem, NEW v \in 0 .. MaxCount, Create(s, v) PROVE Lifecycle'
  <2>1. /\ UNCHANGED <<pc, op>>
        /\ owned' = [owned EXCEPT ![s] = TRUE]
        /\ active' = [active EXCEPT ![s] = TRUE]
        /\ port' = [port EXCEPT ![s] = TRUE]
    BY <1>6 DEF Create
  <2>2. \A t \in Thread : op[t].signal = s => pc[t] = "user"
    BY <1>6, Unreferenced DEF Create, SignalHolders, HoldsSignal
  <2>3. \A t \in Thread, l \in Destroying, q \in Sem : At(t, l, q)' <=> At(t, l, q)
    BY <2>1 DEF At
  <2>4. \A q \in Sem : q # s => Life(q)'
    BY <1>0, <2>1, <2>3, LifeKept
  <2>5. \A t \in Thread, l \in Destroying : ~At(t, l, s)'
    BY <2>1, <2>2 DEF At, Destroying
  <2>6. Life(s)'
    BY <2>1, <2>5 DEF Life, Destroying
  <2> QED BY <2>4, <2>6
<1>7. CASE UNCHANGED <<pc, op, owned, active, port>>
  BY <1>7 DEF Life, At
<1>8. ASSUME NEW t \in Thread, Timeout(t) \/ SpecialHandler(t)
      PROVE  UNCHANGED <<pc, op, owned, active, port>>
  BY <1>8 DEF Timeout, SpecialHandler, others, semVars
<1>9. ASSUME NEW k \in Aborter, NEW t \in Thread, Abort(k, t) \/ AbortSafely(k, t)
      PROVE  UNCHANGED <<pc, op, owned, active, port>>
  BY <1>9 DEF Abort, AbortSafely, others, semVars
<1>10. ASSUME NEW k \in Clearer, FinishClear(k)
       PROVE  UNCHANGED <<pc, op, owned, active, port>>
  BY <1>10 DEF FinishClear, others, semVars
<1> QED
  BY <1>1, <1>2, <1>4, <1>6, <1>7, <1>8, <1>9, <1>10
  DEF Next, Step, Bystander, vars, semVars

-----------------------------------------------------------------------------
(* References                                                              *)

N(b) == IF b THEN 1 ELSE 0

\* The cardinality of a set in which only the membership of t has changed
LEMMA CardinalityChange ==
  ASSUME NEW A, NEW B, NEW t, IsFiniteSet(A), \A u : u # t => (u \in A <=> u \in B)
  PROVE  /\ IsFiniteSet(B)
         /\ Cardinality(A) \in Nat /\ Cardinality(B) \in Nat
         /\ Cardinality(B) = Cardinality(A) + N(t \in B) - N(t \in A)
<1> DEFINE Changed == /\ IsFiniteSet(B)
                      /\ Cardinality(A) \in Nat /\ Cardinality(B) \in Nat
                      /\ Cardinality(B) = Cardinality(A) + N(t \in B) - N(t \in A)
<1> SUFFICES Changed
  OBVIOUS
<1>1. CASE t \in A <=> t \in B
  <2>1. A = B
    BY <1>1
  <2> QED BY <1>1, <2>1, FS_CardinalityType DEF N
<1>2. CASE t \notin A /\ t \in B
  <2>1. B = A \union {t}
    BY <1>2
  <2>2. IsFiniteSet(B) /\ Cardinality(B) = Cardinality(A) + 1
    BY <1>2, <2>1, FS_AddElement
  <2> QED BY <1>2, <2>2, FS_CardinalityType DEF N
<1>3. CASE t \in A /\ t \notin B
  <2>1. B = A \ {t}
    BY <1>3
  <2>2. IsFiniteSet(B) /\ Cardinality(B) = Cardinality(A) - 1
    BY <1>3, <2>1, FS_RemoveElement
  <2> QED BY <1>3, <2>2, FS_CardinalityType DEF N
<1> HIDE DEF Changed
<1> QED BY <1>1, <1>2, <1>3

\* The references operations hold on s change only by those of the thread
\* that takes the step.
LEMMA HoldersChange ==
  ASSUME NEW t \in Thread, Local(t), NEW s \in Sem
  PROVE  /\ Cardinality(WaitHolders(s)) \in Nat /\ Cardinality(WaitHolders(s))' \in Nat
         /\ Cardinality(SignalHolders(s)) \in Nat /\ Cardinality(SignalHolders(s))' \in Nat
         /\ Cardinality(WaitHolders(s))' =
              Cardinality(WaitHolders(s)) + N(HoldsWait(t, s)') - N(HoldsWait(t, s))
         /\ Cardinality(SignalHolders(s))' =
              Cardinality(SignalHolders(s)) + N(HoldsSignal(t, s)') - N(HoldsSignal(t, s))
<1>1. IsFiniteSet(WaitHolders(s)) /\ IsFiniteSet(SignalHolders(s))
  BY FS_Subset, SemaphoreAssumption DEF WaitHolders, SignalHolders
<1>2. \A u : u # t => (u \in WaitHolders(s) <=> u \in WaitHolders(s)')
  BY DEF Local, WaitHolders, HoldsWait
<1>3. \A u : u # t => (u \in SignalHolders(s) <=> u \in SignalHolders(s)')
  BY DEF Local, SignalHolders, HoldsSignal
<1>4. /\ t \in WaitHolders(s) <=> HoldsWait(t, s)
      /\ t \in WaitHolders(s)' <=> HoldsWait(t, s)'
      /\ t \in SignalHolders(s) <=> HoldsSignal(t, s)
      /\ t \in SignalHolders(s)' <=> HoldsSignal(t, s)'
  BY DEF WaitHolders, SignalHolders
<1>5. /\ Cardinality(WaitHolders(s)) \in Nat /\ Cardinality(WaitHolders(s)') \in Nat
      /\ Cardinality(WaitHolders(s)') = Cardinality(WaitHolders(s))
           + N(t \in WaitHolders(s)') - N(t \in WaitHolders(s))
  BY <1>1, <1>2, CardinalityChange
<1>6. /\ Cardinality(SignalHolders(s)) \in Nat /\ Cardinality(SignalHolders(s)') \in Nat
      /\ Cardinality(SignalHolders(s)') = Cardinality(SignalHolders(s))
           + N(t \in SignalHolders(s)') - N(t \in SignalHolders(s))
  BY <1>1, <1>3, CardinalityChange
<1>7. /\ N(t \in WaitHolders(s)) = N(HoldsWait(t, s))
      /\ N(t \in WaitHolders(s)') = N(HoldsWait(t, s)')
      /\ N(t \in SignalHolders(s)) = N(HoldsSignal(t, s))
      /\ N(t \in SignalHolders(s)') = N(HoldsSignal(t, s)')
  BY <1>4 DEF N
<1> QED BY <1>5, <1>6, <1>7

\* A count changes with what the thread that takes the step holds.
CountedAt(s) ==
  ref_count[s] = Creation(s) + Cardinality(WaitHolders(s)) + Cardinality(SignalHolders(s))

\* It suffices to look at that thread and at the creation reference.
LEMMA CountedChange ==
  ASSUME SemInv, NEW t \in Thread, Local(t), NEW s \in Sem,
         ref_count'[s] = ref_count[s] + (Creation(s)' - Creation(s))
                           + (N(HoldsWait(t, s)') - N(HoldsWait(t, s)))
                           + (N(HoldsSignal(t, s)') - N(HoldsSignal(t, s)))
  PROVE  CountedAt(s)' /\ ref_count'[s] \in Nat
<1>1. Creation(s) \in Nat /\ Creation(s)' \in Nat
  BY DEF Creation
<1>2. N(HoldsWait(t, s)) \in Nat /\ N(HoldsSignal(t, s)) \in Nat
      /\ N(HoldsWait(t, s)') \in Nat /\ N(HoldsSignal(t, s)') \in Nat
  BY DEF N
<1>3. ref_count[s] = Creation(s) + Cardinality(WaitHolders(s)) + Cardinality(SignalHolders(s))
  BY DEF SemInv, Counted
<1> QED BY <1>1, <1>2, <1>3, HoldersChange DEF CountedAt

\* The creation reference is there until a destroyer drops it.
LEMMA CreationKept ==
  ASSUME NEW s \in Sem, port'[s] = port[s],
         \A u \in Thread : At(u, "drop", s)' <=> At(u, "drop", s)
  PROVE  Creation(s)' = Creation(s) /\ Creation(s) \in Nat
BY DEF Creation, At

\* What a bystander's step does to the references it holds is what it does to
\* the counts.
LEMMA BystanderCounts ==
  ASSUME SemInv, NEW t \in Thread, Bystander(t), NEW s \in Sem
  PROVE  ref_count'[s] = ref_count[s] + (N(HoldsWait(t, s)') - N(HoldsWait(t, s)))
                                      + (N(HoldsSignal(t, s)') - N(HoldsSignal(t, s)))
<1> USE DEF SemInv, TypeOK, HoldsWait, HoldsSignal, N, Goto
<1>0. ref_count[s] \in Nat /\ s # NoSem
  BY WaitQueueAssumption DEF Sem, NoSem
<1>1. CASE \/ Wait(t) \/ SignalSecond(t) \/ SignalSecondDead(t)
           \/ Arm(t) \/ Block(t) \/ Wake(t) \/ Signal(t)
  <2>1. /\ op' = op /\ ref_count' = ref_count
        /\ pc[t] \notin {"user", "lookup"} /\ pc'[t] \notin {"user", "lookup"}
    BY <1>1 DEF Wait, WaitDead, WaitTake, WaitPoll, WaitAssert, AfterWait, SignalSecond,
                SignalSecondDead, Arm, Block, Wake, Signal
  <2> QED BY <1>0, <2>1
<1>2. CASE Start(t)
  <2>1. pc[t] = "user" /\ op[t] = NoOp
    BY <1>2 DEF Start, StartWait, StartWaitSignal, StartSignal, StartDestroy, OpShape
  <2>2. ASSUME NEW w \in Sem, NEW o \in WaitOp, StartWait(t, o, w)
        PROVE  /\ ref_count' = [ref_count EXCEPT ![w] = @ + 1]
               /\ pc'[t] = "wait" /\ op'[t].wait = w /\ op'[t].signal = NoSem
    BY <2>2 DEF StartWait, Reference
  <2>3. ASSUME NEW q \in Sem, NEW w \in Sem, NEW o \in WaitOp, StartWaitSignal(t, o, w, q)
        PROVE  /\ ref_count' = [ref_count EXCEPT ![q] = @ + 1]
               /\ pc'[t] = "lookup" /\ op'[t].signal = q
    BY <2>3 DEF StartWaitSignal, Reference
  <2>4. ASSUME NEW q \in Sem, StartDestroy(t, q) \/ \E o \in SignalOp : StartSignal(t, o, q)
        PROVE  /\ ref_count' = [ref_count EXCEPT ![q] = @ + 1]
               /\ pc'[t] \in {"signal", "disown"} /\ op'[t].wait = NoSem /\ op'[t].signal = q
    BY <2>4 DEF StartSignal, StartDestroy, Reference
  <2>5. CASE \E w \in Sem : /\ ref_count' = [ref_count EXCEPT ![w] = @ + 1]
                            /\ pc'[t] = "wait" /\ op'[t].wait = w /\ op'[t].signal = NoSem
    BY <1>0, <2>1, <2>5
  <2>6. CASE \E q \in Sem : /\ ref_count' = [ref_count EXCEPT ![q] = @ + 1]
                            /\ pc'[t] = "lookup" /\ op'[t].signal = q
    BY <1>0, <2>1, <2>6
  <2>7. CASE \E q \in Sem : /\ ref_count' = [ref_count EXCEPT ![q] = @ + 1]
                            /\ pc'[t] \in {"signal", "disown"}
                            /\ op'[t].wait = NoSem /\ op'[t].signal = q
    BY <1>0, <2>1, <2>7
  <2> QED BY <1>2, <2>2, <2>3, <2>4, <2>5, <2>6, <2>7 DEF Start
<1>3. CASE LookupWait(t)
  <2>1. pc[t] = "lookup" /\ op[t].wait \in Sem /\ op[t].signal \in Sem
    BY <1>3 DEF LookupWait, OpShape, InWait
  <2>2. CASE Reference(op[t].wait) /\ Goto(t, "wait") /\ op' = op
    BY <1>0, <2>1, <2>2 DEF Reference
  <2>3. CASE /\ ref_count' = [ref_count EXCEPT ![op[t].signal] = @ - 1]
             /\ op' = [op EXCEPT ![t] = NoOp] /\ Goto(t, "user")
    BY <1>0, <2>1, <2>3
  <2> QED BY <1>3, <2>2, <2>3 DEF LookupWait
<1>4. CASE Release(t)
  <2>1. ref_count'[s] = ref_count[s] - Holds(t, s) /\ pc'[t] = "user"
    BY <1>4 DEF Release
  <2> QED BY <1>0, <2>1 DEF Holds
<1> QED BY <1>1, <1>2, <1>3, <1>4 DEF Bystander

\* Every reference taken is dropped once: the counts stay exact.
LEMMA CountedStep ==
  ASSUME SemInv, [Next]_vars PROVE Counted' /\ ref_count' \in [Sem -> Nat]
<1> USE DEF SemInv, TypeOK, Goto
<1> DEFINE Goal == ref_count' \in [Sem -> Int] /\ \A s \in Sem : CountedAt(s)' /\ ref_count'[s] \in Nat
<1> SUFFICES Goal
  BY DEF Counted, CountedAt
<1>1. ASSUME NEW t \in Thread, Bystander(t) PROVE Goal
  <2>1. Local(t)
    BY <1>1, LocalStep DEF Bystander, Step
  <2>2. ref_count' \in [Sem -> Int]
    <3>1. CASE Release(t)
      BY <3>1 DEF Release, Holds
    <3>2. CASE LookupWait(t)
      BY <3>2 DEF LookupWait, Reference
    <3>3. CASE Start(t)
      BY <3>3 DEF Start, StartWait, StartWaitSignal, StartSignal, StartDestroy, Reference
    <3>4. CASE \/ Wait(t) \/ SignalSecond(t) \/ SignalSecondDead(t)
               \/ Arm(t) \/ Block(t) \/ Wake(t) \/ Signal(t)
      <4>1. ref_count' = ref_count
        BY <3>4 DEF Wait, WaitDead, WaitTake, WaitPoll, WaitAssert, SignalSecond,
                    SignalSecondDead, Arm, Block, Wake, Signal
      <4> QED BY <4>1
    <3> QED BY <1>1, <3>1, <3>2, <3>3, <3>4 DEF Bystander
  <2>3. ASSUME NEW s \in Sem PROVE CountedAt(s)' /\ ref_count'[s] \in Nat
    <3>1. port' = port /\ pc[t] # "drop" /\ pc'[t] # "drop"
      BY <1>1, BystanderStep DEF Destroying
    <3>2. Creation(s)' = Creation(s) /\ Creation(s) \in Nat
      BY <2>1, <3>1, CreationKept DEF Local, At
    <3>3. ref_count'[s] = ref_count[s] + (N(HoldsWait(t, s)') - N(HoldsWait(t, s)))
                                      + (N(HoldsSignal(t, s)') - N(HoldsSignal(t, s)))
      BY <1>1, BystanderCounts
    <3>4. ref_count'[s] = ref_count[s] + (Creation(s)' - Creation(s))
                           + (N(HoldsWait(t, s)') - N(HoldsWait(t, s)))
                           + (N(HoldsSignal(t, s)') - N(HoldsSignal(t, s)))
      BY <3>2, <3>3 DEF N
    <3> QED BY <2>1, <3>4, CountedChange
  <2> QED BY <2>2, <2>3
<1>2. ASSUME NEW t \in Thread, op' = op, Local(t), ref_count' \in [Sem -> Int],
             pc[t] \in InDestroy, pc'[t] \in InDestroy \union {"release"},
             \A s \in Sem : ref_count'[s] = ref_count[s] + (Creation(s)' - Creation(s))
      PROVE  Goal
  <2>1. ASSUME NEW s \in Sem PROVE CountedAt(s)' /\ ref_count'[s] \in Nat
    <3>1. /\ HoldsWait(t, s)' <=> HoldsWait(t, s)
          /\ HoldsSignal(t, s)' <=> HoldsSignal(t, s)
      BY <1>2 DEF HoldsWait, HoldsSignal, InDestroy
    <3>2. /\ N(HoldsWait(t, s)') - N(HoldsWait(t, s)) = 0
          /\ N(HoldsSignal(t, s)') - N(HoldsSignal(t, s)) = 0
      BY <3>1 DEF N
    <3>3. ref_count[s] + (Creation(s)' - Creation(s)) \in Int
      BY DEF Creation
    <3>4. ref_count'[s] = ref_count[s] + (Creation(s)' - Creation(s))
                           + (N(HoldsWait(t, s)') - N(HoldsWait(t, s)))
                           + (N(HoldsSignal(t, s)') - N(HoldsSignal(t, s)))
      BY <1>2, <3>2, <3>3
    <3> QED BY <1>2, <3>4, CountedChange
  <2> QED BY <1>2, <2>1
<1>3. ASSUME NEW t \in Thread, Disown(t) \/ Deactivate(t) PROVE Goal
  <2>1. /\ Local(t) /\ op' = op /\ port' = port /\ ref_count' = ref_count
        /\ pc[t] \in {"disown", "deactivate"} /\ pc'[t] \in {"deactivate", "dealloc", "release"}
    BY <1>3, LocalStep DEF Step, Disown, Deactivate
  <2>2. \A s \in Sem : Creation(s)' = Creation(s) /\ Creation(s) \in Nat
    BY <2>1, CreationKept DEF Local, At
  <2> QED BY <1>2, <2>1, <2>2 DEF InDestroy
<1>4. ASSUME NEW t \in Thread, DeallocPort(t) PROVE Goal
  <2>1. /\ Local(t) /\ op' = op /\ ref_count' = ref_count /\ op[t].signal \in Sem
        /\ port' = [port EXCEPT ![op[t].signal] = FALSE]
        /\ pc[t] = "dealloc" /\ pc'[t] = "drop"
    BY <1>4, LocalStep DEF Step, DeallocPort, OpShape, InDestroy
  <2>2. ASSUME NEW s \in Sem PROVE Creation(s)' = Creation(s) /\ Creation(s) \in Nat
    <3>1. CASE s = op[t].signal
      <4>1. port[s]
        BY <2>1, <3>1 DEF Lifecycle, Life, At
      <4> QED BY <2>1, <3>1, <4>1 DEF Creation
    <3>2. CASE s # op[t].signal
      <4>1. \A u \in Thread : At(u, "drop", s)' <=> At(u, "drop", s)
        BY <2>1, <3>2 DEF Local, At
      <4> QED BY <2>1, <3>2, <4>1, CreationKept
    <3> QED BY <3>1, <3>2
  <2> QED BY <1>2, <2>1, <2>2 DEF InDestroy
<1>5. ASSUME NEW t \in Thread, DropCreation(t) PROVE Goal
  <2>1. /\ Local(t) /\ op' = op /\ port' = port /\ op[t].signal \in Sem
        /\ ref_count' = [ref_count EXCEPT ![op[t].signal] = @ - 1]
        /\ pc[t] = "drop" /\ pc'[t] = "release"
    BY <1>5, LocalStep DEF Step, DropCreation, OpShape, InDestroy, semVars
  <2>2. ASSUME NEW s \in Sem PROVE ref_count'[s] = ref_count[s] + (Creation(s)' - Creation(s))
    <3>1. CASE s = op[t].signal
      <4>1. ~port[s] /\ \A u \in Thread \ {t} : ~At(u, "drop", s)
        BY <2>1, <3>1 DEF Lifecycle, Life, At, Destroying
      <4>2. Creation(s) = 1 /\ Creation(s)' = 0
        BY <2>1, <3>1, <4>1 DEF Creation, At, Local
      <4> QED BY <2>1, <3>1, <4>2
    <3>2. CASE s # op[t].signal
      <4>1. \A u \in Thread : At(u, "drop", s)' <=> At(u, "drop", s)
        BY <2>1, <3>2 DEF Local, At
      <4> QED BY <2>1, <3>2, <4>1, CreationKept
    <3> QED BY <3>1, <3>2
  <2> QED BY <1>2, <2>1, <2>2 DEF InDestroy
<1>6. CASE UNCHANGED <<pc, op, port, ref_count>>
  <2>1. ASSUME NEW s \in Sem PROVE CountedAt(s)'
    <3>1. WaitHolders(s)' = WaitHolders(s) /\ SignalHolders(s)' = SignalHolders(s)
      BY <1>6 DEF WaitHolders, SignalHolders, HoldsWait, HoldsSignal
    <3>2. Creation(s)' = Creation(s)
      BY <1>6 DEF Creation
    <3>3. CountedAt(s)
      BY DEF Counted, CountedAt
    <3> QED BY <1>6, <3>1, <3>2, <3>3 DEF CountedAt
  <2> QED BY <1>6, <2>1
<1>7. ASSUME NEW s \in Sem, NEW v \in 0 .. MaxCount, Create(s, v) PROVE Goal
  <2>1. UNCHANGED <<pc, op>> /\ port' = [port EXCEPT ![s] = TRUE]
        /\ ref_count' = [ref_count EXCEPT ![s] = 1]
    BY <1>7 DEF Create
  <2>2. \A q \in Sem : WaitHolders(q)' = WaitHolders(q) /\ SignalHolders(q)' = SignalHolders(q)
    BY <2>1 DEF WaitHolders, SignalHolders, HoldsWait, HoldsSignal
  <2>3. CountedAt(s)' /\ ref_count'[s] \in Nat
    <3>1. WaitHolders(s) = {} /\ SignalHolders(s) = {}
      BY <1>7, Unreferenced DEF Create
    <3>2. Cardinality({}) = 0
      BY FS_EmptySet
    <3>3. Creation(s)' = 1
      BY <2>1 DEF Creation
    <3>4. Cardinality(WaitHolders(s)') = 0 /\ Cardinality(SignalHolders(s)') = 0
      BY <2>2, <3>1, <3>2
    <3>5. ref_count'[s] = 1
      BY <2>1
    <3> QED BY <3>3, <3>4, <3>5 DEF CountedAt
  <2>4. ASSUME NEW q \in Sem, q # s PROVE CountedAt(q)' /\ ref_count'[q] \in Nat
    <3>1. Creation(q)' = Creation(q)
      BY <2>1, <2>4, CreationKept DEF At
    <3>2. CountedAt(q)
      BY DEF Counted, CountedAt
    <3> QED BY <2>1, <2>2, <2>4, <3>1, <3>2 DEF CountedAt
  <2> QED BY <2>1, <2>3, <2>4
<1>8. ASSUME NEW t \in Thread, Timeout(t) \/ SpecialHandler(t)
      PROVE  UNCHANGED <<pc, op, port, ref_count>>
  BY <1>8 DEF Timeout, SpecialHandler, others, semVars
<1>9. ASSUME NEW k \in Aborter, NEW t \in Thread, Abort(k, t) \/ AbortSafely(k, t)
      PROVE  UNCHANGED <<pc, op, port, ref_count>>
  BY <1>9 DEF Abort, AbortSafely, others, semVars
<1>10. ASSUME NEW k \in Clearer, FinishClear(k) PROVE UNCHANGED <<pc, op, port, ref_count>>
  BY <1>10 DEF FinishClear, others, semVars
<1> HIDE DEF Goal
<1> QED
  BY <1>1, <1>3, <1>4, <1>5, <1>6, <1>7, <1>8, <1>9, <1>10
  DEF Next, Step, Bystander, vars, semVars

-----------------------------------------------------------------------------
(* The invariant                                                           *)

\* It holds when every semaphore has just been created.
LEMMA SemInit == Init => SemInv
<1> SUFFICES ASSUME Init PROVE SemInv
  OBVIOUS
<1> USE SemaphoreAssumption DEF Init
<1>1. WQInv
  BY WQInitInv
<1>2. NoOp \in OpRecord
  BY DEF NoOp, OpRecord
<1>3. TypeOK
  BY <1>1, <1>2 DEF TypeOK, WQInv, Label, Return
<1>4. OpShape
  BY DEF OpShape, InWait, InDestroy
<1>5. WaitShape /\ TimerShape
  BY DEF WQInit, WaitShape, TimerShape, Clearer
<1>6. WaitersSeen
  BY WaitQueueAssumption DEF WQInit, WaitersSeen, Members, Sem
<1>7. Lifecycle
  BY DEF Lifecycle, Life, At, Destroying
<1>8. ASSUME NEW s \in Sem PROVE CountedAt(s)
  <2>1. WaitHolders(s) = {} /\ SignalHolders(s) = {}
    BY DEF WaitHolders, SignalHolders, HoldsWait, HoldsSignal
  <2>2. Creation(s) = 1 /\ ref_count[s] = 1
    BY DEF Creation
  <2>3. Cardinality({}) = 0
    BY FS_EmptySet
  <2> QED BY <2>1, <2>2, <2>3 DEF CountedAt
<1> QED BY <1>1, <1>3, <1>4, <1>5, <1>6, <1>7, <1>8 DEF SemInv, WQInv, Counted, CountedAt

\* Every action preserves it.
LEMMA SemInvStep == SemInv /\ [Next]_vars => SemInv'
<1> SUFFICES ASSUME SemInv, [Next]_vars PROVE SemInv'
  OBVIOUS
<1>1. TypeOK' /\ WaitingIffQueued' /\ QueueOrder' /\ OpShape'
  BY QueuesStep, FieldsStep, CountedStep DEF TypeOK, WQInv, FieldType
<1> QED
  BY <1>1, WaitShapeStep, TimerShapeStep, WaitersSeenStep, LifecycleStep, CountedStep DEF SemInv

\* The inductive invariant of the semaphores
THEOREM SemaphoreInvariant == Spec => []SemInv
BY SemInit, SemInvStep, PTL DEF Spec

\* Whatever operations, aborts and time-outs interleave, ref_count is the
\* creation reference plus those of the operations in progress, and of racing
\* destroyers one gets past the owner check and finds the semaphore active.
THEOREM ReferencesExact == Spec => []ReferencesCounted
<1>1. SemInv => ReferencesCounted
  <2> SUFFICES ASSUME SemInv PROVE ReferencesCounted
    OBVIOUS
  <2>1. DestroyedOnce
    <3> SUFFICES ASSUME NEW t \in Thread, pc[t] = "deactivate"
                 PROVE  /\ active[op[t].signal]
                        /\ \A u \in Thread \ {t} : op[u].signal = op[t].signal =>
                                                     pc[u] \notin Destroying
      BY DEF DestroyedOnce, Destroying
    <3>1. Life(op[t].signal) /\ At(t, "deactivate", op[t].signal)
      BY DEF SemInv, OpShape, InDestroy, Lifecycle, At
    <3> QED BY <3>1 DEF Life, At, Destroying
  <2>2. \A s \in Sem : ref_count[s] = Creation(s)
                         + Cardinality({t \in Thread : HoldsWait(t, s)})
                         + Cardinality({t \in Thread : HoldsSignal(t, s)})
    BY DEF SemInv, Counted, WaitHolders, SignalHolders
  <2> QED BY <2>1, <2>2 DEF SemInv, ReferencesCounted
<1> QED BY <1>1, SemaphoreInvariant, PTL

\* A semaphore whose last reference has been dropped is on no thread's mind:
\* its queue is empty, it has no port, and no expired timer is about to take
\* its queue lock.
THEOREM FreedUnused == Spec => []FreedIsUnused
<1>1. SemInv => FreedIsUnused
  <2> SUFFICES ASSUME SemInv, NEW s \in Sem, ref_count[s] = 0
               PROVE  /\ Members(s) = {} /\ ~port[s] /\ ~active[s]
                      /\ \A t \in Thread : removing[t] # Idle => removing[t].wq # s
    BY DEF FreedIsUnused
  <2>1. \A t \in Thread : removing[t] # Idle => removing[t].wq # s
    BY Unreferenced DEF SemInv, TimerShape, WaitHolders, HoldsWait
  <2> QED BY <2>1, Unreferenced
<1> QED BY <1>1, SemaphoreInvariant, PTL

\* While anybody waits on a semaphore it is active and its count is -1.
THEOREM WaitersAnnounced == Spec => []WaitersSeen
<1>1. SemInv => WaitersSeen
  BY DEF SemInv
<1> QED BY <1>1, SemaphoreInvariant, PTL

-----------------------------------------------------------------------------
(* Results                                                                 *)

\* Apart from the steps that take a stored post or end an operation, a post is
\* consumed exactly where a wait ends with THREAD_AWAKENED, and only the wait
\* of a timed operation times out.
Woken(u) == waiting[u] /\ ~waiting'[u] /\ wait_result'[u] = "AWAKENED"

\* thread_go_locked of one thread ends no other thread's wait.
LEMMA GoneUnqueued ==
  ASSUME SemInv, NEW t \in Thread, NEW r, GoLocked({t}, r)
  PROVE  \A u \in Thread : waiting[u] /\ ~waiting'[u] => u = t /\ wait_result'[u] = r
BY DEF GoLocked

\* Only wake-ups with THREAD_AWAKENED hand out posts.
LEMMA EndsGranted ==
  ASSUME SemInv, [Next]_vars,
         \A t \in Thread : ~WaitAssert(t) /\ ~WaitTake(t) /\ ~Release(t)
  PROVE  \A u \in Thread :
           /\ token'[u] = (token[u] \/ Woken(u))
           /\ waiting[u] /\ ~waiting'[u] /\ wait_result'[u] = "TIMED_OUT"
                => op[u].name = "timedwait"
<1> DEFINE Goal == \A u \in Thread :
             /\ token'[u] = (token[u] \/ Woken(u))
             /\ waiting[u] /\ ~waiting'[u] /\ wait_result'[u] = "TIMED_OUT"
                  => op[u].name = "timedwait"
<1> SUFFICES Goal
  OBVIOUS
<1>0. token \in [Thread -> BOOLEAN]
  BY DEF SemInv, TypeOK
<1>1. ASSUME UNCHANGED <<waitVars, token>> PROVE Goal
  BY <1>0, <1>1 DEF waitVars, Woken
<1>2. ASSUME GrantWoken,
             \A u \in Thread : waiting[u] /\ ~waiting'[u] /\ wait_result'[u] = "TIMED_OUT"
                                 => op[u].name = "timedwait"
      PROVE  Goal
  BY <1>2 DEF GrantWoken, Woken
<1>3. ASSUME NEW S \in SUBSET Thread, GoLocked(S, "AWAKENED"), GrantWoken PROVE Goal
  BY <1>2, <1>3 DEF GoLocked
<1>4. ASSUME NEW t \in Thread, Quiet(t) PROVE Goal
  <2>1. UNCHANGED waitVars
    BY <1>4, QuietUnchanged DEF wqVars
  <2>2. UNCHANGED token
    BY <1>4 DEF Quiet, Start, StartWait, StartWaitSignal, StartSignal, StartDestroy, LookupWait,
         WaitDead, WaitPoll, Arm, Wake, Disown, DeallocPort, DropCreation
  <2> QED BY <1>1, <2>1, <2>2
<1>5. ASSUME NEW t \in Thread, SignalSecond(t) PROVE Goal
  <2>1. op[t].signal \in Sem
    BY <1>5 DEF SignalSecond, SemInv, OpShape
  <2>2. PICK v \in Return : SignalOne(op[t].signal, TRUE, v)
    BY <1>5 DEF SignalSecond
  <2> QED BY <1>1, <1>3, <2>2 DEF SignalOne, WakeupOneLocked
<1>6. ASSUME NEW t \in Thread, SignalSecondDead(t) PROVE Goal
  BY <1>2, <1>6, ClearedResult, GoneUnqueued DEF SignalSecondDead
<1>7. ASSUME NEW t \in Thread, Block(t) PROVE Goal
  <2>1. token' = token
    BY <1>7 DEF Block
  <2>2. CASE ClearSelf(t, "INTERRUPTED")
    BY <1>0, <2>1, <2>2, ClearedResult, GoneUnqueued DEF Woken
  <2> QED BY <1>1, <1>7, <2>1, <2>2 DEF Block
<1>8. ASSUME NEW t \in Thread, Signal(t) PROVE Goal
  <2> DEFINE s == op[t].signal
  <2>1. PICK v \in Return :
          \/ SignalDead(s, v)
          \/ SignalOne(s, TRUE, v) \/ SignalOne(s, FALSE, v)
          \/ SignalAll(s, v)
          \/ \E target \in Thread : SignalThread(s, target, v)
    BY <1>8 DEF Signal
  <2>2. CASE SignalDead(s, v)
    BY <1>1, <2>2 DEF SignalDead
  <2>3. CASE SignalOne(s, TRUE, v) \/ SignalOne(s, FALSE, v)
    BY <1>1, <1>3, <2>3 DEF SignalOne, WakeupOneLocked
  <2>4. CASE SignalAll(s, v)
    BY <1>1, <1>3, <2>4 DEF SignalAll, WakeupAllLocked, Waiters, Members
  <2>5. CASE \E target \in Thread : SignalThread(s, target, v)
    BY <1>1, <1>3, <2>5 DEF SignalThread, WakeupThreadLocked
  <2> QED BY <2>1, <2>2, <2>3, <2>4, <2>5
<1>9. ASSUME NEW t \in Thread, Deactivate(t) PROVE Goal
  <2>1. token' = token
    BY <1>9 DEF Deactivate
  <2>2. CASE WakeupAllLocked(op[t].signal, SEMAPHORE_EVENT, "RESTART")
    BY <1>0, <2>1, <2>2 DEF WakeupAllLocked, GoLocked, Woken
  <2> QED BY <1>1, <1>9, <2>1, <2>2 DEF Deactivate
<1>10. ASSUME NEW k \in Clearer, NEW t \in Thread, NEW r, ClearWaitStart(k, t, r)
       PROVE  \A u \in Thread : ~(waiting[u] /\ ~waiting'[u])
  BY <1>10 DEF ClearWaitStart, GoLocked, SemInv, WaitingIffQueued, waitVars
<1>11. ASSUME NEW t \in Thread, Timeout(t) PROVE Goal
  <2>1. token' = token /\ ClearWaitStart(t, t, "TIMED_OUT") /\ t \in Clearer
    BY <1>11 DEF Timeout, Clearer
  <2> QED BY <1>0, <1>10, <2>1 DEF Woken
<1>12. ASSUME NEW t \in Thread, SpecialHandler(t) PROVE Goal
  BY <1>1, <1>12 DEF SpecialHandler
<1>13. ASSUME NEW k \in Aborter, NEW t \in Thread, Abort(k, t) \/ AbortSafely(k, t) PROVE Goal
  <2>1. GrantWoken /\ ClearWaitStart(k, t, "INTERRUPTED") /\ k \in Clearer
    BY <1>13 DEF Abort, AbortSafely, ThreadAbort, ThreadAbortSafely, Clearer
  <2> QED BY <1>2, <1>10, <2>1
<1>14. ASSUME NEW k \in Clearer, FinishClear(k) PROVE Goal
  <2>1. GrantWoken /\ removing[k] # Idle
    BY <1>14 DEF FinishClear, ClearWaitFinish
  <2>2. removing[k] \in Removal
    BY <2>1 DEF SemInv, TypeOK, WQTypeOK
  <2>3. CASE GoLocked({removing[k].thread}, removing[k].result)
    <3>1. \/ removing[k].result = "INTERRUPTED"
          \/ removing[k].thread \in Thread /\ op[removing[k].thread].name = "timedwait"
      BY <2>1 DEF SemInv, TimerShape, Clearer
    <3>2. removing[k].thread \in Thread
      BY <2>2 DEF Removal
    <3> QED BY <1>2, <2>1, <2>3, <3>1, <3>2, GoneUnqueued
  <2>4. CASE UNCHANGED waitVars
    BY <1>2, <2>1, <2>4 DEF waitVars
  <2> QED BY <1>14, <2>3, <2>4 DEF FinishClear, ClearWaitFinish
<1>15. ASSUME NEW s \in Sem, NEW v \in 0 .. MaxCount, Create(s, v) PROVE Goal
  BY <1>1, <1>15 DEF Create, wqVars
<1>16. ASSUME UNCHANGED vars PROVE Goal
  BY <1>1, <1>16 DEF vars, wqVars
<1> HIDE DEF Goal
<1> QED
  BY <1>4, <1>5, <1>6, <1>7, <1>8, <1>9, <1>11, <1>12, <1>13, <1>14, <1>15, <1>16
  DEF Next, Step, Wait, Quiet

\* How a step brings an operation to its end, and with which result
Ends(t) ==
  \/ op[t].name \notin WaitOp /\ kr'[t] # "TIMED_OUT"
  \/ WaitTake(t) /\ kr'[t] = "SUCCESS"
  \/ pc[t] = "wait" /\ ~WaitTake(t) /\ kr'[t] = "TERMINATED"
  \/ pc[t] = "wait" /\ ~WaitTake(t) /\ kr'[t] = "TIMED_OUT" /\ op[t].name = "poll"
  \/ pc[t] = "blocked" /\ ~waiting[t] /\ kr'[t] = Convert(wait_result[t])

\* How a step that does not release the operation moves a thread on
Advances(t) ==
  \/ pc[t] = "user" /\ pc'[t] \in {"wait", "signal", "disown"}
  \/ /\ op' = op /\ pc'[t] # "wait"
     /\ pc'[t] = "arm" => WaitAssert(t)
     /\ pc'[t] = "block" => pc[t] = "arm"
     /\ pc'[t] = "blocked" => pc[t] = "block"
     /\ pc'[t] = "release" => Ends(t)

\* Without wait_signal there is no second lookup and no second signal.
LEMMA ReturnStep ==
  ASSUME SemInv, NEW t \in Thread, ResultOk(t), Start(t) \/ Step(t), ~Release(t),
         "wait_signal" \notin Ops
  PROVE  /\ pc'[t] \notin {"signal2", "lookup", "user"}
         /\ op'[t].signal = NoSem \/ op'[t].name \notin WaitOp
         /\ Advances(t)
<1> USE DEF SemInv, TypeOK, Goto, SetKr, ResultOk, Advances, Ends
<1>1. CASE Start(t)
  BY <1>1 DEF Start, StartWait, StartWaitSignal, StartSignal, StartDestroy, WaitOp, SignalOp
<1>2. CASE WaitDead(t)
  <2>1. op[t].signal = NoSem
    BY <1>2 DEF WaitDead, OpShape, InWait
  <2>2. /\ op' = op /\ pc[t] = "wait" /\ pc'[t] = "release"
        /\ kr'[t] = "TERMINATED" /\ ~WaitTake(t)
    BY <1>2, <2>1 DEF WaitDead, WaitTake, AfterWait
  <2> QED BY <2>1, <2>2
<1>3. CASE WaitTake(t)
  BY <1>3 DEF WaitTake, AfterWait, OpShape, InWait
<1>4. CASE WaitPoll(t)
  BY <1>4 DEF WaitPoll, WaitTake, AfterWait, OpShape, InWait
<1>5. CASE WaitAssert(t)
  BY <1>5 DEF WaitAssert, AfterWait, OpShape, InWait
<1>6. CASE Arm(t) \/ Block(t)
  BY <1>6 DEF Arm, Block
<1>7. CASE Wake(t)
  BY <1>7 DEF Wake
<1>8. CASE Signal(t)
  <2>1. op' = op /\ pc[t] = "signal" /\ pc'[t] = "release" /\ op[t].name \in SignalOp
    BY <1>8 DEF Signal, OpShape
  <2>2. kr'[t] # "TIMED_OUT"
    BY <1>8 DEF Signal, SignalDead, SignalOne, SignalAll, SignalThread
  <2> QED BY <2>1, <2>2 DEF WaitOp, SignalOp
<1>9. CASE Disown(t) \/ Deactivate(t) \/ DeallocPort(t) \/ DropCreation(t)
  <2>1. op[t].name = "destroy" /\ op' = op
    BY <1>9 DEF Disown, Deactivate, DeallocPort, DropCreation, OpShape, InDestroy
  <2>2. /\ pc'[t] \in {"deactivate", "dealloc", "drop", "release"}
        /\ pc'[t] = "release" => kr'[t] \in {"INVALID", "SUCCESS"}
    BY <1>9 DEF Disown, Deactivate, DeallocPort, DropCreation
  <2> QED BY <2>1, <2>2 DEF WaitOp
<1>10. ~LookupWait(t) /\ ~SignalSecond(t) /\ ~SignalSecondDead(t)
  BY DEF LookupWait, SignalSecond, SignalSecondDead
<1> QED
  BY <1>1, <1>2, <1>3, <1>4, <1>5, <1>6, <1>7, <1>8, <1>9, <1>10 DEF Step, Wait

\* Every action keeps result and post together, if there is no wait_signal.
LEMMA ResultStep ==
  ASSUME ResultInv, [Next]_vars, "wait_signal" \notin Ops
  PROVE  \A u \in Thread : ResultOk(u)'
<1> USE DEF ResultInv
<1>1. /\ token \in [Thread -> BOOLEAN] /\ kr \in [Thread -> Return]
      /\ pc \in [Thread -> Label] /\ op \in [Thread -> OpRecord]
      /\ wait_result \in [Thread -> Result] /\ waiting \in [Thread -> BOOLEAN]
  BY DEF SemInv, TypeOK, WQTypeOK
<1>2. \A u \in Thread : /\ waiting[u] => pc[u] \in {"arm", "block", "blocked"}
                        /\ wait_result[u] = "NONE" => waiting[u]
  BY DEF SemInv, WaitShape, AfterAssert, ResultOk
<1>3. ASSUME NEW t \in Thread, Release(t) PROVE \A u \in Thread : ResultOk(u)'
  <2>1. /\ Local(t) /\ pc[t] = "release" /\ pc'[t] = "user" /\ UNCHANGED <<waiting, wait_result>>
        /\ token' = [token EXCEPT ![t] = FALSE]
    BY <1>1, <1>3, LocalStep DEF Release, Step, Goto, waitVars
  <2>2. ResultOk(t)'
    BY <1>1, <1>2, <2>1 DEF ResultOk, Granted
  <2>3. \A u \in Thread \ {t} : ResultOk(u)'
    BY <1>1, <2>1 DEF Local, ResultOk, Granted
  <2> QED BY <2>2, <2>3
<1>4. ASSUME NEW t \in Thread, WaitTake(t) PROVE \A u \in Thread : ResultOk(u)'
  <2>1. /\ Local(t) /\ pc[t] = "wait" /\ UNCHANGED <<waiting, wait_result, op>>
        /\ token' = [token EXCEPT ![t] = TRUE] /\ kr'[t] = "SUCCESS"
        /\ pc'[t] = "release"
    BY <1>1, <1>4, LocalStep DEF WaitTake, Step, Wait, Goto, wqVars, waitVars, AfterWait, SetKr,
         ResultOk, SemInv, OpShape, InWait
  <2>2. ResultOk(t)'
    BY <1>1, <1>2, <2>1 DEF ResultOk, Granted
  <2>3. \A u \in Thread \ {t} : ResultOk(u)'
    BY <1>1, <2>1 DEF Local, ResultOk, Granted
  <2> QED BY <2>2, <2>3
<1>5. ASSUME NEW t \in Thread, WaitAssert(t) PROVE \A u \in Thread : ResultOk(u)'
  <2>1. /\ Local(t) /\ pc[t] = "wait" /\ pc'[t] = "arm" /\ op' = op /\ token' = token
        /\ waiting' = [waiting EXCEPT ![t] = TRUE]
        /\ wait_result' = [wait_result EXCEPT ![t] = "NONE"]
    BY <1>1, <1>5, LocalStep DEF WaitAssert, AssertWaitLocked, Step, Wait, Goto, AfterWait, SetKr,
         ResultOk, SemInv, OpShape, InWait
  <2>2. ResultOk(t)'
    BY <1>1, <1>2, <2>1 DEF ResultOk, Granted
  <2>3. \A u \in Thread \ {t} : ResultOk(u)'
    BY <1>1, <2>1 DEF Local, ResultOk, Granted
  <2> QED BY <2>2, <2>3
<1>6. CASE \A t \in Thread : ~WaitAssert(t) /\ ~WaitTake(t) /\ ~Release(t)
  <2>1. \A u \in Thread : ResultOk(u)
    OBVIOUS
  <2>2. \A u \in Thread :
          /\ token'[u] = (token[u] \/ Woken(u))
          /\ waiting[u] /\ ~waiting'[u] /\ wait_result'[u] = "TIMED_OUT" => op[u].name = "timedwait"
          /\ waiting'[u] => waiting[u]
          /\ waiting'[u] = waiting[u] => wait_result'[u] = wait_result[u]
    BY <1>6, EndsGranted, QueuesStep DEF OnlyEnds
  <2>3. \A u \in Thread : waiting'[u] \in BOOLEAN
    BY QueuesStep DEF WQInv, WQTypeOK
  <2>4. ASSUME NEW u \in Thread, pc'[u] = pc[u], op'[u] = op[u], kr'[u] = kr[u] PROVE ResultOk(u)'
    BY <1>1, <1>2, <2>1, <2>2, <2>3, <2>4 DEF Woken, Granted, ResultOk
  <2>5. ASSUME NEW t \in Thread, Start(t) \/ Step(t) PROVE ResultOk(t)'
    <3>1. /\ pc'[t] \notin {"signal2", "lookup", "user"}
          /\ op'[t].signal = NoSem \/ op'[t].name \notin WaitOp
          /\ Advances(t)
      BY <1>6, <2>5, ReturnStep
    <3>2. CASE pc'[t] \in {"wait", "signal", "disown"} /\ pc[t] = "user"
      BY <1>1, <1>2, <2>1, <2>2, <3>1, <3>2 DEF Woken, Granted, ResultOk
    <3>3. CASE op' = op /\ pc'[t] \in {"block", "blocked"} /\ pc[t] \in {"arm", "block"}
      BY <1>1, <1>2, <2>1, <2>2, <2>3, <3>1, <3>3 DEF Woken, Granted, ResultOk
    <3>4. CASE /\ op' = op /\ pc'[t] = "release" /\ pc[t] = "wait"
               /\ \/ kr'[t] = "TERMINATED"
                  \/ kr'[t] = "TIMED_OUT" /\ op[t].name = "poll"
      BY <1>1, <1>2, <2>1, <2>2, <3>1, <3>4 DEF Woken, Granted, ResultOk
    <3>5. CASE /\ op' = op /\ pc'[t] = "release" /\ pc[t] = "blocked" /\ ~waiting[t]
               /\ kr'[t] = Convert(wait_result[t])
      <4>1. /\ kr'[t] = "SUCCESS" <=> wait_result[t] = "AWAKENED"
            /\ kr'[t] = "TIMED_OUT" <=> wait_result[t] = "TIMED_OUT"
        BY <1>1, <1>2, <3>5 DEF Convert, Result
      <4> QED BY <1>1, <1>2, <2>1, <2>2, <3>1, <3>5, <4>1 DEF Woken, Granted, ResultOk
    <3>6. CASE op' = op /\ pc'[t] = "release" /\ op[t].name \notin WaitOp /\ kr'[t] # "TIMED_OUT"
      BY <1>1, <1>2, <2>1, <2>2, <3>1, <3>6 DEF Woken, Granted, ResultOk, SemInv, OpShape, InWait
    <3>7. CASE /\ op' = op
               /\ pc'[t] \notin {"user", "wait", "arm", "block", "blocked", "release"}
      <4>1. ~waiting'[t]
        <5>1. WaitShape'
          BY WaitShapeStep
        <5> QED BY <3>1, <3>7, <5>1 DEF WaitShape, AfterAssert
      <4> QED BY <2>1, <3>1, <3>7, <4>1 DEF ResultOk
    <3> QED BY <1>6, <3>1, <3>2, <3>3, <3>4, <3>5, <3>6, <3>7 DEF Advances, Ends
  <2>6. \A u \in Thread : ResultOk(u)'
    <3>1. CASE UNCHANGED <<pc, op, kr>>
      BY <2>4, <3>1
    <3>2. ASSUME NEW t \in Thread, Start(t) \/ Step(t) PROVE \A u \in Thread : ResultOk(u)'
      BY <2>4, <2>5, <3>2, LocalStep DEF Local
    <3> QED BY <3>1, <3>2, OtherSteps
  <2> QED BY <2>6
<1> QED BY <1>3, <1>4, <1>5, <1>6

\* The results of all waits are right, semaphore_wait_signal excluded, for which
\* SignalSecondDead converts a result that no wait of the call has set.
THEOREM ResultsRight ==
  ASSUME "wait_signal" \notin Ops PROVE Spec => []ResultInv
<1>1. Init => ResultInv
  <2> SUFFICES ASSUME Init PROVE \A t \in Thread : ResultOk(t)
    BY SemInit DEF ResultInv
  <2> QED BY DEF Init, WQInit, ResultOk, NoOp
<1>2. ResultInv /\ [Next]_vars => ResultInv'
  <2> SUFFICES ASSUME ResultInv, [Next]_vars PROVE ResultInv'
    OBVIOUS
  <2> QED BY SemInvStep, ResultStep DEF ResultInv
<1> QED BY <1>1, <1>2, PTL DEF Spec

\* Whatever abort, time-out or destruction races with it, a wait returns
\* KERN_SUCCESS exactly if it consumed a post.
THEOREM SuccessMeansGrant ==
  ASSUME "wait_signal" \notin Ops PROVE Spec => []SuccessIffGranted
<1>1. ResultInv => SuccessIffGranted
  BY DEF ResultInv, SemInv, ResultOk, SuccessIffGranted
<1> QED BY <1>1, ResultsRight, PTL

\* KERN_OPERATION_TIMED_OUT is returned by timed calls only: an expiration that
\* was decided for one wait does not end the thread's next one.
THEOREM TimeoutMeansTimed ==
  ASSUME "wait_signal" \notin Ops PROVE Spec => []TimedOutOnlyIfTimed
<1>1. ResultInv => TimedOutOnlyIfTimed
  BY DEF ResultInv, SemInv, TimerShape, ResultOk, TimedOutOnlyIfTimed
<1> QED BY <1>1, ResultsRight, PTL

-----------------------------------------------------------------------------
(* The refinement of SemaphoreContract                                     *)

\* The contract's variables
Value == [s \in Sem |-> IF count[s] > 0 THEN count[s] ELSE 0]
Queue == [s \in Sem |-> Members(s)]
Alive == {s \in Sem : active[s]}
Holding == {t \in Thread : token[t]}
Same == UNCHANGED <<Value, Queue, Alive, Holding>>

\* A thread pulled off its queue is one waiter less, ...
LEMMA PullOne ==
  ASSUME SemInv, NEW t \in Thread, NEW r, GoLocked({t}, r)
  PROVE  /\ \A s \in Sem : t \in Members(s) => Queue' = [Queue EXCEPT ![s] = @ \ {t}]
         /\ wait_queue[t] = NoQueue => Queue' = Queue
         /\ \A s \in Sem : t \in Members(s) => waiting[t] /\ ~waiting'[t]
<1>1. \A s \in Sem : s # NoQueue
  BY WaitQueueAssumption DEF Sem
<1>2. \A u \in Thread : wait_queue'[u] = IF u = t THEN NoQueue ELSE wait_queue[u]
  BY DEF GoLocked
<1>3. \A s \in Sem : Members(s)' = Members(s) \ {t}
  BY <1>1, <1>2 DEF Members
<1>4. ASSUME NEW s \in Sem, t \in Members(s) PROVE Queue' = [Queue EXCEPT ![s] = @ \ {t}]
  <2>1. \A q \in Sem \ {s} : t \notin Members(q)
    BY <1>4 DEF Members
  <2> QED BY <1>3, <2>1 DEF Queue
<1>5. ASSUME wait_queue[t] = NoQueue PROVE Queue' = Queue
  BY <1>1, <1>3, <1>5 DEF Queue, Members
<1>6. \A s \in Sem : t \in Members(s) => waiting[t] /\ ~waiting'[t]
  BY <1>1 DEF GoLocked, Members, SemInv, WaitingIffQueued
<1> QED BY <1>4, <1>5, <1>6

\* ... and a wake-up of all empties one queue.
LEMMA PullAll ==
  ASSUME SemInv, NEW s \in Sem, NEW r, WakeupAllLocked(s, SEMAPHORE_EVENT, r)
  PROVE  /\ Queue' = [Queue EXCEPT ![s] = {}]
         /\ \A u \in Thread : waiting[u] /\ ~waiting'[u] <=> u \in Members(s)
         /\ \A u \in Members(s) : wait_result'[u] = r
<1>1. GoLocked(Members(s), r) /\ s # NoQueue
  BY MembersWait, WaitQueueAssumption DEF WakeupAllLocked, Sem
<1>2. \A q \in Sem : q # NoQueue
  BY WaitQueueAssumption DEF Sem
<1>3. \A q \in Sem : Members(q)' = IF q = s THEN {} ELSE Members(q)
  BY <1>1, <1>2 DEF GoLocked, Members
<1>4. \A u \in Thread : u \in Members(s) => waiting[u]
  BY <1>1 DEF Members, SemInv, WaitingIffQueued
<1>5. /\ \A u \in Thread : waiting[u] /\ ~waiting'[u] <=> u \in Members(s)
      /\ \A u \in Members(s) : wait_result'[u] = r
  BY <1>1, <1>4 DEF GoLocked, Members
<1> QED BY <1>3, <1>5 DEF Queue

\* The lock section of a signal hands the post to a waiter, stores it or, if it
\* is not to be stored, does nothing visible.
LEMMA SignalOneContract ==
  ASSUME SemInv, NEW s \in Sem, NEW prepost \in BOOLEAN, NEW v \in Return,
         SignalOne(s, prepost, v), active' = active
  PROVE  /\ prepost => v = "SUCCESS"
         /\ \/ Contract!GrantOne(s)
            \/ prepost /\ Contract!Store(s)
            \/ ~prepost /\ Same
<1> USE DEF SemInv, TypeOK
<1>1. Alive' = Alive
  BY DEF Alive
<1>2. ASSUME NEW u \in Thread, WakeupOneLocked(s, SEMAPHORE_EVENT, u, "AWAKENED"), GrantWoken,
             count' = count
      PROVE  Contract!GrantOne(s)
  <2>1. u \in Members(s) /\ GoLocked({u}, "AWAKENED")
    BY <1>2 DEF WakeupOneLocked, SelectOne, Waiters
  <2>2. Queue' = [Queue EXCEPT ![s] = @ \ {u}] /\ waiting[u] /\ ~waiting'[u]
    BY <2>1, PullOne
  <2>3. \A w \in Thread : waiting[w] /\ ~waiting'[w] => w = u
    BY <2>1, GoneUnqueued
  <2>4. wait_result'[u] = "AWAKENED"
    BY <2>1, <2>2 DEF GoLocked
  <2>5. Holding' = Holding \union {u}
    BY <1>2, <2>2, <2>3, <2>4 DEF Holding, GrantWoken
  <2>6. Value' = Value
    BY <1>2 DEF Value
  <2>7. u \in Queue[s]
    BY <2>1 DEF Queue
  <2> QED BY <1>1, <2>2, <2>5, <2>6, <2>7
          DEF Contract!GrantOne, Contract!Grant, Queue, Value, Alive, Holding
<1>3. ASSUME ~(count[s] < 0 /\ Waiters(s, SEMAPHORE_EVENT) # {}),
             count' = [count EXCEPT ![s] = (IF @ < 0 THEN 0 ELSE @) + (IF prepost THEN 1 ELSE 0)],
             UNCHANGED <<waitVars, token>>
      PROVE  \/ prepost /\ Contract!Store(s)
             \/ ~prepost /\ Same
  <2>1. Queue' = Queue /\ Holding' = Holding
    BY <1>3 DEF Queue, Members, Holding, waitVars
  <2>2. Members(s) = {}
    BY <1>3, MembersWait DEF WaitersSeen
  <2>3. /\ \A q \in Sem : q # s => Value'[q] = Value[q]
        /\ Value'[s] = Value[s] + (IF prepost THEN 1 ELSE 0)
        /\ Value[s] \in Nat
        /\ Value = [q \in Sem |-> Value[q]] /\ Value' = [q \in Sem |-> Value'[q]]
    <3>1. \A q \in Sem : count[q] \in Int
      OBVIOUS
    <3>2. \A q \in Sem : q # s => Value'[q] = Value[q]
      BY <1>3 DEF Value
    <3>3. Value'[s] = Value[s] + (IF prepost THEN 1 ELSE 0) /\ Value[s] \in Nat
      BY <1>3, <3>1 DEF Value
    <3>4. Value = [q \in Sem |-> Value[q]] /\ Value' = [q \in Sem |-> Value'[q]]
      BY DEF Value
    <3> QED BY <3>2, <3>3, <3>4
  <2>4. CASE prepost
    <3>1. s \in Alive /\ Queue[s] = {}
      BY <2>2 DEF SignalOne, Alive, Queue
    <3>2. Value' = [Value EXCEPT ![s] = @ + 1]
      BY <2>3, <2>4
    <3>3. Contract!Store(s)
      BY <1>1, <2>1, <3>1, <3>2, SMTT(30) DEF Contract!Store, Queue, Value, Alive, Holding
    <3> QED BY <2>4, <3>3
  <2>5. CASE ~prepost
    <3>1. \A q \in Sem : Value'[q] = Value[q]
      BY <2>3, <2>5
    <3>2. Value' = Value
      BY <2>3, <3>1
    <3> QED BY <1>1, <2>1, <2>5, <3>2 DEF Same
  <2> QED BY <2>4, <2>5
<1> QED BY <1>2, <1>3 DEF SignalOne

\* A thread that stops waiting without THREAD_AWAKENED cancels its wait.
LEMMA CancelContract ==
  ASSUME SemInv, NEW t \in Thread, NEW r, r # "AWAKENED", GoLocked({t}, r),
         UNCHANGED <<count, active>>, GrantWoken \/ token' = token
  PROVE  Same \/ \E s \in Sem : Contract!Cancel(t, s)
<1> USE DEF SemInv, TypeOK
<1>1. Value' = Value /\ Alive' = Alive
  BY DEF Value, Alive
<1>2. \A u \in Thread : ~Woken(u)
  BY GoneUnqueued DEF Woken
<1>3. Holding' = Holding
  BY <1>2 DEF Holding, GrantWoken, Woken
<1>4. CASE wait_queue[t] = NoQueue
  BY <1>1, <1>3, <1>4, PullOne DEF Same
<1>5. CASE wait_queue[t] # NoQueue
  <2>1. wait_queue[t] \in Sem /\ t \in Members(wait_queue[t])
    BY <1>5 DEF WQTypeOK, Sem, Members
  <2>2. PICK s \in Sem : t \in Members(s)
    BY <2>1
  <2>3. Queue' = [Queue EXCEPT ![s] = @ \ {t}] /\ t \in Queue[s]
    BY <2>2, PullOne DEF Queue
  <2>4. Contract!Cancel(t, s)
    BY <1>1, <1>3, <2>3 DEF Contract!Cancel, Queue, Value, Alive, Holding
  <2> QED BY <2>4
<1> QED BY <1>4, <1>5

\* A wait takes a stored post, ...
LEMMA TakeContract ==
  ASSUME SemInv, NEW t \in Thread, WaitTake(t)
  PROVE  \E s \in Sem : Contract!Take(t, s)
<1> USE DEF SemInv, TypeOK
<1>1. PICK s \in Sem : s = op[t].wait
  BY DEF WaitTake, OpShape, InWait
<1>2. /\ count[s] > 0 /\ count' = [count EXCEPT ![s] = @ - 1]
      /\ token' = [token EXCEPT ![t] = TRUE]
      /\ UNCHANGED <<active, wait_queue>>
  BY <1>1 DEF WaitTake, wqVars, waitVars
<1>3. Alive' = Alive /\ Queue' = Queue
  BY <1>2 DEF Alive, Queue, Members
<1>4. Holding' = Holding \union {t}
  BY <1>2 DEF Holding
<1>5. Value[s] > 0 /\ Value' = [Value EXCEPT ![s] = @ - 1]
  <2>1. \A q \in Sem : count[q] \in Int
    OBVIOUS
  <2>2. \A q \in Sem : count'[q] = IF q = s THEN count[s] - 1 ELSE count[q]
    BY <1>2
  <2>3. Value[s] > 0 /\ Value'[s] = Value[s] - 1
    BY <1>2, <2>1, <2>2 DEF Value
  <2>4. \A q \in Sem : q # s => Value'[q] = Value[q]
    BY <2>2 DEF Value
  <2>5. Value = [q \in Sem |-> Value[q]] /\ Value' = [q \in Sem |-> Value'[q]]
    BY DEF Value
  <2> QED BY <2>3, <2>4, <2>5
<1> QED BY <1>3, <1>4, <1>5 DEF Contract!Take, Queue, Value, Alive, Holding

\* ... or joins the waiters.
LEMMA EnqueueContract ==
  ASSUME SemInv, NEW t \in Thread, WaitAssert(t)
  PROVE  \E s \in Sem : Contract!Enqueue(t, s)
<1> USE DEF SemInv, TypeOK
<1>1. PICK s \in Sem : s = op[t].wait
  BY DEF WaitAssert, OpShape, InWait
<1>2. /\ active[s] /\ count[s] <= 0 /\ count' = [count EXCEPT ![s] = -1]
      /\ wait_queue' = [wait_queue EXCEPT ![t] = s]
      /\ UNCHANGED <<active, token>>
  BY <1>1 DEF WaitAssert, AssertWaitLocked
<1>3. Alive' = Alive /\ Holding' = Holding /\ s \in Alive
  BY <1>2 DEF Alive, Holding
<1>4. \A q \in Sem : t \notin Members(q)
  <2>1. ~waiting[t]
    BY DEF WaitAssert, WaitShape, AfterAssert
  <2> QED BY <2>1, WaitQueueAssumption DEF WaitingIffQueued, Members, Sem
<1>5. \A q \in Sem : Members(q)' = IF q = s THEN Members(q) \union {t} ELSE Members(q)
  BY <1>2, <1>4 DEF Members, WQTypeOK
<1>6. Queue' = [Queue EXCEPT ![s] = @ \union {t}]
  BY <1>5 DEF Queue
<1>7. Value[s] = 0 /\ Value' = Value
  <2>1. \A q \in Sem : count[q] \in Int
    OBVIOUS
  <2>2. \A q \in Sem : (IF count'[q] > 0 THEN count'[q] ELSE 0)
                        = (IF count[q] > 0 THEN count[q] ELSE 0)
    BY <1>2, <2>1
  <2> QED BY <1>2, <2>1, <2>2 DEF Value
<1> QED BY <1>3, <1>6, <1>7 DEF Contract!Enqueue, Queue, Value, Alive, Holding

\* semaphore_destroy releases all waiters and forgets the stored posts.
LEMMA DestroyContract ==
  ASSUME SemInv, NEW t \in Thread, Deactivate(t)
  PROVE  \E s \in Sem : Contract!Destroy(s)
<1> USE DEF SemInv, TypeOK
<1>1. PICK s \in Sem : s = op[t].signal
  BY DEF Deactivate, OpShape, InDestroy
<1>2. /\ active' = [active EXCEPT ![s] = FALSE]
      /\ count' = [count EXCEPT ![s] = 0] /\ token' = token
  BY <1>1 DEF Deactivate
<1>3. s \in Alive
  BY <1>1 DEF Deactivate, Lifecycle, Life, At, Alive
<1>4. Alive' = Alive \ {s} /\ Holding' = Holding
  BY <1>2 DEF Alive, Holding
<1>5. Value' = [Value EXCEPT ![s] = 0]
  BY <1>2 DEF Value
<1>6. Queue' = [Queue EXCEPT ![s] = {}]
  <2>1. CASE WakeupAllLocked(s, SEMAPHORE_EVENT, "RESTART")
    BY <2>1, PullAll
  <2>2. CASE count[s] >= 0 /\ UNCHANGED waitVars
    <3>1. Members(s) = {}
      BY <2>2 DEF WaitersSeen
    <3>2. Queue' = Queue
      BY <2>2 DEF Queue, Members, waitVars
    <3> QED BY <3>1, <3>2 DEF Queue
  <2> QED BY <1>1, <2>1, <2>2 DEF Deactivate
<1> QED BY <1>3, <1>4, <1>5, <1>6 DEF Contract!Destroy, Queue, Value, Alive, Holding

\* A new semaphore takes the place of one nobody referenced.
LEMMA CreateContract ==
  ASSUME SemInv, NEW s \in Sem, NEW v \in 0 .. MaxCount, Create(s, v)
  PROVE  Contract!Create(s)
<1> USE DEF SemInv, TypeOK
<1>1. s \notin Alive
  BY Unreferenced DEF Create, Alive
<1>2. /\ active' = [active EXCEPT ![s] = TRUE]
      /\ count' = [count EXCEPT ![s] = v] /\ UNCHANGED <<token, wait_queue>>
  BY DEF Create, wqVars, waitVars
<1>3. Alive' = Alive \union {s} /\ Holding' = Holding /\ Queue' = Queue
  BY <1>2 DEF Alive, Holding, Queue, Members
<1>4. v \in Int /\ MaxCount \in Int /\ \A q \in Sem : count[q] \in Int
  BY SemaphoreAssumption
<1>5. Value' \in [Sem -> Nat] /\ \A r \in Sem \ {s} : Value'[r] = Value[r]
  BY <1>2, <1>4 DEF Value
<1> QED BY <1>1, <1>3, <1>5 DEF Contract!Create, Queue, Value, Alive, Holding

\* Every action is a step of the contract or none that it shows.
LEMMA ContractStep ==
  ASSUME SemInv, [Next]_vars PROVE [Contract!Next]_(Contract!vars)
<1> DEFINE Goal == [Contract!Next]_(Contract!vars)
<1> SUFFICES Goal
  OBVIOUS
<1>1. ASSUME Same, posted' = posted PROVE Goal
  BY <1>1 DEF Same, Contract!vars, Value, Queue, Alive, Holding
<1>2. ASSUME posted' = posted, NEW s \in Sem,
             \/ Contract!Create(s) \/ Contract!GrantOne(s)
             \/ Contract!GrantAll(s) \/ Contract!Destroy(s)
      PROVE  Goal
  BY <1>2 DEF Contract!Next, Contract!Other
<1>3. ASSUME posted' = posted, NEW t \in Thread, NEW s \in Sem,
             Contract!Take(t, s) \/ Contract!Enqueue(t, s) \/ Contract!Cancel(t, s)
      PROVE  Goal
  BY <1>3 DEF Contract!Next, Contract!Other
<1>4. ASSUME NEW t \in Thread, NEW s \in Sem, posted' = posted \union {t},
             Contract!Store(s) \/ Contract!GrantOne(s)
      PROVE  Goal
  BY <1>4 DEF Contract!Next, Contract!Signal
<1>5. ASSUME UNCHANGED <<waitVars, count, active, token, posted>> PROVE Goal
  <2>1. Same
    BY <1>5 DEF Same, Value, Queue, Members, Alive, Holding, waitVars
  <2> QED BY <1>1, <1>5, <2>1
<1>6. ASSUME NEW t \in Thread,
             \/ Start(t) \/ LookupWait(t) \/ WaitDead(t) \/ WaitPoll(t) \/ Arm(t) \/ Wake(t)
             \/ Disown(t) \/ DeallocPort(t) \/ DropCreation(t) \/ SpecialHandler(t)
      PROVE  Goal
  <2>1. UNCHANGED <<waitVars, count, active, token, posted>>
    BY <1>6 DEF Start, StartWait, StartWaitSignal, StartSignal, StartDestroy, LookupWait, WaitDead,
         WaitPoll, Arm, Wake, Disown, DeallocPort, DropCreation, SpecialHandler, others, semVars,
         wqVars
  <2> QED BY <1>5, <2>1
<1>7. ASSUME NEW t \in Thread, WaitTake(t) PROVE Goal
  <2>1. posted' = posted
    BY <1>7 DEF WaitTake
  <2> QED BY <1>3, <1>7, <2>1, TakeContract
<1>8. ASSUME NEW t \in Thread, WaitAssert(t) PROVE Goal
  <2>1. posted' = posted
    BY <1>8 DEF WaitAssert
  <2> QED BY <1>3, <1>8, <2>1, EnqueueContract
<1>9. ASSUME NEW t \in Thread, SignalSecond(t) PROVE Goal
  <2>1. PICK s \in Sem : s = op[t].signal
    BY <1>9 DEF SignalSecond, SemInv, OpShape
  <2>2. PICK v \in Return : SignalOne(s, TRUE, v)
    BY <1>9, <2>1 DEF SignalSecond
  <2>3. posted' = posted \union {t} /\ active' = active
    BY <1>9 DEF SignalSecond
  <2> QED BY <1>4, <2>2, <2>3, SignalOneContract
<1>10. ASSUME NEW t \in Thread, SignalSecondDead(t) PROVE Goal
  <2>1. /\ GoLocked({t}, "INTERRUPTED") /\ GrantWoken
        /\ UNCHANGED <<count, active>> /\ posted' = posted
    BY <1>10, ClearedResult DEF SignalSecondDead, semVars
  <2> QED BY <1>1, <1>3, <2>1, CancelContract
<1>11. ASSUME NEW t \in Thread, Block(t) PROVE Goal
  <2>1. UNCHANGED <<count, active>> /\ posted' = posted /\ token' = token
    BY <1>11 DEF Block, semVars
  <2>2. CASE ClearSelf(t, "INTERRUPTED")
    <3>1. GoLocked({t}, "INTERRUPTED")
      BY <2>2, ClearedResult
    <3> QED BY <1>1, <1>3, <2>1, <3>1, CancelContract
  <2> QED BY <1>5, <1>11, <2>1, <2>2 DEF Block
<1>12. ASSUME NEW t \in Thread, Release(t) PROVE Goal
  <2>1. /\ token' = [token EXCEPT ![t] = FALSE] /\ posted' = posted \ {t}
        /\ UNCHANGED <<count, active, wait_queue>>
    BY <1>12 DEF Release, semVars, waitVars
  <2>2. Holding' = Holding \ {t}
    BY <2>1 DEF Holding, SemInv, TypeOK
  <2>3. UNCHANGED <<Value, Queue, Alive>>
    BY <2>1 DEF Value, Queue, Members, Alive
  <2>4. Contract!Return(t)
    BY <2>1, <2>2, <2>3 DEF Contract!Return, Contract!Leave, Queue, Value, Alive, Holding
  <2> QED BY <2>4 DEF Contract!Next
<1>13. ASSUME NEW t \in Thread, Signal(t) PROVE Goal
  <2>1. PICK s \in Sem : s = op[t].signal
    BY <1>13 DEF Signal, SemInv, OpShape
  <2>2. active' = active
    BY <1>13 DEF Signal
  <2>3. PICK v \in Return :
          /\ \/ SignalDead(s, v)
             \/ op[t].name = "signal" /\ SignalOne(s, TRUE, v)
             \/ op[t].name = "signal_one" /\ SignalOne(s, FALSE, v)
             \/ op[t].name = "signal_all" /\ SignalAll(s, v)
             \/ op[t].name = "signal_thread" /\ \E target \in Thread : SignalThread(s, target, v)
          /\ posted' = IF op[t].name = "signal" /\ v = "SUCCESS"
                         THEN posted \union {t} ELSE posted
    BY <1>13, <2>1 DEF Signal
  <2>4. CASE SignalDead(s, v)
    <3>1. posted' = posted /\ UNCHANGED <<count, waitVars, token>>
      BY <2>3, <2>4 DEF SignalDead
    <3> QED BY <1>5, <2>2, <3>1
  <2>5. CASE op[t].name = "signal" /\ SignalOne(s, TRUE, v)
    <3>1. v = "SUCCESS" /\ (Contract!GrantOne(s) \/ Contract!Store(s))
      BY <2>2, <2>5, SignalOneContract
    <3>2. posted' = posted \union {t}
      BY <2>3, <2>5, <3>1
    <3> QED BY <1>4, <3>1, <3>2
  <2>6. CASE op[t].name = "signal_one" /\ SignalOne(s, FALSE, v)
    <3>1. Contract!GrantOne(s) \/ Same
      BY <2>2, <2>6, SignalOneContract
    <3>2. posted' = posted
      BY <2>3, <2>6
    <3> QED BY <1>1, <1>2, <3>1, <3>2
  <2>7. CASE op[t].name = "signal_all" /\ SignalAll(s, v)
    <3>1. posted' = posted
      BY <2>3, <2>7
    <3>2. CASE count[s] >= 0 /\ UNCHANGED <<count, waitVars, token>>
      BY <1>5, <2>2, <3>1, <3>2
    <3>3. CASE /\ count[s] < 0 /\ count' = [count EXCEPT ![s] = 0]
               /\ WakeupAllLocked(s, SEMAPHORE_EVENT, "AWAKENED") /\ GrantWoken
      <4>1. /\ Queue' = [Queue EXCEPT ![s] = {}]
            /\ \A u \in Thread : waiting[u] /\ ~waiting'[u] <=> u \in Members(s)
            /\ \A u \in Members(s) : wait_result'[u] = "AWAKENED"
        BY <3>3, PullAll
      <4>2. Holding' = Holding \union Queue[s]
        BY <3>3, <4>1 DEF Holding, GrantWoken, Queue, Members, SemInv, TypeOK
      <4>3. Value' = Value /\ Alive' = Alive
        <5>1. \A q \in Sem : count[q] \in Int
          BY DEF SemInv, TypeOK
        <5>2. \A q \in Sem : (IF count'[q] > 0 THEN count'[q] ELSE 0)
                               = (IF count[q] > 0 THEN count[q] ELSE 0)
          BY <3>3, <5>1 DEF SemInv, TypeOK
        <5> QED BY <2>2, <5>2 DEF Value, Alive
      <4>4. CASE Members(s) = {}
        <5>1. Queue' = Queue /\ Holding' = Holding
          BY <4>1, <4>2, <4>4 DEF Queue
        <5> QED BY <1>1, <3>1, <4>3, <5>1 DEF Same
      <4>5. CASE Members(s) # {}
        <5>1. Queue[s] # {} /\ Queue' = [Queue EXCEPT ![s] = @ \ Queue[s]]
          BY <4>1, <4>5 DEF Queue
        <5>2. Contract!GrantAll(s)
          BY <4>2, <4>3, <5>1 DEF Contract!GrantAll, Contract!Grant, Queue, Value, Alive, Holding
        <5> QED BY <1>2, <3>1, <5>2
      <4> QED BY <4>4, <4>5
    <3> QED BY <2>7, <3>2, <3>3 DEF SignalAll
  <2>8. CASE op[t].name = "signal_thread" /\ \E target \in Thread : SignalThread(s, target, v)
    <3>1. PICK u \in Thread : SignalThread(s, u, v)
      BY <2>8
    <3>2. posted' = posted /\ count' = count
      BY <2>3, <2>8, <3>1 DEF SignalThread
    <3>3. CASE WakeupThreadLocked(s, SEMAPHORE_EVENT, u, "AWAKENED") /\ GrantWoken
      <4>1. u \in Members(s) /\ GoLocked({u}, "AWAKENED")
        BY <3>3 DEF WakeupThreadLocked, Waiters
      <4>2. Queue' = [Queue EXCEPT ![s] = @ \ {u}] /\ waiting[u] /\ ~waiting'[u]
        BY <4>1, PullOne
      <4>3. \A w \in Thread : waiting[w] /\ ~waiting'[w] => w = u
        BY <4>1, GoneUnqueued
      <4>4. wait_result'[u] = "AWAKENED"
        BY <4>1, <4>2 DEF GoLocked
      <4>5. Holding' = Holding \union {u}
        BY <3>3, <4>2, <4>3, <4>4 DEF Holding, GrantWoken, SemInv, TypeOK
      <4>6. Value' = Value /\ Alive' = Alive /\ u \in Queue[s]
        BY <2>2, <3>2, <4>1 DEF Value, Alive, Queue
      <4>7. Contract!GrantOne(s)
        BY <4>2, <4>5, <4>6
        DEF Contract!GrantOne, Contract!Grant, Queue, Value, Alive, Holding
      <4> QED BY <1>2, <3>2, <4>7
    <3> QED BY <1>5, <2>2, <3>1, <3>2, <3>3 DEF SignalThread
  <2> QED BY <2>3, <2>4, <2>5, <2>6, <2>7, <2>8
<1>14. ASSUME NEW t \in Thread, Deactivate(t) PROVE Goal
  <2>1. posted' = posted
    BY <1>14 DEF Deactivate
  <2> QED BY <1>2, <1>14, <2>1, DestroyContract
<1>15. ASSUME NEW t \in Thread, NEW r, r # "AWAKENED",
              NEW k \in Clearer, ClearWaitStart(k, t, r),
              UNCHANGED <<count, active, posted>>, GrantWoken \/ token' = token
       PROVE  Goal
  <2>1. CASE GoLocked({t}, r)
    BY <1>1, <1>3, <1>15, <2>1, CancelContract
  <2>2. CASE UNCHANGED waitVars
    <3>1. token' = token
      BY <1>15, <2>2 DEF GrantWoken, waitVars, SemInv, TypeOK
    <3> QED BY <1>5, <1>15, <2>2, <3>1
  <2> QED BY <1>15, <2>1, <2>2 DEF ClearWaitStart
<1>16. ASSUME NEW t \in Thread, Timeout(t) PROVE Goal
  <2>1. t \in Clearer /\ ClearWaitStart(t, t, "TIMED_OUT") /\ UNCHANGED <<count, active, posted, token>>
    BY <1>16 DEF Timeout, Clearer, semVars
  <2> QED BY <1>15, <2>1
<1>17. ASSUME NEW k \in Aborter, NEW t \in Thread, Abort(k, t) \/ AbortSafely(k, t) PROVE Goal
  <2>1. k \in Clearer /\ ClearWaitStart(k, t, "INTERRUPTED") /\ GrantWoken
        /\ UNCHANGED <<count, active, posted>>
    BY <1>17 DEF Abort, AbortSafely, ThreadAbort, ThreadAbortSafely, Clearer, others, semVars
  <2> QED BY <1>15, <2>1
<1>18. ASSUME NEW k \in Clearer, FinishClear(k) PROVE Goal
  <2>1. GrantWoken /\ removing[k] # Idle /\ UNCHANGED <<count, active, posted>>
    BY <1>18 DEF FinishClear, ClearWaitFinish, others, semVars
  <2>2. removing[k].thread \in Thread /\ removing[k].result # "AWAKENED"
    BY <2>1 DEF SemInv, TypeOK, WQTypeOK, TimerShape, Clearer, Removal
  <2>3. CASE GoLocked({removing[k].thread}, removing[k].result)
    BY <1>1, <1>3, <2>1, <2>2, <2>3, CancelContract
  <2>4. CASE UNCHANGED waitVars
    <3>1. token' = token
      BY <2>1, <2>4 DEF GrantWoken, waitVars, SemInv, TypeOK
    <3> QED BY <1>5, <2>1, <2>4, <3>1
  <2> QED BY <1>18, <2>3, <2>4 DEF FinishClear, ClearWaitFinish
<1>19. ASSUME NEW s \in Sem, NEW v \in 0 .. MaxCount, Create(s, v) PROVE Goal
  <2>1. posted' = posted
    BY <1>19 DEF Create
  <2> QED BY <1>2, <1>19, <2>1, CreateContract
<1>20. ASSUME UNCHANGED vars PROVE Goal
  BY <1>5, <1>20 DEF vars, wqVars, semVars
<1> HIDE DEF Goal
<1> QED
  BY <1>6, <1>7, <1>8, <1>9, <1>10, <1>11, <1>12, <1>13, <1>14, <1>16, <1>17, <1>18, <1>19, <1>20
  DEF Next, Step, Wait

\* sync_sema.c implements the abstract semaphore, wait_signal included: no
\* successful signal is lost, a post goes to one waiter or is stored, and a
\* destroyed semaphore has neither posts nor waiters.
THEOREM Implementation == Spec => ImplementsContract
<1>1. Init => Contract!Init
  <2> SUFFICES ASSUME Init PROVE Contract!Init
    OBVIOUS
  <2>1. Value \in [Sem -> Nat]
    BY SemaphoreAssumption DEF Init, Value
  <2>2. Queue = [s \in Sem |-> {}]
    BY WaitQueueAssumption DEF Init, WQInit, Queue, Members, Sem
  <2>3. Alive = Sem /\ Holding = {} /\ posted = {}
    BY DEF Init, Alive, Holding
  <2> QED BY <2>1, <2>2, <2>3 DEF Contract!Init, Value, Queue, Alive, Holding
<1>2. SemInv /\ [Next]_vars => [Contract!Next]_(Contract!vars)
  BY ContractStep
<1> QED BY <1>1, <1>2, SemaphoreInvariant, PTL DEF Spec, ImplementsContract, Contract!Spec
=============================================================================
