------------------------------ MODULE ThreadCall ------------------------------
(***************************************************************************)
(* Thread calls: xnu-123.5/osfmk/kern/thread_call.c.  Callouts are queued  *)
(* as pending, or as delayed until a deadline; callout threads run the     *)
(* pending ones, an activate thread creates more of them when all are      *)
(* busy, and a timer per processor (timer_call.c) moves the delayed ones   *)
(* that are due.                                                           *)
(*                                                                         *)
(* An action is one hold of thread_call_lock.  Deadlines and timers are    *)
(* kept as the time that remains: a tick shortens all of them, so that     *)
(* time need not be bounded, and all that is overdue has 0 left.  All      *)
(* internal entries carry the same { function, argument }, no external one *)
(* does.  The creation of a callout thread is assumed to succeed.          *)
(***************************************************************************)
EXTENDS Integers, Sequences, FiniteSets, SequencesExt

CONSTANTS
  Callout,          \* callout entries
  Internal,         \* those of internal_call_storage
  Stuck,            \* external entries whose function may never return
  CallThread,       \* callout threads that can exist: the bound on threads
  CPU,              \* processors, each with a timer
  MaxDelay,         \* the longest delay asked for
  thread_lowat      \* thread_call_thread_min

ASSUME ThreadCallAssumption ==
  /\ Internal \subseteq Callout
  /\ {"none", "awake", "idle", "returned"} \intersect Callout = {}
  /\ Stuck \subseteq Callout \ Internal
  /\ IsFiniteSet(CallThread)
  /\ MaxDelay \in Nat
  /\ thread_lowat \in Nat

VARIABLES
  state,            \* call->state
  deadline,         \* call->deadline of a delayed call, as the time left
  pending,          \* pending_call_queue
  delayed,          \* delayed_call_queue
  free,             \* internal_call_free_queue
  timer,            \* thread_call_delayed_timers: time left, or Off
  firing,           \* CPUs between the timer's expiry and _delayed_call_timer's lock
  thr,              \* what each callout thread does; running c is the entry c
  thread_num, active_num,
  activate          \* the activate thread: "awake", "creating", "asleep"

callVars == <<state, deadline, pending, delayed, free>>
timerVars == <<timer, firing>>
threadVars == <<thr, thread_num, active_num, activate>>
tcVars == <<callVars, timerVars, threadVars>>

Off == -1
Delay == 0 .. MaxDelay

\* thread_call_initialize
CallInit ==
  /\ state = [c \in Callout |-> "IDLE"]
  /\ deadline = [c \in Callout |-> 0]
  /\ pending = <<>>
  /\ delayed = <<>>
  /\ free = Internal
  /\ timer = [p \in CPU |-> Off]
  /\ firing = {}
  /\ thr = [x \in CallThread |-> "none"]
  /\ thread_num = 0
  /\ active_num = 0
  /\ activate = "awake"

IsIn(c, q) == \E i \in 1 .. Len(q) : q[i] = c

\* Queue q without the entries S: the k-th that stays is the one at the
\* position up to which k stay
Without(q, S) ==
  LET kept == {i \in 1 .. Len(q) : q[i] \notin S}
      rank(i) == Cardinality({j \in kept : j <= i}) IN
  [k \in 1 .. Cardinality(kept) |-> q[CHOOSE i \in kept : rank(i) = k]]

IdleThreads == {x \in CallThread : thr[x] = "idle"}

-----------------------------------------------------------------------------
\* _call_thread_wake, when the threads are otherwise in the states `doing' and
\* `active' of them are active: wake an idle thread, and the activate thread
\* if there was none or there are more calls than threads
CallThreadWake(doing, active) ==
  \E W \in SUBSET IdleThreads :
    /\ Cardinality(W) = IF IdleThreads = {} THEN 0 ELSE 1
    /\ thr' = [x \in CallThread |-> IF x \in W THEN "awake" ELSE doing[x]]
    /\ activate' = IF /\ activate = "asleep"
                      /\ W = {} \/ thread_num < active + Len(pending')
                     THEN "awake" ELSE activate

\* _delayed_call_enqueue: c goes in front of the first entry with a later
\* deadline, the one at position i, or last
InsertDelayed(q, c, d) ==
  \E i \in 1 .. Len(q) + 1 :
    /\ \A j \in 1 .. i - 1 : deadline[q[j]] <= d
    /\ i <= Len(q) => deadline[q[i]] > d
    /\ delayed' = InsertAt(q, i, c)

\* _set_delayed_call_timer: timer_call_enter of this processor's timer
SetTimer(p, d) == timer' = [timer EXCEPT ![p] = d]

\* A thread may be on processor p: it is not in the timer's interrupt
Runs(p) == p \notin firing

\* Bound: a callout that may never return is not entered again while it runs
Enterable(c) == c \in Stuck => \A x \in CallThread : thr[x] # c

\* Put call c on the delayed queue q
EnterDelayed(c, q, d, p) ==
  /\ InsertDelayed(q, c, d)
  /\ deadline' = [deadline EXCEPT ![c] = d]
  /\ state' = [state EXCEPT ![c] = "DELAYED"]
  /\ IF Head(delayed') = c THEN SetTimer(p, d) ELSE UNCHANGED timer
  /\ UNCHANGED <<firing, threadVars>>

\* Mutant: a delayed call is left on the delayed queue
EnterKeepsDelayed(c) ==
  /\ c \notin Internal /\ Enterable(c)
  /\ state[c] # "PENDING"
  /\ pending' = Append(pending, c)
  /\ state' = [state EXCEPT ![c] = "PENDING"]
  /\ CallThreadWake(thr, active_num)
  /\ UNCHANGED <<deadline, delayed, free, timerVars, thread_num, active_num>>

\* thread_call_enter and thread_call_enter1
ThreadCallEnter(c) ==
  /\ c \notin Internal /\ Enterable(c)
  /\ state[c] # "PENDING"
  /\ delayed' = Without(delayed, {c})
  /\ pending' = Append(pending, c)
  /\ state' = [state EXCEPT ![c] = "PENDING"]
  /\ deadline' = [deadline EXCEPT ![c] = 0]
  /\ CallThreadWake(thr, active_num)
  /\ UNCHANGED <<free, timerVars, thread_num, active_num>>

\* Mutant: arms the timer only if the queue was empty
EnterDelayedIfEmpty(c, d, p) ==
  /\ c \notin Internal /\ Enterable(c) /\ Runs(p)
  /\ pending' = Without(pending, {c})
  /\ InsertDelayed(Without(delayed, {c}), c, d)
  /\ deadline' = [deadline EXCEPT ![c] = d]
  /\ state' = [state EXCEPT ![c] = "DELAYED"]
  /\ IF delayed = <<>> THEN SetTimer(p, d) ELSE UNCHANGED timer
  /\ UNCHANGED <<free, firing, threadVars>>

\* thread_call_enter_delayed and thread_call_enter1_delayed
ThreadCallEnterDelayed(c, d, p) ==
  /\ c \notin Internal /\ Enterable(c) /\ Runs(p)
  /\ pending' = Without(pending, {c})
  /\ EnterDelayed(c, Without(delayed, {c}), d, p)
  /\ UNCHANGED free

\* thread_call_cancel
ThreadCallCancel(c) ==
  /\ c \notin Internal
  /\ state[c] # "IDLE"
  /\ pending' = Without(pending, {c})
  /\ delayed' = Without(delayed, {c})
  /\ state' = [state EXCEPT ![c] = "IDLE"]
  /\ deadline' = [deadline EXCEPT ![c] = 0]
  /\ UNCHANGED <<free, timerVars, threadVars>>

\* thread_call_func.  With unique_call, nothing is done if the function is
\* pending already.  (An empty free queue is a panic.)
ThreadCallFunc(c, unique_call) ==
  /\ c \in free
  /\ unique_call => \A i \in 1 .. Len(pending) : pending[i] \notin Internal
  /\ free' = free \ {c}
  /\ pending' = Append(pending, c)
  /\ state' = [state EXCEPT ![c] = "PENDING"]
  /\ CallThreadWake(thr, active_num)
  /\ UNCHANGED <<deadline, delayed, timerVars, thread_num, active_num>>

\* thread_call_func_delayed
ThreadCallFuncDelayed(c, d, p) ==
  /\ c \in free /\ Runs(p)
  /\ free' = free \ {c}
  /\ EnterDelayed(c, delayed, d, p)
  /\ UNCHANGED pending

\* thread_call_func_cancel removes all matching entries, or the first one of
\* the pending queue or else of the delayed queue
FuncCancel(S) ==
  /\ pending' = Without(pending, S)
  /\ delayed' = Without(delayed, S)
  /\ state' = [c \in Callout |-> IF c \in S THEN "IDLE" ELSE state[c]]
  /\ deadline' = [c \in Callout |-> IF c \in S THEN 0 ELSE deadline[c]]
  /\ free' = free \union S
  /\ UNCHANGED <<timerVars, threadVars>>

ThreadCallFuncCancel(cancel_all) ==
  LET queued == pending \o delayed
      matches == {i \in 1 .. Len(queued) : queued[i] \in Internal} IN
  /\ matches # {}
  /\ FuncCancel({queued[i] : i \in IF cancel_all THEN matches
                                   ELSE {i \in matches : \A j \in matches : i <= j}})

-----------------------------------------------------------------------------
(* The timers                                                              *)

\* Time passes
Tick ==
  /\ \/ \E p \in CPU : timer[p] > 0
     \/ \E i \in 1 .. Len(delayed) : deadline[delayed[i]] > 0
  /\ timer' = [p \in CPU |-> IF timer[p] > 0 THEN timer[p] - 1 ELSE timer[p]]
  /\ deadline' = [c \in Callout |-> IF deadline[c] > 0 THEN deadline[c] - 1 ELSE 0]
  /\ UNCHANGED <<state, pending, delayed, free, firing, threadVars>>

\* timer_call_interrupt takes an expired timer off its queue and is about to
\* call _delayed_call_timer
TimerExpires(p) ==
  /\ timer[p] = 0 /\ p \notin firing
  /\ timer' = [timer EXCEPT ![p] = Off]
  /\ firing' = firing \union {p}
  /\ UNCHANGED <<callVars, threadVars>>

\* Mutant: the timer is not set again for the first entry that is not due
DelayedCallTimerOnce(p) ==
  \E n \in 0 .. Len(delayed) :
    LET due == SubSeq(delayed, 1, n) IN
    /\ p \in firing
    /\ \A i \in 1 .. n : deadline[delayed[i]] = 0
    /\ n < Len(delayed) => deadline[delayed[n + 1]] > 0
    /\ firing' = firing \ {p}
    /\ delayed' = SubSeq(delayed, n + 1, Len(delayed))
    /\ pending' = pending \o due
    /\ state' = [c \in Callout |-> IF IsIn(c, due) THEN "PENDING" ELSE state[c]]
    /\ IF n > 0 THEN CallThreadWake(thr, active_num) ELSE UNCHANGED <<thr, activate>>
    /\ UNCHANGED <<deadline, free, timer, thread_num, active_num>>

\* _delayed_call_timer: the first n entries are due and become pending
DelayedCallTimer(p) ==
  \E n \in 0 .. Len(delayed) :
    LET due == SubSeq(delayed, 1, n) IN
    /\ p \in firing
    /\ \A i \in 1 .. n : deadline[delayed[i]] = 0
    /\ n < Len(delayed) => deadline[delayed[n + 1]] > 0
    /\ firing' = firing \ {p}
    /\ delayed' = SubSeq(delayed, n + 1, Len(delayed))
    /\ pending' = pending \o due
    /\ state' = [c \in Callout |-> IF IsIn(c, due) THEN "PENDING" ELSE state[c]]
    /\ IF delayed' # <<>> THEN SetTimer(p, deadline[Head(delayed')]) ELSE UNCHANGED timer
    /\ IF n > 0 THEN CallThreadWake(thr, active_num) ELSE UNCHANGED <<thr, activate>>
    /\ UNCHANGED <<deadline, free, thread_num, active_num>>

-----------------------------------------------------------------------------
(* The threads                                                             *)

\* Mutant: takes one call and leaves the rest to those who are awake
CallThreadTakesOne(x) ==
  LET active == IF thr[x] = "returned" THEN active_num - 1 ELSE active_num
      c == Head(pending) IN
  /\ thr[x] \in {"awake", "returned"}
  /\ pending # <<>>
  /\ pending' = Tail(pending)
  /\ state' = [state EXCEPT ![c] = "IDLE"]
  /\ free' = free \union ({c} \intersect Internal)
  /\ active_num' = active + 1
  /\ thr' = [thr EXCEPT ![x] = c]
  /\ UNCHANGED <<deadline, delayed, timerVars, thread_num, activate>>

\* _call_thread_continue takes a call off the queue and, if there are more,
\* wakes somebody for them
CallThreadTakes(x) ==
  LET active == IF thr[x] = "returned" THEN active_num - 1 ELSE active_num
      c == Head(pending)
      doing == [thr EXCEPT ![x] = c] IN
  /\ thr[x] \in {"awake", "returned"}
  /\ pending # <<>>
  /\ pending' = Tail(pending)
  /\ state' = [state EXCEPT ![c] = "IDLE"]
  /\ free' = free \union ({c} \intersect Internal)
  /\ active_num' = active + 1
  /\ IF pending' # <<>> THEN CallThreadWake(doing, active + 1)
                        ELSE thr' = doing /\ UNCHANGED activate
  /\ UNCHANGED <<deadline, delayed, timerVars, thread_num>>

\* There is nothing to do: become idle, or terminate if enough others are
CallThreadRests(x) ==
  LET active == IF thr[x] = "returned" THEN active_num - 1 ELSE active_num
      enough == thread_num - active > thread_lowat IN
  /\ thr[x] \in {"awake", "returned"}
  /\ pending = <<>>
  /\ active_num' = active
  /\ thr' = [thr EXCEPT ![x] = IF enough THEN "none" ELSE "idle"]
  /\ thread_num' = IF enough THEN thread_num - 1 ELSE thread_num
  /\ UNCHANGED <<callVars, timerVars, activate>>

\* The callout returns
CallReturns(x) ==
  /\ thr[x] \in Callout
  /\ thr' = [thr EXCEPT ![x] = "returned"]
  /\ UNCHANGED <<callVars, timerVars, thread_num, active_num, activate>>

\* _activate_thread_continue decides to create a thread ...
ActivateCounts ==
  /\ activate = "awake"
  /\ thread_num < active_num + Len(pending)
  /\ thread_num < Cardinality(CallThread)    \* the bound on threads
  /\ thread_num' = thread_num + 1
  /\ activate' = "creating"
  /\ UNCHANGED <<callVars, timerVars, thr, active_num>>

\* ... and does so after dropping the lock
ActivateCreates ==
  /\ activate = "creating"
  /\ thr' = [thr EXCEPT ![CHOOSE x \in CallThread : thr[x] = "none"] = "awake"]
  /\ activate' = "awake"
  /\ UNCHANGED <<callVars, timerVars, thread_num, active_num>>

\* There are threads enough but calls are waiting: wake one and look again
ActivateWakes ==
  /\ activate = "awake"
  /\ thread_num >= active_num + Len(pending)
  /\ pending # <<>>
  /\ UNCHANGED <<callVars, timerVars, thread_num, active_num>>
  /\ CallThreadWake(thr, active_num)

ActivateSleeps ==
  /\ activate = "awake"
  /\ thread_num >= active_num + Len(pending)
  /\ pending = <<>>
  /\ activate' = "asleep"
  /\ UNCHANGED <<callVars, timerVars, thr, thread_num, active_num>>

ActivateStep ==
  ActivateCounts \/ ActivateCreates \/ ActivateWakes \/ ActivateSleeps

Requests ==
  \/ \E c \in Callout :
       \/ ThreadCallEnter(c) \/ ThreadCallCancel(c)
       \/ \E u \in BOOLEAN : ThreadCallFunc(c, u)
       \/ \E d \in Delay, p \in CPU :
            ThreadCallEnterDelayed(c, d, p) \/ ThreadCallFuncDelayed(c, d, p)
  \/ \E all \in BOOLEAN : ThreadCallFuncCancel(all)

TimerStep == \E p \in CPU : TimerExpires(p) \/ DelayedCallTimer(p)

CallNext ==
  \/ Requests
  \/ Tick \/ TimerStep
  \/ ActivateStep
  \/ \E x \in CallThread : CallThreadTakes(x) \/ CallThreadRests(x) \/ CallReturns(x)

CallSpec == CallInit /\ [][CallNext]_tcVars

\* Threads that can run do, timers fire and callouts that are not in Stuck
\* return; nothing obliges a client to make or cancel a request
CallFairness ==
  /\ WF_tcVars(Tick)
  /\ WF_tcVars(ActivateStep)
  /\ \A p \in CPU : WF_tcVars(TimerExpires(p) \/ DelayedCallTimer(p))
  /\ \A x \in CallThread :
       /\ WF_tcVars(CallThreadTakes(x) \/ CallThreadRests(x))
       /\ WF_tcVars(thr[x] \notin Stuck /\ CallReturns(x))

CallFairSpec == CallSpec /\ CallFairness

-----------------------------------------------------------------------------
CallTypeOK ==
  /\ state \in [Callout -> {"IDLE", "PENDING", "DELAYED"}]
  /\ deadline \in [Callout -> Delay]
  /\ pending \in Seq(Callout) /\ delayed \in Seq(Callout)
  /\ free \subseteq Internal
  /\ timer \in [CPU -> Delay \union {Off}]
  /\ firing \subseteq CPU
  /\ thr \in [CallThread -> {"none", "awake", "idle", "returned"} \union Callout]
  /\ thread_num \in 0 .. Cardinality(CallThread)
  /\ active_num \in 0 .. Cardinality(CallThread)
  /\ activate \in {"awake", "creating", "asleep"}

Once(q) == \A i, j \in 1 .. Len(q) : q[i] = q[j] => i = j

\* Each entry is queued where its state says and nowhere twice, an internal one
\* is free exactly when it is not queued, the delayed queue is in deadline
\* order, and the counts the activate thread decides by are the numbers of
\* threads that exist and that are inside a callout
Bookkeeping ==
  /\ CallTypeOK
  /\ \A c \in Callout :
       /\ (state[c] = "PENDING") <=> IsIn(c, pending)
       /\ (state[c] = "DELAYED") <=> IsIn(c, delayed)
       /\ c \in Internal => (c \in free <=> state[c] = "IDLE")
  /\ Once(pending) /\ Once(delayed)
  /\ \A i, j \in 1 .. Len(delayed) :
       i <= j => deadline[delayed[i]] <= deadline[delayed[j]]
  /\ thread_num = Cardinality({x \in CallThread : thr[x] # "none"})
                    + (IF activate = "creating" THEN 1 ELSE 0)
  /\ active_num = Cardinality({x \in CallThread : thr[x] \in Callout \union {"returned"}})

\* Some processor's timer expires no later than the first delayed call is due,
\* or its handler is on the way: each timer is moved by whoever runs on that
\* processor, a call may be cancelled or moved to another deadline meanwhile,
\* and a timer set for an earlier call may be replaced
TimerCovers ==
  delayed # <<>> =>
    \/ firing # {}
    \/ \E p \in CPU : timer[p] # Off /\ timer[p] <= deadline[Head(delayed)]

\* No wake-up is lost: while a call is pending a callout thread is on its way
\* to the queue, or the activate thread is
PendingServed ==
  pending # <<>> =>
    \/ activate # "asleep"
    \/ \E x \in CallThread : thr[x] \in {"awake", "returned"}

\* A pending call is run or withdrawn and a delayed call that is due becomes
\* pending, even though some callouts never return
CallsProceed ==
  \A c \in Callout :
    /\ state[c] = "PENDING" ~> state[c] # "PENDING"
    /\ (state[c] = "DELAYED" /\ deadline[c] = 0) ~> state[c] # "DELAYED" \/ deadline[c] # 0
=============================================================================
