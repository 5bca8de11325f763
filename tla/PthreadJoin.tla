----------------------------- MODULE PthreadJoin -----------------------------
(***************************************************************************)
(* The end of a pthread: pthread_exit, pthread_join and pthread_detach of  *)
(* Libc-166/pthreads.subproj/pthread.c, for one target thread (Target) and *)
(* the threads that join or detach it.  Its two semaphores are those of    *)
(* SemaphoreContract, which sync_sema.c implements (module Semaphore).     *)
(*                                                                         *)
(* A section under thread->lock is one action and so is every system call. *)
(* swtch_pri(0), "Give others a chance", before each semaphore_signal_all  *)
(* is no action: it may let another thread run, or return at once, as any  *)
(* step may come before or after those of the others.                      *)
(* thread->death is null exactly when the thread is DETACHED: both change  *)
(* in one section of pthread_detach, or when _pthread_create makes it.     *)
(***************************************************************************)
EXTENDS Naturals, FiniteSets

CONSTANTS
  Thread,      \* the threads that join or detach the target
  Target,
  Ops,         \* what they call
  Interrupts,  \* the semaphores whose waits UNIX signals may abort
  Overlap      \* whether a join may start after the target's exit while
               \* another join of it is still under way

Semaphores == {"death", "joiners"}

ASSUME PthreadJoinAssumption ==
  /\ IsFiniteSet(Thread)
  /\ Target \notin Thread
  /\ Ops \subseteq {"join", "detach"}
  /\ Interrupts \subseteq Semaphores
  /\ Overlap \in BOOLEAN

VARIABLES
  value, waiters, alive, granted,   \* the semaphores (SemaphoreContract)
  detached, num_joiners,            \* fields of the target's structure
  memory,                           \* the structure itself
  pc,
  caught,                           \* how many joins got the exit value
  ended                             \* whether a join or detach has succeeded

Everyone == Thread \union {Target}

K == INSTANCE SemaphoreContract
       WITH Thread <- Everyone, Sem <- Semaphores, posted <- {}

kVars == <<value, waiters, alive, granted>>
vars == <<kVars, detached, num_joiners, memory, pc, caught, ended>>

\* The end of _pthread_create: a detached thread has no semaphores
Init ==
  /\ detached \in {"JOINABLE", "DETACHED"}
  /\ value = [s \in Semaphores |-> 0]
  /\ waiters = [s \in Semaphores |-> {}]
  /\ alive = IF detached = "JOINABLE" THEN Semaphores ELSE {}
  /\ granted = {}
  /\ num_joiners = 0
  /\ memory = "live"
  /\ pc = [t \in Everyone |-> IF t = Target THEN "run" ELSE "out"]
  /\ caught = 0
  /\ ended = (detached = "DETACHED")

Goto(t, l) == pc' = [pc EXCEPT ![t] = l]
Joining == {"wait", "wait_blocked", "relock", "signal_death"}
Detaching == {"signal_detached", "destroy_joiners", "destroy_death"}
InJoin(t) == pc[t] \in Joining

-----------------------------------------------------------------------------
(* Kernel calls.  All results are ignored, so one on a semaphore that is   *)
(* no more is a call without effect.                                       *)

SemaphoreWait(t, s) ==
  \/ K!Take(t, s) \/ K!Enqueue(t, s)
  \/ s \notin alive /\ UNCHANGED kVars

SemaphoreSignal(s) ==
  \/ K!Store(s) \/ K!GrantOne(s)
  \/ s \notin alive /\ UNCHANGED kVars

SemaphoreSignalAll(s) ==
  \/ K!GrantAll(s)
  \/ waiters[s] = {} /\ UNCHANGED kVars

SemaphoreDestroy(s) ==
  \/ K!Destroy(s)
  \/ s \notin alive /\ UNCHANGED kVars

\* A blocked semaphore_wait returns: posted, or its semaphore was destroyed
Resume(t, s, l) ==
  /\ t \notin waiters[s]
  /\ K!Leave(t)
  /\ Goto(t, l)

\* ... or a UNIX signal makes it return KERN_ABORTED
WaitInterrupted ==
  /\ \E t \in Everyone, s \in Interrupts : K!Cancel(t, s)
  /\ UNCHANGED <<detached, num_joiners, memory, pc, caught, ended>>

-----------------------------------------------------------------------------
(* pthread_exit by the target                                              *)

\* Mutant: a thread that nobody is joining does not wait to be joined
ExitUnjoined ==
  /\ pc[Target] = "run"
  /\ IF detached = "JOINABLE"
       THEN /\ detached' = "EXITED"
            /\ Goto(Target, IF num_joiners > 0 THEN "signal_joiners"
                                               ELSE "exit_destroy_joiners")
       ELSE detached' = detached /\ Goto(Target, "reap")
  /\ UNCHANGED <<kVars, num_joiners, memory, caught, ended>>

Exit ==
  /\ pc[Target] = "run"
  /\ IF detached = "JOINABLE"
       THEN /\ detached' = "EXITED"
            /\ Goto(Target, IF num_joiners > 0 THEN "signal_joiners" ELSE "wait_death")
       ELSE detached' = detached /\ Goto(Target, "reap")
  /\ UNCHANGED <<kVars, num_joiners, memory, caught, ended>>

ExitSignals ==
  /\ pc[Target] = "signal_joiners"
  /\ SemaphoreSignalAll("joiners")
  /\ Goto(Target, "wait_death")
  /\ UNCHANGED <<detached, num_joiners, memory, caught, ended>>

ExitWaits ==
  /\ pc[Target] = "wait_death"
  /\ SemaphoreWait(Target, "death")
  /\ Goto(Target, "death_blocked")
  /\ UNCHANGED <<detached, num_joiners, memory, caught, ended>>

ExitReleased ==
  /\ pc[Target] = "death_blocked"
  /\ Resume(Target, "death", "exit_destroy_joiners")
  /\ UNCHANGED <<detached, num_joiners, memory, caught, ended>>

ExitDestroys ==
  /\ \/ /\ pc[Target] = "exit_destroy_joiners"
        /\ SemaphoreDestroy("joiners")
        /\ Goto(Target, "exit_destroy_death")
     \/ /\ pc[Target] = "exit_destroy_death"
        /\ SemaphoreDestroy("death")
        /\ Goto(Target, "reap")
  /\ UNCHANGED <<detached, num_joiners, memory, caught, ended>>

\* _pthread_reap_threads (of the threads that went before) and
\* _pthread_become_available
BecomeAvailable ==
  /\ pc[Target] = "reap"
  /\ memory' = "available"
  /\ Goto(Target, "gone")
  /\ UNCHANGED <<kVars, detached, num_joiners, caught, ended>>

\* _pthread_reap_threads by a later pthread_exit of another thread
ReapThreads ==
  /\ memory = "available"
  /\ memory' = "freed"
  /\ UNCHANGED <<kVars, detached, num_joiners, pc, caught, ended>>

-----------------------------------------------------------------------------
(* pthread_join.  A thread may be named until a join or detach of it has   *)
(* succeeded.                                                              *)

MayName == ~ended /\ memory # "freed"

\* Mutant: whoever finds the thread exited takes its value
DecideAny(t, n) ==
  /\ num_joiners' = n
  /\ IF detached = "EXITED"
       THEN Goto(t, "signal_death") /\ caught' = caught + 1
       ELSE Goto(t, "out") /\ UNCHANGED caught


\* The second half of the section, with n joiners left
Decide(t, n) ==
  /\ num_joiners' = n
  /\ IF detached = "EXITED" /\ n = 0
       THEN Goto(t, "signal_death") /\ caught' = caught + 1  \* ESUCCESS
       ELSE Goto(t, "out") /\ UNCHANGED caught                \* ESRCH or EINVAL

Join(t) ==
  /\ "join" \in Ops
  /\ pc[t] = "out"
  /\ MayName
  /\ detached = "EXITED" => Overlap \/ \A u \in Thread : ~InJoin(u)
  /\ IF detached = "JOINABLE"
       THEN num_joiners' = num_joiners + 1 /\ Goto(t, "wait") /\ UNCHANGED caught
       ELSE Decide(t, num_joiners)
  /\ UNCHANGED <<kVars, detached, memory, ended>>

JoinWaits(t) ==
  /\ pc[t] = "wait"
  /\ SemaphoreWait(t, "joiners")
  /\ Goto(t, "wait_blocked")
  /\ UNCHANGED <<detached, num_joiners, memory, caught, ended>>

JoinResumes(t) ==
  /\ pc[t] = "wait_blocked"
  /\ Resume(t, "joiners", "relock")
  /\ UNCHANGED <<detached, num_joiners, memory, caught, ended>>

JoinRelocks(t) ==
  /\ pc[t] = "relock"
  /\ Decide(t, num_joiners - 1)
  /\ UNCHANGED <<kVars, detached, memory, ended>>

JoinSignals(t) ==
  /\ pc[t] = "signal_death"
  /\ SemaphoreSignal("death")
  /\ Goto(t, "out")
  /\ ended' = TRUE
  /\ UNCHANGED <<detached, num_joiners, memory, caught>>

-----------------------------------------------------------------------------
(* pthread_detach                                                          *)

\* The structure is not looked at again before thread->joiners is read
Detach(t) ==
  /\ "detach" \in Ops
  /\ pc[t] = "out"
  /\ MayName
  /\ detached = "JOINABLE"                                \* otherwise EINVAL
  /\ detached' = "DETACHED"
  /\ Goto(t, IF num_joiners > 0 THEN "signal_detached" ELSE "destroy_joiners")
  /\ UNCHANGED <<kVars, num_joiners, memory, caught, ended>>

DetachSignals(t) ==
  /\ pc[t] = "signal_detached"
  /\ SemaphoreSignalAll("joiners")
  /\ Goto(t, "destroy_joiners")
  /\ UNCHANGED <<detached, num_joiners, memory, caught, ended>>

DetachDestroys(t) ==
  /\ \/ /\ pc[t] = "destroy_joiners"
        /\ SemaphoreDestroy("joiners")
        /\ Goto(t, "destroy_death")
        /\ UNCHANGED ended
     \/ /\ pc[t] = "destroy_death"
        /\ SemaphoreDestroy("death")
        /\ Goto(t, "out")
        /\ ended' = TRUE
  /\ UNCHANGED <<detached, num_joiners, memory, caught>>

-----------------------------------------------------------------------------
TargetStep ==
  ExitSignals \/ ExitWaits \/ ExitReleased \/ ExitDestroys \/ BecomeAvailable

CallerStep(t) ==
  \/ JoinWaits(t) \/ JoinResumes(t) \/ JoinRelocks(t) \/ JoinSignals(t)
  \/ DetachSignals(t) \/ DetachDestroys(t)

\* What nobody has to do: start a call, exit, reap, send a signal
Choice ==
  \/ Exit \/ ReapThreads \/ WaitInterrupted
  \/ \E t \in Thread : Join(t) \/ Detach(t)

Next == Choice \/ TargetStep \/ \E t \in Thread : CallerStep(t)

Spec == Init /\ [][Next]_vars

\* A thread that is not blocked goes on
FairSpec ==
  /\ Spec
  /\ WF_vars(TargetStep)
  /\ \A t \in Thread : WF_vars(CallerStep(t))

-----------------------------------------------------------------------------
TypeOK ==
  /\ value \in [Semaphores -> 0 .. 1]
  /\ waiters \in [Semaphores -> SUBSET Everyone]
  /\ alive \subseteq Semaphores
  /\ granted \subseteq Everyone
  /\ detached \in {"JOINABLE", "DETACHED", "EXITED"}
  /\ num_joiners \in 0 .. Cardinality(Thread)
  /\ memory \in {"live", "available", "freed"}
  /\ caught \in 0 .. Cardinality(Thread)
  /\ ended \in BOOLEAN

\* The exit value goes to one join, of a thread that has exited: of the joins
\* that were waiting the last to retake thread->lock catches it, the others
\* find num_joiners positive ("This 'joiner' missed the catch!"), and the
\* thread is told to go once.
OneCatcher ==
  /\ TypeOK
  /\ caught =< 1
  /\ caught = 1 => detached = "EXITED"
  /\ num_joiners = Cardinality({t \in Thread : pc[t] \in {"wait", "wait_blocked", "relock"}})

\* The structure of a thread nobody detached is freed only when a join has
\* returned its value, and no join is still going to read it.
FreedIsUnused ==
  memory # "live" /\ detached # "DETACHED"
    => ended /\ \A t \in Thread : ~InJoin(t)

\* "Wait for a thread to terminate": once the thread has exited or has been
\* detached, every join of it returns.
JoinReturns ==
  \A t \in Thread : InJoin(t) /\ detached # "JOINABLE" ~> ~InJoin(t)

=============================================================================
