--------------------------- MODULE PthreadJoinProofs ---------------------------
(***************************************************************************)
(* pthread_join for any number of threads that join or detach one target,  *)
(* whatever swtch_pri does and whichever of the joins UNIX signals         *)
(* interrupt: the exit value is caught once, and the target's structure is *)
(* given back when the join that caught it has told the target to go.      *)
(***************************************************************************)
EXTENDS PthreadJoin, FiniteSetTheorems, TLAPS

CallerLabel == {"out"} \union Joining \union Detaching
ExitLabel == {"run", "signal_joiners", "wait_death", "death_blocked",
              "exit_destroy_joiners", "exit_destroy_death", "reap", "gone"}

Labels == /\ pc \in [Everyone -> CallerLabel \union ExitLabel]
          /\ \A t \in Thread : pc[t] \in CallerLabel
          /\ pc[Target] \in ExitLabel

\* The threads that num_joiners counts
Joiners == {t \in Thread : pc[t] \in {"wait", "wait_blocked", "relock"}}

\* The exit value.  A catch leaves nobody to count, and the thread that made
\* it keeps others from calling pthread_join until it has signalled `death',
\* which it does once.
Catches ==
  /\ num_joiners = Cardinality(Joiners)
  /\ caught \in {0, 1}
  /\ caught = 1 => /\ detached = "EXITED" /\ Joiners = {}
                   /\ ended \/ \E t \in Thread : pc[t] = "signal_death"
  /\ \A t \in Thread : pc[t] = "signal_death" => caught = 1 /\ ~ended
  /\ \A t, u \in Thread : pc[t] = "signal_death" /\ pc[u] = "signal_death" => t = u
  /\ \A t \in Thread : pc[t] \in Detaching => detached = "DETACHED"
  /\ ended => detached = "DETACHED" \/ caught = 1
  /\ value["joiners"] = 0
  /\ value["death"] > 0 => ended

\* The inductive invariant behind OneCatcher
CatchInv == TypeOK /\ Labels /\ Catches

Exiting == {"signal_joiners", "wait_death", "death_blocked"}

\* The target's way out.  It passes `death' only when that has been signalled,
\* or when it was detached before it exited.
Leaves ==
  /\ pc[Target] = "run" => detached # "EXITED"
  /\ pc[Target] # "run" => detached # "JOINABLE"
  /\ pc[Target] \in Exiting => detached = "EXITED"
  /\ detached # "DETACHED" /\ pc[Target] \in Exiting \union {"run"} => "death" \in alive
  /\ pc[Target] = "death_blocked" /\ ~ended => Target \in waiters["death"]
  /\ detached # "DETACHED" /\ pc[Target] \notin Exiting \union {"run"} => ended
  /\ memory # "live" => pc[Target] = "gone"

-----------------------------------------------------------------------------
(* Lemmas                                                                  *)

\* What a kernel call other than the signal of `death' leaves of the
\* semaphores: `joiners' never stores a post, and `death' gets none.
Kernel ==
  /\ value' \in [Semaphores -> 0 .. 1]
  /\ waiters' \in [Semaphores -> SUBSET Everyone]
  /\ alive' \subseteq Semaphores
  /\ granted' \subseteq Everyone
  /\ value'["joiners"] = 0
  /\ value'["death"] > 0 => value["death"] > 0

\* Every other call, by any thread and on either semaphore, is of that kind.
LEMMA KernelStep ==
  ASSUME CatchInv, NEW t \in Everyone, NEW s \in Semaphores,
         \/ SemaphoreWait(t, s) \/ SemaphoreSignalAll(s) \/ SemaphoreDestroy(s)
         \/ K!Leave(t) \/ K!Cancel(t, s) \/ UNCHANGED kVars
  PROVE  Kernel
<1> USE DEF Kernel, kVars
<1>1. /\ value \in [Semaphores -> 0 .. 1] /\ value["joiners"] = 0
      /\ waiters \in [Semaphores -> SUBSET Everyone]
      /\ alive \subseteq Semaphores /\ granted \subseteq Everyone
      /\ "joiners" \in Semaphores /\ "death" \in Semaphores
  BY DEF CatchInv, TypeOK, Catches, Semaphores
<1>2. CASE K!Take(t, s)
  <2>1. s # "joiners" /\ value[s] - 1 = 0
    BY <1>1, <1>2 DEF K!Take
  <2>2. value' \in [Semaphores -> 0 .. 1] /\ value'["joiners"] = 0
    BY <1>1, <1>2, <2>1 DEF K!Take
  <2>3. value'["death"] > 0 => value["death"] > 0
    BY <1>1, <1>2 DEF K!Take
  <2> QED BY <1>1, <1>2, <2>2, <2>3 DEF K!Take
<1>3. CASE K!Enqueue(t, s)
  BY <1>1, <1>3 DEF K!Enqueue
<1>4. CASE K!GrantAll(s)
  BY <1>1, <1>4 DEF K!GrantAll, K!Grant
<1>5. CASE K!Destroy(s)
  <2>1. value' \in [Semaphores -> 0 .. 1] /\ value'["joiners"] = 0
    BY <1>1, <1>5 DEF K!Destroy
  <2>2. value'["death"] > 0 => value["death"] > 0
    BY <1>1, <1>5 DEF K!Destroy
  <2>3. waiters' \in [Semaphores -> SUBSET Everyone]
    BY <1>1, <1>5 DEF K!Destroy
  <2> QED BY <1>1, <1>5, <2>1, <2>2, <2>3 DEF K!Destroy
<1>6. CASE K!Leave(t) \/ K!Cancel(t, s) \/ UNCHANGED kVars
  BY <1>1, <1>6 DEF K!Leave, K!Cancel
<1> QED BY <1>2, <1>3, <1>4, <1>5, <1>6
         DEF SemaphoreWait, SemaphoreSignalAll, SemaphoreDestroy

\* What the counting of joiners needs from set theory
LEMMA JoinersCounted ==
  ASSUME Labels, NEW S \in SUBSET Thread
  PROVE  /\ Cardinality(S) \in 0 .. Cardinality(Thread)
         /\ Cardinality(S) = 0 <=> S = {}
         /\ \A t \in Thread \ S : Cardinality(S \union {t}) = Cardinality(S) + 1
         /\ \A t \in S : Cardinality(S \ {t}) = Cardinality(S) - 1
<1>1. IsFiniteSet(S) /\ Cardinality(S) =< Cardinality(Thread)
  BY FS_Subset, PthreadJoinAssumption
<1>2. Cardinality(S) \in Nat /\ Cardinality(Thread) \in Nat
  BY <1>1, FS_CardinalityType, PthreadJoinAssumption
<1>3. Cardinality(S) = 0 <=> S = {}
  BY <1>1, FS_EmptySet
<1>4. \A t \in Thread \ S : Cardinality(S \union {t}) = Cardinality(S) + 1
  BY <1>1, FS_AddElement
<1>5. \A t \in S : Cardinality(S \ {t}) = Cardinality(S) - 1
  BY <1>1, FS_RemoveElement
<1> QED BY <1>1, <1>2, <1>3, <1>4, <1>5

\* A step that moves no thread into, out of or past the joins, and none into a
\* detach, and does not exit either, keeps the invariant.
LEMMA QuietStep ==
  ASSUME CatchInv, Kernel, Labels',
         UNCHANGED <<detached, num_joiners, caught, ended>>,
         memory' \in {"live", "available", "freed"},
         \A t \in Thread : \/ pc'[t] = pc[t]
                           \/ {pc[t], pc'[t]} \subseteq {"wait", "wait_blocked", "relock"}
                           \/ pc[t] \in Detaching /\ pc'[t] \in Detaching
  PROVE  CatchInv'
<1>1. Joiners' = Joiners
  BY DEF Joiners, Detaching
<1>2. \A t \in Thread : /\ pc'[t] = "signal_death" <=> pc[t] = "signal_death"
                        /\ pc'[t] \in Detaching => pc[t] \in Detaching
  BY DEF Detaching
<1>3. TypeOK'
  BY DEF CatchInv, TypeOK, Kernel
<1>4. Catches'
  BY <1>1, <1>2 DEF CatchInv, Catches, Kernel
<1> QED BY <1>3, <1>4 DEF CatchInv

\* Every step keeps the exit value in one pair of hands.
LEMMA CatchStep ==
  ASSUME ~Overlap, CatchInv, [Next]_vars
  PROVE  CatchInv'
<1> USE PthreadJoinAssumption DEF CatchInv, Everyone, CallerLabel, ExitLabel, Joining, Detaching
<1>1. CASE ExitSignals
  <2>1. Kernel
    BY <1>1, KernelStep DEF ExitSignals, Everyone, Semaphores
  <2>2. Labels'
    BY <1>1 DEF ExitSignals, Goto, CatchInv, Labels
  <2> QED BY <1>1, <2>1, <2>2, QuietStep DEF ExitSignals, Goto, CatchInv, TypeOK, Labels
<1>2. CASE ExitWaits
  <2>1. Kernel
    BY <1>2, KernelStep DEF ExitWaits, Everyone, Semaphores
  <2>2. Labels'
    BY <1>2 DEF ExitWaits, Goto, CatchInv, Labels
  <2> QED BY <1>2, <2>1, <2>2, QuietStep DEF ExitWaits, Goto, CatchInv, TypeOK, Labels
<1>3. CASE ExitReleased
  <2>1. Kernel
    BY <1>3, KernelStep DEF ExitReleased, Resume, Everyone, Semaphores
  <2>2. Labels'
    BY <1>3 DEF ExitReleased, Resume, Goto, CatchInv, Labels
  <2> QED BY <1>3, <2>1, <2>2, QuietStep DEF ExitReleased, Resume, Goto, CatchInv, TypeOK,
                                             Labels
<1>4. CASE ExitDestroys
  <2>1. Kernel
    BY <1>4, KernelStep DEF ExitDestroys, Everyone, Semaphores
  <2>2. Labels'
    BY <1>4 DEF ExitDestroys, Goto, CatchInv, Labels
  <2> QED BY <1>4, <2>1, <2>2, QuietStep DEF ExitDestroys, Goto, CatchInv, TypeOK, Labels
<1>5. CASE BecomeAvailable
  <2>1. Kernel
    BY <1>5, KernelStep DEF BecomeAvailable, Everyone, Semaphores
  <2>2. Labels'
    BY <1>5 DEF BecomeAvailable, Goto, CatchInv, Labels
  <2> QED BY <1>5, <2>1, <2>2, QuietStep DEF BecomeAvailable, Goto, CatchInv, TypeOK, Labels
<1>6. CASE ReapThreads
  <2>1. Kernel
    BY <1>6, KernelStep DEF ReapThreads, Everyone, Semaphores
  <2>2. Labels'
    BY <1>6 DEF ReapThreads, CatchInv, Labels
  <2> QED BY <1>6, <2>1, <2>2, QuietStep DEF ReapThreads, CatchInv, TypeOK, Labels
<1>7. CASE WaitInterrupted
  <2>1. Kernel
    BY <1>7, KernelStep, PthreadJoinAssumption DEF WaitInterrupted
  <2>2. Labels'
    BY <1>7 DEF WaitInterrupted, CatchInv, Labels
  <2> QED BY <1>7, <2>1, <2>2, QuietStep DEF WaitInterrupted, CatchInv, TypeOK
<1>8. ASSUME NEW t \in Thread, JoinWaits(t) PROVE CatchInv'
  <2>1. Kernel
    BY <1>8, KernelStep DEF JoinWaits, Everyone, Semaphores
  <2>2. Labels'
    BY <1>8 DEF JoinWaits, Goto, CatchInv, Labels
  <2> QED BY <1>8, <2>1, <2>2, QuietStep DEF JoinWaits, Goto, CatchInv, TypeOK, Labels
<1>9. ASSUME NEW t \in Thread, JoinResumes(t) PROVE CatchInv'
  <2>1. Kernel
    BY <1>9, KernelStep DEF JoinResumes, Resume, Everyone, Semaphores
  <2>2. Labels'
    BY <1>9 DEF JoinResumes, Resume, Goto, CatchInv, Labels
  <2> QED BY <1>9, <2>1, <2>2, QuietStep DEF JoinResumes, Resume, Goto, CatchInv, TypeOK, Labels
<1>10. ASSUME NEW t \in Thread, DetachSignals(t) PROVE CatchInv'
  <2>1. Kernel
    BY <1>10, KernelStep DEF DetachSignals, Everyone, Semaphores
  <2>2. Labels'
    BY <1>10 DEF DetachSignals, Goto, CatchInv, Labels
  <2> QED BY <1>10, <2>1, <2>2, QuietStep DEF DetachSignals, Goto, CatchInv, TypeOK, Labels
<1>11. CASE Exit
  <2>1. TypeOK'
    BY <1>11 DEF Exit, kVars, TypeOK
  <2>2. Labels'
    BY <1>11 DEF Exit, Goto, Labels
  <2>3. \A t \in Thread : pc'[t] = pc[t]
    BY <1>11 DEF Exit, Goto, Labels
  <2>4. Joiners' = Joiners
    BY <2>3 DEF Joiners
  <2>5. Catches'
    BY <1>11, <2>3, <2>4 DEF Exit, kVars, Catches
  <2> QED BY <2>1, <2>2, <2>5
<1>12. ASSUME NEW t \in Thread, Join(t) PROVE CatchInv'
  <2>1. CASE detached = "JOINABLE"
    <3>1. Joiners' = Joiners \union {t} /\ t \notin Joiners
      BY <1>12, <2>1 DEF Join, Goto, Labels, Joiners
    <3>2. num_joiners' = Cardinality(Joiners') /\ num_joiners' \in 0 .. Cardinality(Thread)
      BY <1>12, <2>1, <3>1, JoinersCounted DEF Join, Catches, Joiners
    <3>3. TypeOK'
      BY <1>12, <2>1, <3>2 DEF Join, kVars, TypeOK
    <3>4. Labels'
      BY <1>12, <2>1 DEF Join, Goto, Labels
    <3>5. Catches'
      BY <1>12, <2>1, <3>2 DEF Join, Goto, kVars, Labels, Catches
    <3> QED BY <3>3, <3>4, <3>5
  <2>2. CASE detached # "JOINABLE" /\ ~(detached = "EXITED" /\ num_joiners = 0)
    <3>1. pc' = pc /\ UNCHANGED <<kVars, num_joiners, caught>>
      BY <1>12, <2>2 DEF Join, Decide, Goto, Labels
    <3> QED BY <1>12, <3>1, QuietStep, KernelStep DEF Join, TypeOK, Labels, Everyone, Semaphores
  <2>3. CASE detached = "EXITED" /\ num_joiners = 0
    <3>1. \A u \in Thread : ~InJoin(u)
      BY <1>12, <2>3 DEF Join
    <3>2. caught = 0 /\ caught' = 1 /\ ~ended
      BY <1>12, <2>3, <3>1 DEF Join, MayName, Decide, InJoin, Joining, Catches
    <3>3. Joiners = {} /\ Joiners' = {}
      BY <1>12, <2>3, <3>1 DEF Join, Decide, Goto, Labels, Joiners, InJoin, Joining
    <3>4. 1 \in 0 .. Cardinality(Thread)
      BY JoinersCounted, FS_Subset, FS_CardinalityType
    <3>5. TypeOK'
      BY <1>12, <2>3, <3>2, <3>4 DEF Join, Decide, kVars, TypeOK
    <3>6. Labels'
      BY <1>12, <2>3 DEF Join, Decide, Goto, Labels
    <3>7. \A u \in Thread : pc'[u] = IF u = t THEN "signal_death" ELSE pc[u]
      BY <1>12, <2>3 DEF Join, Decide, Goto, Labels
    <3>8. \A u \in Thread : pc[u] # "signal_death"
      BY <3>1 DEF InJoin
    <3>9. Catches'
      BY <1>12, <2>3, <3>2, <3>3, <3>7, <3>8 DEF Join, Decide, kVars, Catches
    <3> QED BY <3>5, <3>6, <3>9
  <2> QED BY <2>1, <2>2, <2>3
<1>13. ASSUME NEW t \in Thread, JoinRelocks(t) PROVE CatchInv'
  <2>1. t \in Joiners /\ Joiners' = Joiners \ {t}
    BY <1>13 DEF JoinRelocks, Decide, Goto, Labels, Joiners
  <2>2. /\ num_joiners' = Cardinality(Joiners') /\ num_joiners' \in 0 .. Cardinality(Thread)
        /\ num_joiners' = 0 => Joiners' = {}
    <3>1. Joiners \in SUBSET Thread /\ Joiners \ {t} \in SUBSET Thread
      BY DEF Joiners
    <3>2. /\ Cardinality(Joiners \ {t}) = Cardinality(Joiners) - 1
          /\ Cardinality(Joiners \ {t}) \in 0 .. Cardinality(Thread)
          /\ Cardinality(Joiners \ {t}) = 0 => Joiners \ {t} = {}
      BY <2>1, <3>1, JoinersCounted
    <3>3. num_joiners' = Cardinality(Joiners) - 1
      BY <1>13 DEF JoinRelocks, Decide, Catches
    <3> QED BY <2>1, <3>2, <3>3
  <2>3. caught = 0 /\ ~(\E u \in Thread : pc[u] = "signal_death")
    BY <2>1 DEF Catches
  <2>4. Labels'
    BY <1>13 DEF JoinRelocks, Decide, Goto, Labels
  <2>5. caught' \in {0, 1} /\ caught' \in 0 .. Cardinality(Thread)
    BY <1>13, <2>3, JoinersCounted, FS_Subset, FS_CardinalityType DEF JoinRelocks, Decide
  <2>6. TypeOK'
    BY <1>13, <2>2, <2>5 DEF JoinRelocks, kVars, TypeOK
  <2>7. \A u \in Thread \ {t} : pc'[u] = pc[u]
    BY <1>13 DEF JoinRelocks, Decide, Goto, Labels
  <2>8. CASE detached = "EXITED" /\ num_joiners' = 0
    <3>1. pc'[t] = "signal_death" /\ caught' = 1
      <4>1. num_joiners' = num_joiners - 1
        BY <1>13 DEF JoinRelocks, Decide
      <4>2. Goto(t, "signal_death") /\ caught' = caught + 1
        BY <1>13, <2>8, <4>1 DEF JoinRelocks, Decide
      <4> QED BY <2>3, <4>2 DEF Goto, Labels
    <3>2. ~ended
      BY <2>3, <2>8 DEF Catches
    <3> QED BY <1>13, <2>2, <2>3, <2>4, <2>6, <2>7, <2>8, <3>1, <3>2 DEF JoinRelocks, kVars,
               Catches
  <2>9. CASE ~(detached = "EXITED" /\ num_joiners' = 0)
    <3>1. pc'[t] = "out" /\ caught' = caught
      BY <1>13, <2>9 DEF JoinRelocks, Decide, Goto, Labels
    <3> QED BY <1>13, <2>2, <2>3, <2>4, <2>6, <2>7, <3>1 DEF JoinRelocks, kVars, Catches
  <2> QED BY <2>8, <2>9
<1>14. ASSUME NEW t \in Thread, JoinSignals(t) PROVE CatchInv'
  <2>1. caught = 1 /\ ~ended /\ value["death"] = 0
    BY <1>14 DEF JoinSignals, Catches, TypeOK, Semaphores
  <2>2. Labels'
    BY <1>14 DEF JoinSignals, Goto, Labels
  <2>3. /\ \A u \in Thread \ {t} : pc'[u] = pc[u]
        /\ pc[t] = "signal_death" /\ pc'[t] = "out"
    BY <1>14 DEF JoinSignals, Goto, Labels
  <2>4. Joiners' = Joiners
    BY <2>3 DEF Joiners
  <2>5. TypeOK' /\ value'["joiners"] = 0
    <3>1. /\ value \in [Semaphores -> 0 .. 1] /\ value["joiners"] = 0
          /\ "joiners" \in Semaphores /\ "death" \in Semaphores
      BY DEF TypeOK, Catches, Semaphores
    <3>2. CASE K!Store("death")
      <4>1. value' \in [Semaphores -> 0 .. 1] /\ value'["joiners"] = 0
        BY <2>1, <3>1, <3>2 DEF K!Store
      <4> QED BY <1>14, <3>2, <4>1 DEF JoinSignals, K!Store, TypeOK
    <3>3. CASE K!GrantOne("death")
      BY <1>14, <3>1, <3>3 DEF JoinSignals, K!GrantOne, K!Grant, TypeOK
    <3>4. CASE UNCHANGED kVars
      BY <1>14, <3>1, <3>4 DEF JoinSignals, kVars, TypeOK
    <3> QED BY <1>14, <3>2, <3>3, <3>4 DEF JoinSignals, SemaphoreSignal
  <2>6. Catches'
    BY <1>14, <2>1, <2>3, <2>4, <2>5 DEF JoinSignals, Catches
  <2> QED BY <2>2, <2>5, <2>6
<1>15. ASSUME NEW t \in Thread, Detach(t) PROVE CatchInv'
  <2>1. Labels'
    BY <1>15 DEF Detach, Goto, Labels
  <2>2. TypeOK'
    BY <1>15 DEF Detach, kVars, TypeOK
  <2>3. /\ \A u \in Thread \ {t} : pc'[u] = pc[u]
        /\ pc[t] = "out" /\ pc'[t] \in Detaching
    BY <1>15 DEF Detach, Goto, Labels
  <2>4. Joiners' = Joiners
    BY <2>3 DEF Joiners
  <2>5. caught = 0 /\ ~ended
    BY <1>15 DEF Detach, MayName, Catches
  <2>6. Catches'
    BY <1>15, <2>3, <2>4, <2>5 DEF Detach, kVars, Catches
  <2> QED BY <2>1, <2>2, <2>6
<1>16. ASSUME NEW t \in Thread, DetachDestroys(t) PROVE CatchInv'
  <2>1. Kernel
    BY <1>16, KernelStep DEF DetachDestroys, Everyone, Semaphores
  <2>2. detached = "DETACHED" /\ caught = 0
    BY <1>16 DEF DetachDestroys, Catches
  <2>3. Labels'
    BY <1>16 DEF DetachDestroys, Goto, Labels
  <2>4. /\ \A u \in Thread \ {t} : pc'[u] = pc[u]
        /\ pc[t] \in Detaching /\ pc'[t] \in Detaching \union {"out"}
    BY <1>16 DEF DetachDestroys, Goto, Labels
  <2>5. Joiners' = Joiners
    BY <2>4 DEF Joiners
  <2>6. TypeOK'
    BY <1>16, <2>1 DEF DetachDestroys, TypeOK, Kernel
  <2>7. ended => ended'
    BY <1>16 DEF DetachDestroys
  <2>8. Catches'
    BY <1>16, <2>1, <2>2, <2>4, <2>5, <2>7 DEF DetachDestroys, Kernel, Catches
  <2> QED BY <2>3, <2>6, <2>8
<1>17. CASE UNCHANGED vars
  BY <1>17, QuietStep, KernelStep DEF vars, TypeOK, Labels, Everyone, Semaphores
<1> QED
  BY <1>1, <1>2, <1>3, <1>4, <1>5, <1>6, <1>7, <1>8, <1>9, <1>10, <1>11, <1>12, <1>13, <1>14,
     <1>15, <1>16, <1>17 DEF Next, Choice, TargetStep, CallerStep

\* The target gets past its wait for `death' only when a join has signalled it.
LEMMA LeavesStep ==
  ASSUME ~Overlap, "death" \notin Interrupts, CatchInv, Leaves, [Next]_vars
  PROVE  Leaves'
<1>0. /\ Target \in Everyone /\ Thread \subseteq Everyone /\ Target \notin Thread
      /\ "joiners" \in Semaphores /\ "death" \in Semaphores
      /\ pc \in [Everyone -> CallerLabel \union ExitLabel]
      /\ waiters \in [Semaphores -> SUBSET Everyone]
      /\ value \in [Semaphores -> 0 .. 1]
  BY PthreadJoinAssumption DEF CatchInv, TypeOK, Labels, Everyone, Semaphores
<1> USE <1>0, PthreadJoinAssumption DEF CatchInv, Leaves, Exiting
<1>1. CASE Exit
  <2>1. detached \in {"JOINABLE", "DETACHED"} /\ memory = "live"
    BY <1>1 DEF Exit, TypeOK
  <2>2. pc'[Target] \in {"signal_joiners", "wait_death", "reap"}
    BY <1>1 DEF Exit, Goto
  <2> QED BY <1>1, <2>1, <2>2 DEF Exit, Goto, kVars
<1>2. CASE ExitSignals
  BY <1>2 DEF ExitSignals, SemaphoreSignalAll, K!GrantAll, K!Grant, Goto, kVars
<1>3. CASE ExitWaits
  <2>1. detached = "EXITED" /\ "death" \in alive /\ pc'[Target] = "death_blocked"
    BY <1>3 DEF ExitWaits, Goto
  <2>2. value["death"] > 0 => ended
    BY DEF Catches
  <2>3. ended \/ Target \in waiters'["death"]
    BY <1>3, <2>1, <2>2 DEF ExitWaits, SemaphoreWait, K!Take, K!Enqueue
  <2>4. alive' = alive /\ UNCHANGED <<detached, memory, ended>>
    BY <1>3 DEF ExitWaits, SemaphoreWait, K!Take, K!Enqueue, kVars
  <2> QED BY <1>3, <2>1, <2>3, <2>4 DEF ExitWaits
<1>4. CASE ExitReleased
  BY <1>4 DEF ExitReleased, Resume, K!Leave, Goto
<1>5. CASE ExitDestroys
  BY <1>5 DEF ExitDestroys, SemaphoreDestroy, K!Destroy, Goto, kVars
<1>6. CASE BecomeAvailable
  BY <1>6 DEF BecomeAvailable, Goto, kVars
<1>7. CASE ReapThreads
  BY <1>7 DEF ReapThreads, kVars
<1>8. CASE WaitInterrupted
  BY <1>8 DEF WaitInterrupted, K!Cancel
<1>9. ASSUME NEW t \in Thread, Join(t) PROVE Leaves'
  BY <1>9 DEF Join, Decide, Goto, kVars
<1>10. ASSUME NEW t \in Thread, Detach(t) PROVE Leaves'
  BY <1>10 DEF Detach, MayName, Goto, kVars
<1>11. ASSUME NEW t \in Thread, JoinWaits(t) PROVE Leaves'
  BY <1>11 DEF JoinWaits, SemaphoreWait, K!Take, K!Enqueue, Goto, kVars
<1>12. ASSUME NEW t \in Thread, JoinResumes(t) PROVE Leaves'
  BY <1>12 DEF JoinResumes, Resume, K!Leave, Goto
<1>13. ASSUME NEW t \in Thread, JoinRelocks(t) PROVE Leaves'
  BY <1>13 DEF JoinRelocks, Decide, Goto, kVars
<1>14. ASSUME NEW t \in Thread, JoinSignals(t) PROVE Leaves'
  BY <1>14 DEF JoinSignals, SemaphoreSignal, K!Store, K!GrantOne, K!Grant, Goto, kVars
<1>15. ASSUME NEW t \in Thread, DetachSignals(t) PROVE Leaves'
  BY <1>15 DEF DetachSignals, SemaphoreSignalAll, K!GrantAll, K!Grant, Goto, kVars
<1>16. ASSUME NEW t \in Thread, DetachDestroys(t) PROVE Leaves'
  <2>1. detached = "DETACHED" /\ detached' = detached
    BY <1>16 DEF DetachDestroys, Catches, Detaching
  <2>2. pc'[Target] = pc[Target] /\ memory' = memory
    BY <1>16 DEF DetachDestroys, Goto
  <2> QED BY <2>1, <2>2
<1>17. CASE UNCHANGED vars
  BY <1>17 DEF vars, kVars
<1> QED
  BY <1>1, <1>2, <1>3, <1>4, <1>5, <1>6, <1>7, <1>8, <1>9, <1>10, <1>11, <1>12, <1>13, <1>14,
     <1>15, <1>16, <1>17 DEF Next, Choice, TargetStep, CallerStep

-----------------------------------------------------------------------------
(* The theorems                                                            *)

\* The inductive invariant of the exit value.
THEOREM CatchInvariant ==
  ASSUME ~Overlap
  PROVE  Spec => []CatchInv
<1>1. Init => CatchInv
  <2> SUFFICES ASSUME Init PROVE CatchInv
    OBVIOUS
  <2>1. Joiners = {}
    BY PthreadJoinAssumption DEF Init, Joiners, Everyone
  <2>2. Cardinality(Joiners) = 0 /\ Cardinality(Thread) \in Nat
    BY <2>1, FS_EmptySet, FS_CardinalityType, PthreadJoinAssumption
  <2>3. TypeOK
    BY <2>2 DEF Init, TypeOK, Semaphores
  <2>4. Labels
    BY PthreadJoinAssumption DEF Init, Labels, Everyone, CallerLabel, ExitLabel
  <2>5. Catches
    BY <2>1, <2>2, PthreadJoinAssumption DEF Init, Catches, Everyone, Semaphores, Detaching
  <2> QED BY <2>3, <2>4, <2>5 DEF CatchInv
<1>2. CatchInv /\ [Next]_vars => CatchInv'
  BY CatchStep
<1> QED BY <1>1, <1>2, PTL DEF Spec

\* The exit value of a thread goes to one join, of those that are under way
\* when it exits or of one that comes later, provided that no join starts
\* while the joins of an exited thread are still under way.
THEOREM ValueCaughtOnce ==
  ASSUME ~Overlap
  PROVE  Spec => []OneCatcher
<1>1. CatchInv => OneCatcher
  BY DEF CatchInv, Catches, Joiners, OneCatcher
<1> QED BY <1>1, CatchInvariant, PTL

\* The structure of a thread that was not detached goes back only after a join
\* has returned its value and no other is under way, provided that no UNIX
\* signal ends the wait for `death' in pthread_exit.
THEOREM FreedAfterJoin ==
  ASSUME ~Overlap, "death" \notin Interrupts
  PROVE  Spec => []FreedIsUnused
<1>1. Init => Leaves
  BY PthreadJoinAssumption DEF Init, Leaves, Exiting, Everyone, Semaphores
<1>2. CatchInv /\ Leaves /\ [Next]_vars => Leaves'
  BY LeavesStep
<1>3. CatchInv /\ Leaves => FreedIsUnused
  BY DEF CatchInv, Catches, Leaves, Exiting, FreedIsUnused, InJoin, Joining, Joiners
<1> QED BY <1>1, <1>2, <1>3, CatchInvariant, PTL DEF Spec
=============================================================================
