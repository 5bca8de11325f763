------------------------------ MODULE MCLockSet ------------------------------
(* Three threads, one aborting context, all operations: an owner that      *)
(* releases or hands off, one that waits and one that interferes.          *)
EXTENDS LockSet, TLC

CONSTANTS q1, k1

\* What no guard and no property reads: how a wait that is over was asserted
\* and, once the thread has gone on, how it ended
MCView ==
  <<wait_queue, wait_event, ahead, waiting, removing, ls_lock, ulock_lock, active, dropped,
    ulockVars, pc, op, heir, mine,
    [t \in Thread |-> IF pc[t] \in {"acquire_blocked", "handoff_blocked",
                                    "accept_blocked"}
                        THEN wait_result[t] ELSE "NONE"]>>

\* The threads are alike: the properties are invariants that name none of them
ThreadSymmetry == Permutations(Thread)
=============================================================================
