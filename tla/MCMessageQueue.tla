---------------------------- MODULE MCMessageQueue ----------------------------
(* Three threads, of which one sends, one receives and one does both: two   *)
(* senders can compete for the last slot and two receivers for a message.   *)
EXTENDS MessageQueue, TLC

CONSTANTS t1, t2, t3, p1, k1, m1, m2, m3

MCThreads == {t1, t2, t3}
MCSenders == {t1, t2}
MCReceivers == {t2, t3}
MCQueues == {p1, PSet}
MCMsg == {m1, m2, m3}

\* The messages that fit are interchangeable
MessageSymmetry == Permutations(Msg \ Big)

\* What no guard and no property reads: the result and the mode of a wait
\* that is over, and the ports seen by a search that is over
MCView ==
  <<wait_queue, wait_event, ahead, waiting, removing, imq_lock, queueVars,
    adminVars, free, pc, dest, kmsg,
    [t \in Thread |-> IF pc[t] \in {"send_block", "rcv_block"} THEN wait_result[t]
                                                               ELSE "NONE"],
    IF \E t \in Thread : pc[t] = "scan" THEN scanned ELSE {}>>
=============================================================================
