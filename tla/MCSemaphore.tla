----------------------------- MODULE MCSemaphore -----------------------------
(* Two threads and one aborting context, three threads where two wait and  *)
(* one signals; two semaphores where one is waited for and another is      *)
(* signalled by the same call.                                             *)
EXTENDS Semaphore, TLC

CONSTANTS t1, t2, t3, k1, s1, s2

MCPair == {t1, t2}
MCThree == {t1, t2, t3}
ThreadSymmetry == Permutations(Thread)
=============================================================================
