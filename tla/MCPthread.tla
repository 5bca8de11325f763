------------------------------ MODULE MCPthread ------------------------------
(* Two semaphores, as many as one mutex and one condition can use at once.*)
EXTENDS PthreadMutexCond, TLC

CONSTANTS t1, t2, t3, t4, s1, s2

MCPair == {t1, t2}
MCThree == {t1, t2, t3}
MCFour == {t1, t2, t3, t4}
MCSem == {s1, s2}
MCSymmetry == Permutations(Thread) \union Permutations(MCSem)
=============================================================================
