------------------------------- MODULE MCRWLock -------------------------------
(* Four threads: two writers, a reader that upgrades and another reader.    *)
EXTENDS RWLock

CONSTANTS t1, t2, t3, t4

MCFour == {t1, t2, t3, t4}
=============================================================================
