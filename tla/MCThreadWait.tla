---------------------------- MODULE MCThreadWait ----------------------------
(* Two events in one hash bucket, so that a thread can leave a wait and be *)
(* found again on the same queue, waiting for something else.  Three       *)
(* threads for the order of a queue, two where liveness is checked.        *)
EXTENDS ThreadWait

CONSTANTS t1, t2, t3, k1, e1, e2, q1

MCThread == {t1, t2, t3}
MCPair == {t1, t2}
MCEvent == {e1, e2}
MCHash == [e \in MCEvent |-> q1]
MCPrivileged == {t2}
=============================================================================
