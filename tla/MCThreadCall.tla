----------------------------- MODULE MCThreadCall -----------------------------
(* An external entry that may never return, an internal entry, three callout *)
(* threads and two processors.                                              *)
EXTENDS ThreadCall

CONSTANTS e1, i1, x1, x2, x3, cpu0, cpu1

MCCalls == {e1, i1}
MCThreads == {x1, x2, x3}
=============================================================================
