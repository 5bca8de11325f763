---------------------------- MODULE MCPthreadJoin ----------------------------
(* Four threads that join or detach one target                             *)
EXTENDS PthreadJoin

MCOps == {"join", "detach"}
MCInterrupts == {"joiners"}
=============================================================================
