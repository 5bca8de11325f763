----------------------------- MODULE MCWaitTimer -----------------------------
(* Two processors let one expiration be in flight while the same timer is  *)
(* set and expires again on the other; four instants (0..MaxTime) leave    *)
(* room for deadlines in the past, now and in the future.                  *)
EXTENDS WaitTimer

CONSTANTS c1, c2
MCCPU == {c1, c2}
=============================================================================
