-------------------------- MODULE SemaphoreContract --------------------------
(***************************************************************************)
(* What a Mach semaphore promises, without locks, queue order, reference   *)
(* counts or the count that goes to -1: a value, a set of waiters, who was *)
(* granted and whose signal succeeded.  A successful signal is handed to   *)
(* one waiter or, if there is none, stored: it is never lost.  A destroyed *)
(* semaphore has neither value nor waiters.                                *)
(***************************************************************************)
EXTENDS Naturals

CONSTANTS Thread, Sem

VARIABLES value,     \* stored posts of each semaphore
          waiters,   \* threads committed to waiting on it
          alive,     \* semaphores that have not been destroyed
          granted,   \* threads whose current operation consumed a post
          posted     \* threads whose current operation made one

vars == <<value, waiters, alive, granted, posted>>

Init ==
  /\ value \in [Sem -> Nat]
  /\ waiters = [s \in Sem |-> {}]
  /\ alive = Sem
  /\ granted = {}
  /\ posted = {}

(* The effects, apart from `posted'                                        *)

\* A new semaphore with any value
Create(s) ==
  /\ s \notin alive
  /\ alive' = alive \union {s}
  /\ value' \in [Sem -> Nat]
  /\ \A r \in Sem \ {s} : value'[r] = value[r]
  /\ UNCHANGED <<waiters, granted>>

\* A wait that finds a stored post
Take(t, s) ==
  /\ value[s] > 0
  /\ value' = [value EXCEPT ![s] = @ - 1]
  /\ granted' = granted \union {t}
  /\ UNCHANGED <<waiters, alive>>

\* A wait that does not
Enqueue(t, s) ==
  /\ s \in alive
  /\ value[s] = 0
  /\ waiters' = [waiters EXCEPT ![s] = @ \union {t}]
  /\ UNCHANGED <<value, alive, granted>>

\* A post stored for later
Store(s) ==
  /\ s \in alive
  /\ waiters[s] = {}
  /\ value' = [value EXCEPT ![s] = @ + 1]
  /\ UNCHANGED <<waiters, alive, granted>>

\* A post handed to some of the waiters
Grant(s, G) ==
  /\ waiters' = [waiters EXCEPT ![s] = @ \ G]
  /\ granted' = granted \union G
  /\ UNCHANGED <<value, alive>>

GrantOne(s) == \E t \in waiters[s] : Grant(s, {t})
GrantAll(s) == waiters[s] # {} /\ Grant(s, waiters[s])

\* A waiter gives up: aborted, timed out, or its companion semaphore is dead
Cancel(t, s) ==
  /\ t \in waiters[s]
  /\ waiters' = [waiters EXCEPT ![s] = @ \ {t}]
  /\ UNCHANGED <<value, alive, granted>>

Destroy(s) ==
  /\ s \in alive
  /\ alive' = alive \ {s}
  /\ value' = [value EXCEPT ![s] = 0]
  /\ waiters' = [waiters EXCEPT ![s] = {}]
  /\ UNCHANGED granted

\* A thread leaves its operation: what it consumed is no longer its concern
Leave(t) ==
  /\ granted' = granted \ {t}
  /\ UNCHANGED <<value, waiters, alive>>

-----------------------------------------------------------------------------
(* The operations                                                          *)

\* semaphore_signal succeeds
Signal(t, s) ==
  /\ posted' = posted \union {t}
  /\ Store(s) \/ GrantOne(s)

\* The signals that are not stored, waits, creation and destruction
Other ==
  /\ posted' = posted
  /\ \/ \E s \in Sem : Create(s) \/ GrantOne(s) \/ GrantAll(s) \/ Destroy(s)
     \/ \E t \in Thread, s \in Sem : Take(t, s) \/ Enqueue(t, s) \/ Cancel(t, s)

\* The operation returns and the thread may start another
Return(t) ==
  /\ posted' = posted \ {t}
  /\ Leave(t)

Next ==
  \/ Other
  \/ \E t \in Thread : Return(t) \/ \E s \in Sem : Signal(t, s)

Spec == Init /\ [][Next]_vars
=============================================================================
