-------------------------------- MODULE RWLock --------------------------------
(***************************************************************************)
(* The kernel's complex (read/write) locks: lock_init, lock_write,         *)
(* lock_read, lock_read_to_write, lock_write_to_read and lock_done of      *)
(* xnu-123.5/osfmk/kern/lock.c.                                            *)
(*                                                                         *)
(* An action is one hold of the lock's interlock.  A thread that finds the *)
(* lock busy spins with the interlock free and tests again, and on a lock  *)
(* with can_sleep then goes to sleep on the lock's address, uninterruptibly*)
(* (thread_sleep_simple_lock(..., FALSE)): assert_wait happens before the  *)
(* interlock is dropped.  The releasing routines clear `waiting' under the *)
(* interlock and call thread_wakeup after dropping it, so that call is a   *)
(* step of its own.                                                        *)
(***************************************************************************)
EXTENDS Naturals, FiniteSets

CONSTANTS
  Thread,           \* the threads that use the lock
  ReadCountSize     \* 2^16: read_count is a 16-bit field

ASSUME RWLockAssumption ==
  /\ IsFiniteSet(Thread)
  /\ ReadCountSize \in Nat
  /\ Cardinality(Thread) < ReadCountSize

VARIABLES
  want_write,       \* somebody is writing or waiting for the readers to leave
  want_upgrade,     \* the same for a reader that upgrades
  read_count,       \* accepted readers
  waiting,          \* somebody may be asleep on the lock
  can_sleep,        \* waiters sleep, or only spin
  pc,               \* where each thread is
  asleep,           \* threads asleep on the lock's address
  do_wakeup         \* threads that still have to call thread_wakeup

lockVars == <<want_write, want_upgrade, read_count, waiting>>
vars == <<lockVars, can_sleep, pc, asleep, do_wakeup>>

(* "want" waits for want_write, "drain" has it and waits for readers and   *)
(* upgrades, "read" waits for writers, "upgrade" for the other readers;    *)
(* "writer", "reader" and "upgraded" hold the lock.                        *)
PC == {"out", "want", "drain", "writer", "read", "reader", "upgrade", "upgraded"}

\* lock_init, by a caller that chooses can_sleep
Init ==
  /\ want_write = FALSE
  /\ want_upgrade = FALSE
  /\ read_count = 0
  /\ waiting = FALSE
  /\ can_sleep \in BOOLEAN
  /\ pc = [t \in Thread |-> "out"]
  /\ asleep = {}
  /\ do_wakeup = {}

At(t, labels) == pc[t] \in labels /\ t \notin asleep /\ t \notin do_wakeup
Goto(t, label) == pc' = [pc EXCEPT ![t] = label]

\* The conditions of the four while loops
ReadersOrUpgrade == read_count # 0 \/ want_upgrade
WriterOrUpgrade == want_write \/ want_upgrade
Blocked(t) ==
  \/ pc[t] = "want" /\ want_write
  \/ pc[t] = "drain" /\ ReadersOrUpgrade
  \/ pc[t] = "read" /\ WriterOrUpgrade
  \/ pc[t] = "upgrade" /\ read_count # 0

-----------------------------------------------------------------------------
\* The bodies of the loops: spin with the interlock free, then sleep if the
\* lock is still busy
Sleep(t) ==
  /\ can_sleep
  /\ t \notin asleep /\ t \notin do_wakeup
  /\ Blocked(t)
  /\ waiting' = TRUE
  /\ asleep' = asleep \union {t}
  /\ UNCHANGED <<want_write, want_upgrade, read_count, can_sleep, pc, do_wakeup>>

\* lock_write: take want_write, then wait for readers and upgrades.  A thread
\* that finds want_write taken has to wait for it.
LockWrite(t) ==
  /\ \/ At(t, {"out"}) /\ want_write
        /\ Goto(t, "want")
        /\ UNCHANGED want_write
     \/ At(t, {"out", "want"}) /\ ~want_write
        /\ want_write' = TRUE
        /\ Goto(t, IF ReadersOrUpgrade THEN "drain" ELSE "writer")
  /\ UNCHANGED <<want_upgrade, read_count, waiting, can_sleep, asleep, do_wakeup>>

\* Mutant: only waits for the readers
DrainedReaders(t) ==
  /\ At(t, {"drain"}) /\ read_count = 0
  /\ Goto(t, "writer")
  /\ UNCHANGED <<lockVars, can_sleep, asleep, do_wakeup>>

\* The second loop of lock_write ends
Drained(t) ==
  /\ At(t, {"drain"}) /\ ~ReadersOrUpgrade
  /\ Goto(t, "writer")
  /\ UNCHANGED <<lockVars, can_sleep, asleep, do_wakeup>>

\* Mutant: readers pass a writer that is still waiting for readers
LockReadOvertakes(t) ==
  /\ \/ At(t, {"out"}) /\ WriterOrUpgrade
        /\ Goto(t, "read")
        /\ UNCHANGED read_count
     \/ At(t, {"out", "read"}) /\ (~WriterOrUpgrade \/ read_count # 0)
        /\ read_count' = (read_count + 1) % ReadCountSize
        /\ Goto(t, "reader")
  /\ UNCHANGED <<want_write, want_upgrade, waiting, can_sleep, asleep, do_wakeup>>

\* lock_read
LockRead(t) ==
  /\ \/ At(t, {"out"}) /\ WriterOrUpgrade
        /\ Goto(t, "read")
        /\ UNCHANGED read_count
     \/ At(t, {"out", "read"}) /\ ~WriterOrUpgrade
        /\ read_count' = (read_count + 1) % ReadCountSize
        /\ Goto(t, "reader")
  /\ UNCHANGED <<want_write, want_upgrade, waiting, can_sleep, asleep, do_wakeup>>

-----------------------------------------------------------------------------
\* Clear `waiting' and remember to call thread_wakeup, if it is set
WakeIf(t, cond) ==
  /\ waiting' = (waiting /\ ~cond)
  /\ do_wakeup' = IF waiting /\ cond THEN do_wakeup \union {t} ELSE do_wakeup

\* Mutant: the failed upgrade does not wake the upgrade it lost to
UpgradeFailsSilently(t) ==
  /\ At(t, {"reader"})
  /\ read_count' = (read_count + ReadCountSize - 1) % ReadCountSize
  /\ \/ /\ want_upgrade
        /\ Goto(t, "out")
        /\ UNCHANGED want_upgrade
     \/ /\ ~want_upgrade
        /\ want_upgrade' = TRUE
        /\ Goto(t, IF read_count' # 0 THEN "upgrade" ELSE "upgraded")
  /\ UNCHANGED <<want_write, waiting, do_wakeup, can_sleep, asleep>>

\* lock_read_to_write.  The read lock is given up in any case; if another
\* reader is upgrading the call fails and no lock is held.
LockReadToWrite(t) ==
  /\ At(t, {"reader"})
  /\ read_count' = (read_count + ReadCountSize - 1) % ReadCountSize
  /\ \/ /\ want_upgrade
        /\ WakeIf(t, read_count' = 0)
        /\ Goto(t, "out")
        /\ UNCHANGED want_upgrade
     \/ /\ ~want_upgrade
        /\ want_upgrade' = TRUE
        /\ Goto(t, IF read_count' # 0 THEN "upgrade" ELSE "upgraded")
        /\ UNCHANGED <<waiting, do_wakeup>>
  /\ UNCHANGED <<want_write, can_sleep, asleep>>

\* The loop of lock_read_to_write ends
Upgraded(t) ==
  /\ At(t, {"upgrade"}) /\ read_count = 0
  /\ Goto(t, "upgraded")
  /\ UNCHANGED <<lockVars, can_sleep, asleep, do_wakeup>>

\* lock_write_to_read
LockWriteToRead(t) ==
  /\ At(t, {"writer", "upgraded"})
  /\ read_count' = (read_count + 1) % ReadCountSize
  /\ want_upgrade' = FALSE
  /\ want_write' = (want_write /\ want_upgrade)
  /\ WakeIf(t, TRUE)
  /\ Goto(t, "reader")
  /\ UNCHANGED <<can_sleep, asleep>>

\* lock_done.  What is released is read off the lock, not the caller.
LockDone(t) ==
  /\ At(t, {"reader", "writer", "upgraded"})
  /\ \/ /\ read_count # 0
        /\ read_count' = read_count - 1
        /\ UNCHANGED <<want_upgrade, want_write>>
     \/ /\ read_count = 0 /\ want_upgrade
        /\ want_upgrade' = FALSE
        /\ UNCHANGED <<read_count, want_write>>
     \/ /\ read_count = 0 /\ ~want_upgrade
        /\ want_write' = FALSE
        /\ UNCHANGED <<read_count, want_upgrade>>
  /\ WakeIf(t, read_count' = 0)
  /\ Goto(t, "out")
  /\ UNCHANGED <<can_sleep, asleep>>

\* thread_wakeup, after the interlock is released
Wakeup(t) ==
  /\ t \in do_wakeup
  /\ asleep' = {}
  /\ do_wakeup' = do_wakeup \ {t}
  /\ UNCHANGED <<lockVars, can_sleep, pc>>

Next ==
  \E t \in Thread :
    \/ Sleep(t)
    \/ LockWrite(t) \/ Drained(t)
    \/ LockRead(t)
    \/ LockReadToWrite(t) \/ Upgraded(t)
    \/ LockWriteToRead(t)
    \/ LockDone(t)
    \/ Wakeup(t)

Spec == Init /\ [][Next]_vars

\* A woken or spinning thread runs, a wake-up in progress is finished, and a
\* thread that holds the lock again and again calls lock_done at some time.
Fairness ==
  \A t \in Thread :
    /\ WF_vars(Drained(t) \/ Upgraded(t))
    /\ WF_vars(Wakeup(t))
    /\ SF_vars(LockDone(t))

FairSpec == Spec /\ Fairness

-----------------------------------------------------------------------------
InState(label) == {t \in Thread : pc[t] = label}
Readers == InState("reader")
Writers == InState("drain") \union InState("writer")
Upgraders == InState("upgrade") \union InState("upgraded")

TypeOK ==
  /\ want_write \in BOOLEAN
  /\ want_upgrade \in BOOLEAN
  /\ read_count \in 0 .. ReadCountSize - 1
  /\ waiting \in BOOLEAN
  /\ can_sleep \in BOOLEAN
  /\ pc \in [Thread -> PC]
  /\ asleep \subseteq Thread
  /\ do_wakeup \subseteq Thread

\* The three fields say who is inside: read_count is the number of accepted
\* readers, and each flag belongs to one thread.
FieldsExact ==
  /\ read_count = Cardinality(Readers)
  /\ \A t, u \in Writers : t = u
  /\ \A t, u \in Upgraders : t = u
  /\ want_write <=> Writers # {}
  /\ want_upgrade <=> Upgraders # {}

\* A thread that lock_write or lock_read_to_write has let in is alone: no
\* reader and no other writer holds the lock, although a failed, pending or
\* finished upgrade and a pending writer set flags at the same time.
Exclusion ==
  /\ InState("writer") # {} => Readers = {} /\ Upgraders = {}
  /\ InState("upgraded") # {} => Readers = {} /\ InState("writer") = {}

\* All three, for lock_write, lock_read, the two conversions and lock_done in
\* any order: the fields are exact, and that is what keeps writers alone.
LockInv == TypeOK /\ FieldsExact /\ Exclusion

\* No wake-up is lost between clearing `waiting' and thread_wakeup: a sleeper
\* is still blocked and announced, or a thread_wakeup is on its way.  This is
\* why lock_done may skip the wake-up "if the read-count is non-zero".
SleepersSeen ==
  do_wakeup = {} => \A t \in asleep : waiting /\ Blocked(t)

\* A writer that has want_write, and a reader that upgrades, get the lock:
\* readers that come later are held off, and a second upgrade gives its read
\* lock up rather than wait for the first.
WriterAdmitted ==
  \A t \in Thread :
    /\ pc[t] = "drain" ~> pc[t] = "writer"
    /\ pc[t] = "upgrade" ~> pc[t] = "upgraded"
=============================================================================
