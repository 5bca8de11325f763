----------------------------- MODULE RWLockProofs -----------------------------
(***************************************************************************)
(* For every finite set of threads smaller than the range of read_count,   *)
(* the fields of the lock say exactly who is inside, a writer is alone,    *)
(* and no sleeper is forgotten.                                            *)
(***************************************************************************)
EXTENDS RWLock, FiniteSetTheorems, TLAPS

\* Sets of threads are finite and fit in read_count; one thread entering or
\* leaving changes their size by one.
LEMMA ThreadCard ==
  ASSUME NEW S \in SUBSET Thread, NEW t \in Thread
  PROVE  /\ Cardinality(S) \in Nat
         /\ Cardinality(S) < ReadCountSize
         /\ t \notin S => Cardinality(S \union {t}) = Cardinality(S) + 1
         /\ t \in S => Cardinality(S \ {t}) = Cardinality(S) - 1
         /\ Cardinality(S) = 0 <=> S = {}
<1>1. IsFiniteSet(S) /\ Cardinality(S) <= Cardinality(Thread)
  BY RWLockAssumption, FS_Subset
<1>2. Cardinality(S) \in Nat /\ Cardinality(Thread) \in Nat
  BY <1>1, RWLockAssumption, FS_CardinalityType
<1>3. Cardinality(S) < ReadCountSize
  BY <1>1, <1>2, RWLockAssumption
<1>4. t \notin S => Cardinality(S \union {t}) = Cardinality(S) + 1
  BY <1>1, FS_AddElement
<1>5. t \in S => Cardinality(S \ {t}) = Cardinality(S) - 1
  BY <1>1, FS_RemoveElement
<1>6. Cardinality(S) = 0 <=> S = {}
  BY <1>1, FS_EmptySet
<1> QED BY <1>2, <1>3, <1>4, <1>5, <1>6

\* The 16-bit arithmetic does not wrap while the count stays in range.
LEMMA NoWrap ==
  ASSUME NEW n \in Nat, NEW x \in 0 .. n - 1
  PROVE  /\ x + 1 < n => (x + 1) % n = x + 1
         /\ x > 0 => (x + n - 1) % n = x - 1
<1>1. x + 1 < n => (x + 1) % n = x + 1
  OBVIOUS
<1>2. x > 0 => (x + n - 1) % n = x - 1
  OBVIOUS
<1> QED BY <1>1, <1>2

-----------------------------------------------------------------------------
\* The lock lock_init leaves is free and nobody sleeps on it.
LEMMA InitInv == Init => LockInv /\ SleepersSeen
<1> SUFFICES ASSUME Init PROVE LockInv /\ SleepersSeen
  OBVIOUS
<1> USE DEF Init
<1>1. Cardinality({}) = 0
  BY FS_EmptySet
<1>2. Readers = {} /\ Writers = {} /\ Upgraders = {}
  BY DEF Readers, Writers, Upgraders, InState
<1>3. InState("writer") = {} /\ InState("upgraded") = {}
  BY DEF InState
<1>4. 0 \in 0 .. ReadCountSize - 1
  BY ThreadCard, RWLockAssumption, FS_EmptySet, FS_CardinalityType
<1>5. TypeOK
  BY <1>4 DEF TypeOK, PC
<1>6. FieldsExact
  BY <1>1, <1>2 DEF FieldsExact
<1>7. Exclusion /\ SleepersSeen
  BY <1>3 DEF Exclusion, SleepersSeen
<1> QED BY <1>5, <1>6, <1>7 DEF LockInv

\* What a thread's position says of the sets and of the size of Readers
Known(t) ==
  /\ InState("writer") \subseteq Writers
  /\ InState("upgraded") \subseteq Upgraders
  /\ t \in Readers <=> pc[t] = "reader"
  /\ t \in Writers <=> pc[t] \in {"drain", "writer"}
  /\ t \in Upgraders <=> pc[t] \in {"upgrade", "upgraded"}
  /\ t \in InState("writer") <=> pc[t] = "writer"
  /\ t \in InState("upgraded") <=> pc[t] = "upgraded"
  /\ Cardinality(Readers) \in Nat
  /\ Cardinality(Readers) = 0 <=> Readers = {}
  /\ t \notin Readers => Cardinality(Readers \union {t}) = Cardinality(Readers) + 1
  /\ t \in Readers => Cardinality(Readers \ {t}) = Cardinality(Readers) - 1
  /\ Cardinality(Readers \union {t}) < ReadCountSize

\* Known follows from the definitions of the sets and from ThreadCard.
LEMMA KnownHolds == ASSUME NEW t \in Thread PROVE Known(t)
<1>1. Readers \in SUBSET Thread /\ Readers \union {t} \in SUBSET Thread
  BY DEF Readers, InState
<1>2. /\ Cardinality(Readers) \in Nat
      /\ Cardinality(Readers) = 0 <=> Readers = {}
      /\ t \notin Readers => Cardinality(Readers \union {t}) = Cardinality(Readers) + 1
      /\ t \in Readers => Cardinality(Readers \ {t}) = Cardinality(Readers) - 1
      /\ Cardinality(Readers \union {t}) < ReadCountSize
  BY <1>1, ThreadCard
<1>3. /\ t \in Readers <=> pc[t] = "reader"
      /\ t \in Writers <=> pc[t] \in {"drain", "writer"}
      /\ t \in Upgraders <=> pc[t] \in {"upgrade", "upgraded"}
      /\ t \in InState("writer") <=> pc[t] = "writer"
      /\ t \in InState("upgraded") <=> pc[t] = "upgraded"
      /\ InState("writer") \subseteq Writers
      /\ InState("upgraded") \subseteq Upgraders
  BY DEF Readers, Writers, Upgraders, InState
<1> QED BY <1>2, <1>3 DEF Known

\* What a step of t to label l makes of the sets
Moved(t, l) ==
  /\ pc' \in [Thread -> PC]
  /\ l # "reader" /\ t \notin Readers => Readers' = Readers
  /\ l # "reader" /\ t \in Readers => Readers' = Readers \ {t}
  /\ l = "reader" => Readers' = Readers \union {t}
  /\ l \notin {"drain", "writer"} /\ t \notin Writers => Writers' = Writers
  /\ l \notin {"drain", "writer"} => Writers' = Writers \ {t}
  /\ l \in {"drain", "writer"} => Writers' = Writers \union {t}
  /\ l \notin {"upgrade", "upgraded"} /\ t \notin Upgraders => Upgraders' = Upgraders
  /\ l \notin {"upgrade", "upgraded"} => Upgraders' = Upgraders \ {t}
  /\ l \in {"upgrade", "upgraded"} => Upgraders' = Upgraders \union {t}
  /\ l # "writer" => InState("writer")' = InState("writer") \ {t}
  /\ l = "writer" => InState("writer")' = InState("writer") \union {t}
  /\ l # "upgraded" => InState("upgraded")' = InState("upgraded") \ {t}
  /\ l = "upgraded" => InState("upgraded")' = InState("upgraded") \union {t}

\* One thread's move changes the sets at that thread only.
LEMMA MovedHolds ==
  ASSUME TypeOK, NEW t \in Thread, NEW l \in PC, Goto(t, l)
  PROVE  Moved(t, l)
<1>1. pc' \in [Thread -> PC] /\ \A u \in Thread : pc'[u] = IF u = t THEN l ELSE pc[u]
  BY DEF TypeOK, Goto
<1>2. /\ l # "writer" => InState("writer")' = InState("writer") \ {t}
      /\ l = "writer" => InState("writer")' = InState("writer") \union {t}
      /\ l # "upgraded" => InState("upgraded")' = InState("upgraded") \ {t}
      /\ l = "upgraded" => InState("upgraded")' = InState("upgraded") \union {t}
  BY <1>1 DEF InState
<1>3. /\ l # "reader" => Readers' = Readers \ {t}
      /\ l = "reader" => Readers' = Readers \union {t}
  BY <1>1 DEF Readers, InState
<1>4. /\ l \notin {"drain", "writer"} => Writers' = Writers \ {t}
      /\ l \in {"drain", "writer"} => Writers' = Writers \union {t}
  BY <1>1 DEF Writers, InState
<1>5. /\ l \notin {"upgrade", "upgraded"} => Upgraders' = Upgraders \ {t}
      /\ l \in {"upgrade", "upgraded"} => Upgraders' = Upgraders \union {t}
  BY <1>1 DEF Upgraders, InState
<1>6. \A S : t \notin S => S \ {t} = S
  OBVIOUS
<1> QED BY <1>1, <1>2, <1>3, <1>4, <1>5, <1>6 DEF Moved

\* Clearing `waiting' and recording the wake-up keep both variables in range.
LEMMA WakeIfType ==
  ASSUME TypeOK, NEW t \in Thread, NEW cond \in BOOLEAN, WakeIf(t, cond)
  PROVE  waiting' \in BOOLEAN /\ do_wakeup' \subseteq Thread
<1>1. waiting' \in BOOLEAN
  BY Zenon DEF WakeIf
<1>2. do_wakeup' \subseteq Thread
  BY DEF WakeIf, TypeOK
<1> QED BY <1>1, <1>2

\* LockInv is inductive: one step per routine of lock.c.
LEMMA LockInvStep == LockInv /\ [Next]_vars => LockInv'
<1> SUFFICES ASSUME LockInv, [Next]_vars PROVE LockInv'
  OBVIOUS
<1> USE DEF LockInv
<1>1. CASE UNCHANGED vars
  <2> USE <1>1 DEF vars, lockVars
  <2>1. TypeOK'
    BY DEF TypeOK
  <2>2. FieldsExact' /\ Exclusion'
    BY DEF FieldsExact, Exclusion, Readers, Writers, Upgraders, InState
  <2> QED BY <2>1, <2>2
<1>2. ASSUME NEW t \in Thread, Sleep(t) \/ Wakeup(t) PROVE LockInv'
  <2> USE <1>2 DEF Sleep, Wakeup, lockVars
  <2>1. TypeOK'
    BY DEF TypeOK
  <2>2. FieldsExact' /\ Exclusion'
    BY DEF FieldsExact, Exclusion, Readers, Writers, Upgraders, InState
  <2> QED BY <2>1, <2>2
<1>3. ASSUME NEW t \in Thread, LockWrite(t) PROVE LockInv'
  <2>1. PICK l \in PC : l \in {"want", "drain", "writer"} /\ Goto(t, l)
    BY <1>3 DEF LockWrite, PC
  <2>2. Known(t) /\ Moved(t, l)
    BY <2>1, KnownHolds, MovedHolds
  <2>3. TypeOK'
    BY <1>3, <2>2 DEF TypeOK, LockWrite, Moved
  <2>4. CASE want_write
    <3>1. l = "want" /\ UNCHANGED want_write /\ t \notin Readers \union Writers \union Upgraders
      BY <1>3, <2>1, <2>2, <2>4 DEF LockWrite, At, Goto, TypeOK, Known
    <3> QED BY <1>3, <2>2, <2>3, <3>1
          DEF FieldsExact, Exclusion, LockWrite, Moved, Known
  <2>5. CASE ~want_write
    <3>1. /\ want_write' = TRUE
          /\ l = IF ReadersOrUpgrade THEN "drain" ELSE "writer"
          /\ t \notin Readers \union Writers \union Upgraders
      BY <1>3, <2>1, <2>2, <2>5 DEF LockWrite, At, Goto, TypeOK, Known
    <3> QED BY <1>3, <2>2, <2>3, <2>5, <3>1
          DEF FieldsExact, Exclusion, LockWrite, Moved, Known, ReadersOrUpgrade
  <2> QED BY <2>4, <2>5
<1>4. ASSUME NEW t \in Thread, Drained(t) PROVE LockInv'
  <2>1. Goto(t, "writer") /\ "writer" \in PC
    BY <1>4 DEF Drained, PC
  <2>2. Known(t) /\ Moved(t, "writer")
    BY <2>1, KnownHolds, MovedHolds
  <2>3. TypeOK'
    BY <1>4, <2>2 DEF TypeOK, Drained, lockVars, Moved
  <2>4. t \in Writers /\ t \notin Readers \union Upgraders
    BY <1>4, <2>2 DEF Drained, At, Known
  <2>5. FieldsExact' /\ Exclusion'
    BY <1>4, <2>2, <2>4
       DEF FieldsExact, Exclusion, Drained, lockVars, ReadersOrUpgrade, Moved, Known
  <2> QED BY <2>3, <2>5
<1>5. ASSUME NEW t \in Thread, LockRead(t) PROVE LockInv'
  <2>1. PICK l \in PC : l \in {"read", "reader"} /\ Goto(t, l)
    BY <1>5 DEF LockRead, PC
  <2>2. Known(t) /\ Moved(t, l)
    BY <2>1, KnownHolds, MovedHolds
  <2>3. t \notin Readers \union Writers \union Upgraders
    BY <1>5, <2>2 DEF LockRead, At, Known
  <2>4. CASE l = "read"
    <3>1. UNCHANGED read_count
      BY <1>5, <2>1, <2>4 DEF LockRead, Goto, TypeOK
    <3>2. TypeOK'
      BY <1>5, <2>2, <3>1 DEF TypeOK, LockRead, Moved
    <3>3. FieldsExact' /\ Exclusion'
      BY <1>5, <2>2, <2>3, <2>4, <3>1 DEF FieldsExact, Exclusion, LockRead, Moved, Known
    <3> QED BY <3>2, <3>3
  <2>5. CASE l = "reader"
    <3>1. ~WriterOrUpgrade /\ read_count' = (read_count + 1) % ReadCountSize
      BY <1>5, <2>1, <2>5 DEF LockRead, Goto, TypeOK
    <3>2. Readers' = Readers \union {t} /\ Writers' = Writers /\ Upgraders' = Upgraders
      BY <2>2, <2>3, <2>5 DEF Moved
    <3>3. read_count' = read_count + 1 /\ read_count + 1 < ReadCountSize
      BY <2>2, <2>3, <3>1, RWLockAssumption, NoWrap DEF Known, FieldsExact, TypeOK
    <3>4. TypeOK'
      BY <1>5, <2>2, <3>3, RWLockAssumption DEF TypeOK, LockRead, Moved
    <3>5. FieldsExact' /\ Exclusion'
      BY <1>5, <2>2, <2>3, <2>5, <3>1, <3>2, <3>3
         DEF FieldsExact, Exclusion, LockRead, Moved, Known, WriterOrUpgrade
    <3> QED BY <3>4, <3>5
  <2> QED BY <2>1, <2>4, <2>5
<1>6. ASSUME NEW t \in Thread, LockReadToWrite(t) PROVE LockInv'
  <2>1. PICK l \in PC : l \in {"out", "upgrade", "upgraded"} /\ Goto(t, l)
    BY <1>6 DEF LockReadToWrite, PC
  <2>2. Known(t) /\ Moved(t, l)
    BY <2>1, KnownHolds, MovedHolds
  <2>3. t \in Readers /\ t \notin Writers \union Upgraders
    BY <1>6, <2>2 DEF LockReadToWrite, At, Known
  <2>4. read_count > 0 /\ read_count' = read_count - 1 /\ Readers' = Readers \ {t}
    <3>1. read_count > 0 /\ read_count' = (read_count + ReadCountSize - 1) % ReadCountSize
      BY <1>6, <2>2, <2>3 DEF LockReadToWrite, FieldsExact, Known
    <3> QED BY <2>1, <2>2, <2>3, <3>1, RWLockAssumption, NoWrap DEF TypeOK, Moved
  <2>5. TypeOK'
    <3>1. waiting' \in BOOLEAN /\ do_wakeup' \subseteq Thread
      <4>1. (read_count' = 0) \in BOOLEAN
        OBVIOUS
      <4>2. CASE WakeIf(t, read_count' = 0)
        BY <4>1, <4>2, WakeIfType
      <4>3. CASE UNCHANGED <<waiting, do_wakeup>>
        BY <4>3 DEF TypeOK
      <4> QED BY <1>6, <4>2, <4>3 DEF LockReadToWrite
    <3>2. want_upgrade' \in BOOLEAN
      BY <1>6 DEF TypeOK, LockReadToWrite
    <3> QED BY <1>6, <2>2, <2>4, <3>1, <3>2, RWLockAssumption DEF TypeOK, LockReadToWrite, Moved
  <2>6. CASE want_upgrade
    <3>1. l = "out" /\ UNCHANGED want_upgrade
      BY <1>6, <2>1, <2>6 DEF LockReadToWrite, Goto, TypeOK
    <3>2. FieldsExact' /\ Exclusion'
      BY <1>6, <2>2, <2>3, <2>4, <3>1
         DEF FieldsExact, Exclusion, LockReadToWrite, Moved, Known
    <3> QED BY <2>5, <3>2
  <2>7. CASE ~want_upgrade
    <3>1. want_upgrade' = TRUE /\ l = IF read_count' # 0 THEN "upgrade" ELSE "upgraded"
      BY <1>6, <2>1, <2>7 DEF LockReadToWrite, Goto, TypeOK
    <3>2. FieldsExact'
      BY <1>6, <2>2, <2>3, <2>4, <2>7, <3>1 DEF FieldsExact, LockReadToWrite, Moved, Known
    <3>3. Cardinality(Readers') = 0 <=> Readers' = {}
      BY <2>2, <2>4, KnownHolds, ThreadCard DEF Readers, InState
    <3>4. Exclusion'
      BY <1>6, <2>2, <2>3, <2>7, <3>1, <3>2, <3>3
         DEF FieldsExact, Exclusion, LockReadToWrite, Moved, Known
    <3> QED BY <2>5, <3>2, <3>4
  <2> QED BY <2>6, <2>7
<1>7. ASSUME NEW t \in Thread, Upgraded(t) PROVE LockInv'
  <2>1. Goto(t, "upgraded") /\ "upgraded" \in PC
    BY <1>7 DEF Upgraded, PC
  <2>2. Known(t) /\ Moved(t, "upgraded")
    BY <2>1, KnownHolds, MovedHolds
  <2>3. t \in Upgraders /\ t \notin Readers \union Writers
    BY <1>7, <2>2 DEF Upgraded, At, Known
  <2>4. TypeOK'
    BY <1>7, <2>2 DEF TypeOK, Upgraded, lockVars, Moved
  <2>5. FieldsExact' /\ Exclusion'
    BY <1>7, <2>2, <2>3 DEF FieldsExact, Exclusion, Upgraded, lockVars, Moved, Known
  <2> QED BY <2>4, <2>5
<1>8. ASSUME NEW t \in Thread, LockWriteToRead(t) PROVE LockInv'
  <2>1. Goto(t, "reader") /\ "reader" \in PC
    BY <1>8 DEF LockWriteToRead, PC
  <2>2. Known(t) /\ Moved(t, "reader")
    BY <2>1, KnownHolds, MovedHolds
  <2>3. Readers = {} /\ read_count = 0 /\ t \notin Readers
    BY <1>8, <2>2 DEF LockWriteToRead, At, Known, FieldsExact, Exclusion
  <2>4. read_count' = 1 /\ 1 < ReadCountSize
    BY <1>8, <2>2, <2>3, RWLockAssumption, NoWrap DEF LockWriteToRead, TypeOK, Known, FieldsExact
  <2>5. TypeOK'
    <3>1. waiting' \in BOOLEAN /\ do_wakeup' \subseteq Thread
      BY <1>8, WakeIfType DEF LockWriteToRead
    <3>2. want_write' \in BOOLEAN
      BY <1>8, Zenon DEF LockWriteToRead
    <3>3. want_upgrade' = FALSE /\ UNCHANGED <<can_sleep, asleep>>
      BY <1>8 DEF LockWriteToRead
    <3>4. read_count' \in 0 .. ReadCountSize - 1
      BY <2>4, RWLockAssumption
    <3> QED BY <2>2, <3>1, <3>2, <3>3, <3>4 DEF TypeOK, Moved
  <2>6. /\ t \in Writers => want_write' = FALSE /\ Writers' = {} /\ Upgraders' = {}
        /\ t \in Upgraders => want_write' = want_write /\ Writers' = Writers /\ Upgraders' = {}
        /\ t \in Writers \/ t \in Upgraders
        /\ InState("writer")' = {} /\ InState("upgraded")' = {}
    BY <1>8, <2>2 DEF LockWriteToRead, At, Known, Moved, FieldsExact, Exclusion, TypeOK
  <2>7. FieldsExact'
    <3>1. read_count' = Cardinality(Readers')
      BY <2>2, <2>3, <2>4 DEF FieldsExact, Moved, Known
    <3>2. want_write' <=> Writers' # {}
      BY <2>6 DEF FieldsExact
    <3>3. want_upgrade' = FALSE /\ Upgraders' = {}
      BY <1>8, <2>6 DEF LockWriteToRead
    <3>4. \A u, v \in Writers' : u = v
      BY <2>6 DEF FieldsExact
    <3> QED BY <3>1, <3>2, <3>3, <3>4 DEF FieldsExact
  <2>8. Exclusion'
    BY <2>6 DEF Exclusion
  <2> QED BY <2>5, <2>7, <2>8
<1>9. ASSUME NEW t \in Thread, LockDone(t) PROVE LockInv'
  <2>1. Goto(t, "out") /\ "out" \in PC
    BY <1>9 DEF LockDone, PC
  <2>2. Known(t) /\ Moved(t, "out")
    BY <2>1, KnownHolds, MovedHolds
  <2>3. TypeOK'
    <3>1. waiting' \in BOOLEAN /\ do_wakeup' \subseteq Thread
      <4>1. (read_count' = 0) \in BOOLEAN
        OBVIOUS
      <4> QED BY <1>9, <4>1, WakeIfType DEF LockDone
    <3>2. UNCHANGED <<can_sleep, asleep>>
      BY <1>9 DEF LockDone
    <3>3. read_count' \in 0 .. ReadCountSize - 1
      BY <1>9, RWLockAssumption DEF LockDone, TypeOK
    <3>4. want_write' \in BOOLEAN /\ want_upgrade' \in BOOLEAN
      BY <1>9 DEF LockDone, TypeOK
    <3> QED BY <2>2, <3>1, <3>2, <3>3, <3>4 DEF TypeOK, Moved
  <2>4. CASE pc[t] = "reader"
    <3>1. /\ read_count' = read_count - 1 /\ UNCHANGED <<want_upgrade, want_write>>
          /\ t \in Readers /\ t \notin Writers \union Upgraders
      BY <1>9, <2>2, <2>4 DEF LockDone, FieldsExact, Known
    <3> QED BY <2>2, <2>3, <3>1 DEF FieldsExact, Exclusion, Moved, Known
  <2>5. CASE pc[t] = "writer"
    <3>1. /\ want_write' = FALSE /\ UNCHANGED <<want_upgrade, read_count>>
          /\ t \in Writers /\ t \notin Readers \union Upgraders
      BY <1>9, <2>2, <2>5 DEF LockDone, FieldsExact, Exclusion, Known
    <3> QED BY <2>2, <2>3, <3>1 DEF FieldsExact, Exclusion, Moved, Known
  <2>6. CASE pc[t] = "upgraded"
    <3>1. /\ want_upgrade' = FALSE /\ UNCHANGED <<want_write, read_count>>
          /\ t \in Upgraders /\ t \notin Readers \union Writers
      BY <1>9, <2>2, <2>6 DEF LockDone, FieldsExact, Exclusion, Known
    <3> QED BY <2>2, <2>3, <3>1 DEF FieldsExact, Exclusion, Moved, Known
  <2> QED BY <1>9, <2>4, <2>5, <2>6 DEF LockDone, At
<1> QED
  BY <1>1, <1>2, <1>3, <1>4, <1>5, <1>6, <1>7, <1>8, <1>9 DEF Next

-----------------------------------------------------------------------------
\* A step either leaves every sleeper blocked and announced, or records a
\* thread_wakeup that is still to come.
LEMMA SleepersStep == LockInv /\ SleepersSeen /\ [Next]_vars => SleepersSeen'
<1> SUFFICES ASSUME LockInv, SleepersSeen, [Next]_vars, do_wakeup' = {},
                    NEW u \in asleep'
             PROVE  waiting' /\ Blocked(u)'
  BY DEF SleepersSeen
<1>0. TypeOK /\ FieldsExact /\ u \in Thread
  <2>1. LockInv'
    BY LockInvStep
  <2> QED BY <2>1 DEF LockInv, TypeOK
<1>1. CASE UNCHANGED vars
  BY <1>1 DEF SleepersSeen, Blocked, ReadersOrUpgrade, WriterOrUpgrade, vars, lockVars
<1>2. ASSUME NEW t \in Thread, Sleep(t) PROVE waiting' /\ Blocked(u)'
  BY <1>2 DEF Sleep, SleepersSeen, Blocked, ReadersOrUpgrade, WriterOrUpgrade
<1>3. ASSUME NEW t \in Thread, Wakeup(t) PROVE FALSE
  BY <1>3 DEF Wakeup
<1>4. ASSUME NEW t \in Thread, t \notin asleep, asleep' = asleep, NEW l, Goto(t, l),
             do_wakeup = {}
      PROVE  waiting /\ Blocked(u) /\ pc'[u] = pc[u]
  BY <1>0, <1>4 DEF SleepersSeen, Goto, TypeOK
<1>5. ASSUME NEW t \in Thread, LockWrite(t) PROVE waiting' /\ Blocked(u)'
  <2>1. waiting /\ Blocked(u) /\ pc'[u] = pc[u] /\ (want_write => want_write')
    BY <1>4, <1>5 DEF LockWrite, At
  <2> QED BY <1>5, <2>1 DEF LockWrite, Blocked, ReadersOrUpgrade, WriterOrUpgrade
<1>6. ASSUME NEW t \in Thread, Drained(t) \/ Upgraded(t) PROVE waiting' /\ Blocked(u)'
  <2>1. waiting /\ Blocked(u) /\ pc'[u] = pc[u]
    BY <1>4, <1>6 DEF Drained, Upgraded, At
  <2> QED BY <1>6, <2>1
        DEF Drained, Upgraded, lockVars, Blocked, ReadersOrUpgrade, WriterOrUpgrade
<1>7. ASSUME NEW t \in Thread, LockRead(t) PROVE waiting' /\ Blocked(u)'
  <2>1. waiting /\ Blocked(u) /\ pc'[u] = pc[u]
    BY <1>4, <1>7 DEF LockRead, At
  <2>2. read_count' = read_count \/ read_count' # 0
    <3>1. Known(t)
      BY KnownHolds
    <3>2. t \notin Readers
      BY <1>7, <3>1 DEF LockRead, At, Known
    <3>3. read_count + 1 < ReadCountSize /\ read_count \in Nat
      BY <1>0, <3>1, <3>2 DEF Known, FieldsExact
    <3> QED BY <1>0, <1>7, <3>3, RWLockAssumption, NoWrap DEF LockRead, TypeOK
  <2> QED BY <1>7, <2>1, <2>2 DEF LockRead, Blocked, ReadersOrUpgrade, WriterOrUpgrade
<1>8. ASSUME NEW t \in Thread, LockReadToWrite(t) PROVE waiting' /\ Blocked(u)'
  <2>1. do_wakeup = {}
    BY <1>8 DEF LockReadToWrite, WakeIf
  <2>2. waiting /\ Blocked(u) /\ pc'[u] = pc[u]
    BY <1>4, <1>8, <2>1 DEF LockReadToWrite, At
  <2>3. CASE want_upgrade
    <3>1. read_count' # 0 /\ waiting' /\ UNCHANGED <<want_upgrade, want_write>>
      BY <1>8, <2>2, <2>3 DEF LockReadToWrite, WakeIf
    <3> QED BY <2>2, <3>1 DEF Blocked, ReadersOrUpgrade, WriterOrUpgrade
  <2>4. CASE ~want_upgrade
    <3>1. want_upgrade' /\ UNCHANGED <<waiting, want_write>>
      BY <1>8, <2>4 DEF LockReadToWrite
    <3>2. pc[u] # "upgrade"
      BY <1>0, <2>4, KnownHolds DEF Known, FieldsExact
    <3> QED BY <2>2, <3>1, <3>2 DEF Blocked, ReadersOrUpgrade, WriterOrUpgrade
  <2> QED BY <2>3, <2>4
<1>9. ASSUME NEW t \in Thread, LockWriteToRead(t) PROVE FALSE
  <2>1. do_wakeup = {} /\ ~waiting
    BY <1>9 DEF LockWriteToRead, WakeIf
  <2> QED BY <1>4, <1>9, <2>1 DEF LockWriteToRead, At
<1>10. ASSUME NEW t \in Thread, LockDone(t) PROVE waiting' /\ Blocked(u)'
  <2>1. do_wakeup = {}
    BY <1>10 DEF LockDone, WakeIf
  <2>2. waiting /\ Blocked(u) /\ pc'[u] = pc[u]
    BY <1>4, <1>10, <2>1 DEF LockDone, At
  <2>3. read_count' # 0 /\ waiting' /\ UNCHANGED <<want_upgrade, want_write>>
    BY <1>10, <2>2 DEF LockDone, WakeIf
  <2> QED BY <2>2, <2>3 DEF Blocked, ReadersOrUpgrade, WriterOrUpgrade
<1> QED
  BY <1>1, <1>2, <1>3, <1>5, <1>6, <1>7, <1>8, <1>9, <1>10 DEF Next

\* The fields of the lock are exact and writers are alone, in every reachable
\* state of lock_write, lock_read, the conversions and lock_done, whatever the
\* number of threads (below 2^16).
THEOREM LockInvariant == Spec => []LockInv
<1>1. Init => LockInv
  BY InitInv
<1> QED BY <1>1, LockInvStep, PTL DEF Spec

\* Clearing `waiting' under the interlock and calling thread_wakeup after it
\* loses no sleeper.
THEOREM WakeupsReach == Spec => []SleepersSeen
<1>1. Init => LockInv /\ SleepersSeen
  BY InitInv
<1> QED BY <1>1, LockInvStep, SleepersStep, PTL DEF Spec
=============================================================================
