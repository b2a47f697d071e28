--------------------------- MODULE SyncLockProofs ---------------------------
(***************************************************************************)
(* While at most one process at a time is inside acquireLock, at most one  *)
(* runs, for any number of processes, crashes and manual runs of any       *)
(* length.  SyncLock's run with two contenders shows that the condition is *)
(* needed.                                                                 *)
(*                                                                         *)
(* The inductive invariant says what each place in the protocol relies on: *)
(* a running process still owns the file, a process that has read the file *)
(* read the one running process if there is any, and a process about to    *)
(* remove the file has excluded every running one.                         *)
(***************************************************************************)
EXTENDS SyncLock, FiniteSetTheorems, TLAPS

Locked(p, written) == [creator |-> {p}, written |-> written]

Places ==
  /\ \A p \in Procs : pc[p] \in Holding => lockfile = Locked(p, TRUE)
  /\ \A p \in Procs : pc[p] = "write" => lockfile = Locked(p, FALSE)
  /\ \A p \in Procs : pc[p] = "judge" => \A q \in Running : saw[p] = {q}
  /\ \A p \in Procs : pc[p] = "remove" => Running = {}

Alone == \A p, q \in Contenders : p = q

\* acquireLock tries twice.
TwoTries ==
  \A p \in Procs : pc[p] \in Acquiring \cup {"start"} => attempt[p] < 2

LockInv ==
  /\ TypeOK
  /\ TwoTries
  /\ Alone
  /\ OnTime => Places

\* One step of process p.
OneStep(p) ==
  \/ Start(p) \/ OpenExclusive(p) \/ OpenFails(p) \/ WriteHolder(p)
  \/ ReadHolder(p) \/ Judge(p) \/ Remove(p)
  \/ Finish(p) \/ Unlink(p) \/ Crash(p) \/ GrowOld(p)

\* With one contender at most, a process that starts finds none.
LEMMA StartsAlone ==
  ASSUME MaxContenders <= 1, NEW p \in Procs, Start(p)
  PROVE  Contenders = {}
<1>1. IsFiniteSet(Contenders)
  BY LockAssumption, FS_Subset DEF Contenders
<1>2. Cardinality(Contenders) \in Nat
  BY <1>1, FS_CardinalityType
<1>3. Cardinality(Contenders) = 0
  BY <1>2, LockAssumption DEF Start
<1> QED  BY <1>1, <1>3, FS_EmptySet

\* The invariant holds initially.
LEMMA LockInit == Init => LockInv
BY DEF Init, LockInv, TypeOK, TwoTries, Alone, Places, Contenders, Acquiring,
       Holding, Alive, Ended, NoFile, Running

\* Types are preserved by every step.
LEMMA TypeStep ==
  ASSUME TypeOK, TwoTries, NEW p \in Procs, OneStep(p)
  PROVE  TypeOK' /\ TwoTries'
<1> USE DEF TypeOK, TwoTries, Goto, Acquiring, Holding, Alive, Ended, NoFile
<1>1. CASE Start(p)
  BY <1>1 DEF Start
<1>2. CASE OpenExclusive(p)
  BY <1>2 DEF OpenExclusive
<1>3. CASE OpenFails(p)
  BY <1>3 DEF OpenFails
<1>4. CASE WriteHolder(p)
  BY <1>4 DEF WriteHolder
<1>5. CASE ReadHolder(p)
  BY <1>5 DEF ReadHolder, Holder
<1>6. CASE Judge(p)
  BY <1>6 DEF Judge
<1>7. CASE Remove(p)
  <2>1. attempt[p] \in {0, 1}
    BY <1>7 DEF Remove
  <2>2. attempt[p] + 1 \in 0..2 /\ (attempt[p] = 0 => attempt[p] + 1 < 2)
    BY <2>1
  <2> QED  BY <1>7, <2>1, <2>2 DEF Remove
<1>8. CASE Finish(p)
  BY <1>8 DEF Finish
<1>9. CASE Unlink(p)
  BY <1>9 DEF Unlink
<1>10. CASE Crash(p)
  BY <1>10 DEF Crash
<1>11. CASE GrowOld(p)
  BY <1>11 DEF GrowOld
<1> QED
  BY <1>1, <1>2, <1>3, <1>4, <1>5, <1>6, <1>7, <1>8, <1>9, <1>10, <1>11
     DEF OneStep

\* A second process starts only when no other is inside acquireLock.
LEMMA AloneStep ==
  ASSUME MaxContenders <= 1, TypeOK, Alone, NEW p \in Procs, OneStep(p)
  PROVE  Alone'
<1>1. CASE Start(p)
  <2>1. Contenders = {}
    BY <1>1, StartsAlone
  <2>2. Contenders' \subseteq Contenders \cup {p}
    BY <1>1 DEF Start, Goto, Contenders, TypeOK
  <2> QED  BY <2>1, <2>2 DEF Alone
<1>2. CASE ~Start(p)
  <2>1. Contenders' \subseteq Contenders
    BY <1>2 DEF OneStep, OpenExclusive, OpenFails, WriteHolder, ReadHolder,
       Judge, Remove, Finish, Unlink, Crash, GrowOld, Goto, Contenders,
       Acquiring, Holding, TypeOK
  <2> QED  BY <2>1 DEF Alone
<1> QED  BY <1>1, <1>2

\* Every step keeps what each place relies on, while workers are on time.
LEMMA PlacesStep ==
  ASSUME TypeOK, Alone, OnTime, Places, NEW p \in Procs, OneStep(p),
         Start(p) => Contenders = {}
  PROVE  Places'
<1> USE DEF TypeOK, Goto, Acquiring, Holding, Alive, Locked
<1>a. \A q \in Procs : q # p => pc'[q] = pc[q] /\ saw'[q] = saw[q]
  BY DEF OneStep, Start, OpenExclusive, OpenFails, WriteHolder, ReadHolder,
     Judge, Remove, Finish, Unlink, Crash, GrowOld
<1>b. \A q \in Procs : pc[p] \in Acquiring /\ q # p => pc[q] \notin Acquiring
  BY DEF Alone, Contenders
<1>1. CASE Start(p) \/ GrowOld(p) \/ OpenFails(p)
  BY <1>1 DEF Start, GrowOld, OpenFails, Places, Running
<1>2. CASE OpenExclusive(p)
  <2>1. Running = {}
    BY <1>2 DEF OpenExclusive, Places, Running, NoFile
  <2> QED  BY <1>2, <1>b, <2>1 DEF OpenExclusive, Places, Running
<1>3. CASE WriteHolder(p)
  <2>1. lockfile = Locked(p, FALSE)
    BY <1>3 DEF WriteHolder, Places
  <2>2. Running = {}
    BY <2>1 DEF Places, Running
  <2>3. lockfile' = Locked(p, TRUE)
    BY <1>3, <2>1 DEF WriteHolder
  <2> QED  BY <1>3, <1>a, <1>b, <2>2, <2>3 DEF WriteHolder, Places, Running
<1>4. CASE ReadHolder(p)
  <2>1. \A q \in Running : Holder = {q}
    BY DEF Places, Running, Holder
  <2>2. Running' = Running
    BY <1>4 DEF ReadHolder, Running
  <2> QED  BY <1>4, <1>a, <1>b, <2>1, <2>2 DEF ReadHolder, Places
<1>5. CASE Judge(p)
  <2>1. ASSUME Stale(saw[p]), NEW q \in Running PROVE FALSE
    <3>1. saw[p] = {q} /\ pc[q] \in Holding
      BY <1>5, <2>1 DEF Judge, Places, Running
    <3> QED  BY <2>1, <3>1 DEF Stale, OnTime
  <2>2. Running' = Running
    BY <1>5 DEF Judge, Running
  <2> QED  BY <1>5, <1>a, <1>b, <2>1, <2>2 DEF Judge, Places
<1>6. CASE Remove(p)
  <2>1. Running = {}
    BY <1>6 DEF Remove, Places
  <2> QED  BY <1>6, <1>a, <1>b, <2>1 DEF Remove, Places, Running
<1>7. CASE Finish(p) \/ Crash(p)
  <2>1. Running' \subseteq Running
    BY <1>7 DEF Finish, Crash, Running
  <2> QED  BY <1>7, <1>a, <2>1 DEF Finish, Crash, Places, Running
<1>8. CASE Unlink(p)
  <2>1. lockfile = Locked(p, TRUE)
    BY <1>8 DEF Unlink, Places
  <2>2. Running \subseteq {p}
    BY <2>1 DEF Places, Running
  <2>3. Running' = {}
    BY <1>8, <2>2 DEF Unlink, Running
  <2> QED  BY <1>8, <1>a, <2>1, <2>3 DEF Unlink, Places, Running
<1> QED
  BY <1>1, <1>2, <1>3, <1>4, <1>5, <1>6, <1>7, <1>8 DEF OneStep

\* Two running processes would both own the lock file.
LEMMA PlacesExclude ==
  ASSUME TypeOK, Places PROVE Cardinality(Running) <= 1
<1>1. \A p, q \in Running : p = q
  BY DEF Places, Running, Locked
<1>2. CASE Running = {}
  BY <1>2, FS_EmptySet
<1>3. CASE Running # {}
  <2>1. PICK p \in Running : TRUE
    BY <1>3
  <2>2. Running = {p}
    BY <1>1, <2>1
  <2> QED  BY <2>2, FS_Singleton
<1> QED  BY <1>2, <1>3

-----------------------------------------------------------------------------
\* The inductive invariant holds in every reachable state of an instance
\* in which acquireLock is not entered twice at once.
THEOREM LockInvariant ==
  ASSUME MaxContenders <= 1 PROVE Spec => []LockInv
<1>1. LockInv /\ [Next]_vars => LockInv'
  <2> SUFFICES ASSUME LockInv, [Next]_vars PROVE LockInv'
    OBVIOUS
  <2>1. CASE UNCHANGED vars
    BY <2>1 DEF vars, LockInv, TypeOK, TwoTries, Alone, OnTime, Places,
       Contenders, Running
  <2>2. ASSUME NEW p \in Procs, OneStep(p) PROVE LockInv'
    <3>1. TypeOK' /\ TwoTries'
      BY <2>2, TypeStep DEF LockInv
    <3>2. Alone'
      BY <2>2, AloneStep DEF LockInv
    <3>3. OnTime' => OnTime
      BY <2>2 DEF OneStep, OnTime, Start, OpenExclusive, OpenFails,
         WriteHolder, ReadHolder, Judge, Remove, Finish, Unlink, Crash, GrowOld
    <3>4. Start(p) => Contenders = {}
      BY StartsAlone
    <3>5. OnTime' => Places'
      BY <2>2, <3>3, <3>4, PlacesStep DEF LockInv
    <3> QED  BY <3>1, <3>2, <3>5 DEF LockInv
  <2> QED  BY <2>1, <2>2 DEF Next, OneStep
<1> QED  BY <1>1, LockInit, PTL DEF Spec

\* TypeOK: the lock file, the places and the two attempts keep their types.
THEOREM LockTypeCorrect ==
  ASSUME MaxContenders <= 1 PROVE Spec => []TypeOK
BY LockInvariant, PTL DEF LockInv

\* OneRunAtATime: sync-cli.ts's "one run at a time", for any number of
\* processes, when their acquisitions do not overlap.
THEOREM RunsExclude ==
  ASSUME MaxContenders <= 1 PROVE Spec => []OneRunAtATime
<1>1. LockInv => OneRunAtATime
  BY PlacesExclude DEF LockInv, OneRunAtATime
<1> QED  BY <1>1, LockInvariant, PTL
=============================================================================
