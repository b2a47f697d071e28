------------------------------ MODULE SyncLock ------------------------------
(***************************************************************************)
(* The lock file that episodic-memory's sync worker and its maintain       *)
(* command line take before they touch the archive (sync-lock.ts).         *)
(*                                                                         *)
(* Every file-system call of a process is one step.  A process takes the   *)
(* lock at most once, so the creator of a lock file also names the inode:  *)
(* the holder is written through the descriptor, and lands in no file that *)
(* another process can see when the path was unlinked in between.          *)
(*                                                                         *)
(* A lock's age is abstracted to "overdue": older than maxAgeMs, twice the *)
(* runtime budget.  A worker's watchdog ends it at its budget, so a live   *)
(* overdue worker is one whose event loop or machine was stopped.          *)
(***************************************************************************)
EXTENDS FiniteSets, Naturals

CONSTANTS
  Procs,          \* processes, one run each
  Kind,           \* Kind[p]: "sync" (the worker) or "cli" (manual maintain)
  MaxContenders   \* bound: processes inside acquireLock at once

ASSUME LockAssumption ==
  /\ IsFiniteSet(Procs)
  /\ Kind \in [Procs -> {"sync", "cli"}]
  /\ MaxContenders \in Nat

VARIABLES
  lockfile,   \* the file at the lock path: who created it, is it written
  pc,         \* where each process is
  saw,        \* saw[p]: the holder p parsed, {} when it parsed none
  attempt,    \* attempt[p]: the loop variable of acquireLock
  overdue     \* processes whose lock is older than maxAgeMs

vars == <<lockfile, pc, saw, attempt, overdue>>

NoFile == [creator |-> {}, written |-> FALSE]

Acquiring == {"open", "write", "read", "judge", "remove"}
Holding   == {"working", "unlink"}
Alive     == Acquiring \cup Holding
Ended     == {"done", "refused", "crashed"}

Contenders == {p \in Procs : pc[p] \in Acquiring}
Running    == {p \in Procs : pc[p] \in Holding}

\* JSON.parse of the file's content: a file that is absent or not written
\* yet has no holder.
Holder == IF lockfile.written THEN lockfile.creator ELSE {}

\* Mutant: a live holder's lock is taken over unless it is a manual run.
StaleUnlessCli(holder) == \A q \in holder : Kind[q] # "cli"

\* A lock is stale when it names no holder, a dead one, or a sync worker
\* past the age limit.
Stale(holder) ==
  \A q \in holder : pc[q] \notin Alive \/ (Kind[q] # "cli" /\ q \in overdue)

Goto(p, label) == pc' = [pc EXCEPT ![p] = label]

-----------------------------------------------------------------------------
(***************************************************************************)
(* acquireLock.                                                            *)
(***************************************************************************)
Start(p) ==
  /\ pc[p] = "start"
  /\ Cardinality(Contenders) < MaxContenders
  /\ Goto(p, "open")
  /\ UNCHANGED <<lockfile, saw, attempt, overdue>>

OpenExclusive(p) ==
  /\ pc[p] = "open"
  /\ lockfile = NoFile
  /\ lockfile' = [creator |-> {p}, written |-> FALSE]
  /\ Goto(p, "write")
  /\ UNCHANGED <<saw, attempt, overdue>>

OpenFails(p) ==
  /\ pc[p] = "open"
  /\ lockfile # NoFile
  /\ Goto(p, "read")
  /\ UNCHANGED <<lockfile, saw, attempt, overdue>>

WriteHolder(p) ==
  /\ pc[p] = "write"
  /\ lockfile' = IF lockfile.creator = {p}
                 THEN [lockfile EXCEPT !.written = TRUE] ELSE lockfile
  /\ Goto(p, "working")
  /\ UNCHANGED <<saw, attempt, overdue>>

ReadHolder(p) ==
  /\ pc[p] = "read"
  /\ saw' = [saw EXCEPT ![p] = Holder]
  /\ Goto(p, "judge")
  /\ UNCHANGED <<lockfile, attempt, overdue>>

Judge(p) ==
  /\ pc[p] = "judge"
  /\ Goto(p, IF Stale(saw[p]) THEN "remove" ELSE "refused")
  /\ UNCHANGED <<lockfile, saw, attempt, overdue>>

\* Mutant: a stale lock is removed and never tried again.
RemoveGivesUp(p) ==
  /\ pc[p] = "remove"
  /\ lockfile' = NoFile
  /\ Goto(p, "refused")
  /\ UNCHANGED <<saw, attempt, overdue>>

\* rmSync removes whatever file is at the path now.
Remove(p) ==
  /\ pc[p] = "remove"
  /\ lockfile' = NoFile
  /\ attempt' = [attempt EXCEPT ![p] = @ + 1]
  /\ Goto(p, IF attempt[p] = 0 THEN "open" ELSE "refused")
  /\ UNCHANGED <<saw, overdue>>

-----------------------------------------------------------------------------
(***************************************************************************)
(* The run, its release, and its failures.                                 *)
(***************************************************************************)
\* The run ends, or its watchdog fires: releaseLock reads the holder.
Finish(p) ==
  /\ pc[p] = "working"
  /\ Goto(p, IF Holder = {p} THEN "unlink" ELSE "done")
  /\ UNCHANGED <<lockfile, saw, attempt, overdue>>

Unlink(p) ==
  /\ pc[p] = "unlink"
  /\ lockfile' = NoFile
  /\ Goto(p, "done")
  /\ UNCHANGED <<saw, attempt, overdue>>

Crash(p) ==
  /\ pc[p] \in Alive
  /\ Goto(p, "crashed")
  /\ UNCHANGED <<lockfile, saw, attempt, overdue>>

GrowOld(p) ==
  /\ pc[p] \in Holding
  /\ p \notin overdue
  /\ overdue' = overdue \cup {p}
  /\ UNCHANGED <<lockfile, pc, saw, attempt>>

-----------------------------------------------------------------------------
Init ==
  /\ lockfile = NoFile
  /\ pc = [p \in Procs |-> "start"]
  /\ saw = [p \in Procs |-> {}]
  /\ attempt = [p \in Procs |-> 0]
  /\ overdue = {}

Next == \E p \in Procs :
  \/ Start(p)
  \/ OpenExclusive(p)
  \/ OpenFails(p)
  \/ WriteHolder(p)
  \/ ReadHolder(p)
  \/ Judge(p)
  \/ Remove(p)
  \/ Finish(p)
  \/ Unlink(p)
  \/ Crash(p)
  \/ GrowOld(p)

Spec == Init /\ [][Next]_vars
-----------------------------------------------------------------------------
TypeOK ==
  /\ lockfile \in [creator : {{}} \cup {{p} : p \in Procs},
                   written : BOOLEAN]
  /\ pc \in [Procs -> {"start"} \cup Alive \cup Ended]
  /\ saw \in [Procs -> {{}} \cup {{p} : p \in Procs}]
  /\ attempt \in [Procs -> 0..2]
  /\ overdue \subseteq Procs

\* No sync worker has outlived twice its budget.
OnTime == \A p \in overdue : Kind[p] = "cli"

\* One run at a time, through crashes at every step and however long a
\* manual run takes, while workers end on time.
OneRunAtATime == OnTime => Cardinality(Running) <= 1

\* A process is turned away only while another one is running: a lock left
\* behind by a crash, even half created, costs the next process nothing.
RefusedOnlyByALiveRun ==
  [][\A p \in Procs : pc[p] # "refused" /\ pc'[p] = "refused"
        => Running # {}]_vars
=============================================================================
