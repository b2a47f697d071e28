--------------------------- MODULE Finalization ---------------------------
(***************************************************************************)
(* How the workspace manager lands the work of a managed worktree on the   *)
(* repository's integration target (integration.ts): commit, freeze,       *)
(* rebase, proof of equal effect, compare-and-swap of the target,          *)
(* carry-forward of the operator's checkout, durable record, push, recycle *)
(* or teardown; and the ways back from a run that stopped in between.      *)
(*                                                                         *)
(* One repository, whose assignments are finalized by processes of their   *)
(* own.  Handlers of one assignment exclude each other by the mutation     *)
(* claim (Handover), so an assignment has at most one handler under way;   *)
(* every durable write of a handler, and every read of what others may     *)
(* change, is one step, and a crash may come between any two.  Whether the *)
(* caller may run a handler at all is the subject of Authority.            *)
(*                                                                         *)
(* The operator works in the primary checkout, commits only while that     *)
(* checkout shows the target, and someone else may push to the remote.     *)
(***************************************************************************)
EXTENDS GitHistory

CONSTANTS
  Assignments,
  Work,          \* Work[a]: the changes the worker of a may make
  OperatorWork,  \* the changes the operator may make in the primary checkout
  RemoteWork,    \* the changes others may push to the remote
  Ops,           \* the ways to begin a finalization that a run exercises
  Slips,         \* moves the handlers do not survive, which a run may include
  MaxCrashes,    \* bound: handlers that die
  None           \* no commit, no debt, no lock, no replay

AllOps == {"push", "reconcile", "commander", "release", "close-out"}

\* A worker edits while its handler runs; a row that landed and was not
\* recorded is given a fresh commit or another HEAD before it is reconciled.
AllSlips == {"edit-midway", "repair-landed"}

ASSUME FinalizationAssumption ==
  /\ Work \in [Assignments -> SUBSET Changes]
  /\ OperatorWork \subseteq Changes /\ RemoteWork \subseteq Changes
  /\ Ops \subseteq AllOps /\ Slips \subseteq AllSlips /\ MaxCrashes \in Nat
  /\ RemoteWork \cap (OperatorWork \cup UNION {Work[a] : a \in Assignments}) = {}

\* What the tables, the refs, the worktrees and the handlers hold.
Commits == Seq(Patch)
Places == {"idle", "freeze", "lock", "replay", "prove", "advance", "carry", "record",
           "unlock", "push", "readback", "settle", "recycle", "forget", "release",
           "close", "retire", "clear", "base"}
Debts == [phase : {"integration-pending", "push-pending", "push-succeeded"},
          frozen : Commits, candidate : {None} \cup Commits, lease : Commits]
Locks == [owner : Assignments, expected : Commits]
Rows == [status : {"active", "ready", "integrated", "cleaned"}, base : Commits,
         integrated : {None} \cup Commits, record : {None} \cup Commits,
         debt : {None} \cup Debts]
Replays == [done : Commits, left : Commits, staged : {None} \cup Commits]
Trees == [present : BOOLEAN, head : {None} \cup Commits, dirty : SUBSET Changes,
          replay : {None} \cup Replays]
Jobs == [at : Places, op : AllOps \cup {"none", "landed"},
         expected : {None} \cup Commits, attested : BOOLEAN]

\* None is none of the values that a variable may hold in its place.
ASSUME NoneAssumption ==
  None \notin Commits /\ None \notin Locks /\ None \notin Debts /\ None \notin Replays

VARIABLES
  row,        \* assignments, and the integration_records row of each
  lock,       \* integration_locks: the row of this repository
  preserved,  \* preserved_work: push obligations that outlived their row
  frozen,     \* refs/ironclaude/finalization/<a>/frozen
  candidate,  \* refs/ironclaude/finalization/<a>/candidate
  recovery,   \* refs/ironclaude/recovery/<a>-<oid>
  tree,       \* the managed worktrees: branch tip, uncommitted work, replay
  target,     \* the integration target
  remote,     \* the ref of the remote that a push goes to
  primary,    \* the operator's checkout
  job,        \* the handler under way of each assignment
  made,       \* history: the changes made so far
  waived,     \* history: the changes someone chose to drop
  landing,    \* history: the assignments that advanced the target unrecorded
  crashes

database  == <<row, lock, preserved>>
refs      == <<frozen, candidate, recovery>>
shared    == <<target, remote, primary>>
history   == <<made, waived, landing, crashes>>
vars      == <<database, refs, tree, shared, job, history>>

-----------------------------------------------------------------------------
Idle == [at |-> "idle", op |-> "none", expected |-> None, attested |-> FALSE]

Init ==
  /\ row = [a \in Assignments |->
              [status |-> "active", base |-> Root, integrated |-> None,
               record |-> None, debt |-> None]]
  /\ lock = None /\ preserved = {}
  /\ frozen = [a \in Assignments |-> None]
  /\ candidate = [a \in Assignments |-> None]
  /\ recovery = {}
  /\ tree = [a \in Assignments |->
               [present |-> TRUE, head |-> Root, dirty |-> {}, replay |-> None]]
  /\ target = Root /\ remote = Root
  /\ primary = [onRef |-> TRUE, shows |-> Root, dirty |-> {}]
  /\ job = [a \in Assignments |-> Idle]
  /\ made = {} /\ waived = {} /\ landing = {} /\ crashes = 0

-----------------------------------------------------------------------------
(* What a handler reads.                                                    *)

IsIdle(a) == job[a].at = "idle"
At(a, place) == job[a].at = place
Status(a, s) == row[a].status = s

Paused(a) == tree[a].replay # None

\* rev-parse HEAD in the worktree: detached while a replay is stopped.
HeadOf(a) == IF Paused(a) THEN tree[a].replay.done ELSE tree[a].head

\* worktreeIsClean
IsClean(a) == tree[a].dirty = {}

\* The worktree is there, its branch checked out and no handler at work.
Free(a) == IsIdle(a) /\ tree[a].present /\ ~Paused(a)

OwnsLock(a) == lock # None /\ lock.owner = a

\* What every recovery of a row without a stopped replay asks for.
AwaitsRecovery(a) == Free(a) /\ Status(a, "ready")

\* A row that landed is not given another HEAD before it is reconciled.
MayMoveHead(a) == a \notin landing \/ "repair-landed" \in Slips

\* requireExactIntegrationLock
HoldsLock(a, expected) == lock = [owner |-> a, expected |-> expected]

\* assertNoPrimaryOverlap, assertNoPostCasOverlap and the refusal of
\* read-tree -m -u: a local change of the operator touches a file that
\* differs between the two commits.
Overlap(from, to) ==
  /\ primary.onRef
  /\ \E d \in primary.dirty :
        Near[d] \cap (ChangesOf(to) \ ChangesOf(from)) # {}

\* Mutant: the checkout is not compared with the target.
CheckoutAtUnseen(commit) == target = commit

\* verifyPrimaryAfterFastForward
CheckoutAt(commit) == target = commit /\ (primary.onRef => primary.shows = commit)

\* decodePushDisposition: the obligation of an integrated row.
OwesPush(debt) == debt # None /\ debt.phase # "integration-pending"

\* Mutant: any descendant of the target counts as the reviewed commit.
SameAsReviewedUnproved(a, expected, commit) == IsAncestor(expected, commit)

\* The equality of effects by which a rebased commit counts as the reviewed.
SameAsReviewed(a, expected, commit) ==
  /\ IsAncestor(expected, commit)
  /\ Effect(expected, commit) = Effect(row[a].base, frozen[a])

-----------------------------------------------------------------------------
(* What a handler writes.                                                   *)

SetRow(a, new) == row' = [row EXCEPT ![a] = new]
SetTree(a, new) == tree' = [tree EXCEPT ![a] = new]
SetFrozen(a, c) == frozen' = [frozen EXCEPT ![a] = c]
SetCandidate(a, c) == candidate' = [candidate EXCEPT ![a] = c]
Goto(a, place) == job' = [job EXCEPT ![a].at = place]
Finish(a) == job' = [job EXCEPT ![a] = Idle]

\* releaseExactIntegrationLockIfHeld
ReleaseExactLock(a, expected) ==
  lock' = IF HoldsLock(a, expected) THEN None ELSE lock

\* A worktree whose branch is at the commit, with nothing uncommitted.
ResetTo(a, commit) == [tree[a] EXCEPT !.head = commit, !.dirty = {}]

Committed(a, c) ==
  [tree[a] EXCEPT !.head = Append(@, Written(c)), !.dirty = @ \ {c}]

\* Mutant: a close-out that resets without a recovery ref.
SnapshotForgotten(a) == recovery

\* persistRecoveryRef of the snapshot of a worktree's uncommitted work.
Snapshot(a) ==
  LET residue == SetToSeq({Written(c) : c \in tree[a].dirty})
  IN IF IsClean(a) THEN recovery ELSE recovery \cup {tree[a].head \o residue}

-----------------------------------------------------------------------------
(* The worker and the verbs that begin a finalization.                      *)

Edit(a, c) ==
  /\ tree[a].present /\ ~Paused(a)
  /\ IsIdle(a) \/ "edit-midway" \in Slips
  /\ c \in Work[a] \ made
  /\ made' = made \cup {c}
  /\ SetTree(a, [tree[a] EXCEPT !.dirty = @ \cup {c}])
  /\ UNCHANGED <<database, refs, shared, job, waived, landing, crashes>>

\* Verb "commit" on an active row: the commit is made and nothing else.
CommitAndStay(a, c) ==
  /\ Free(a) /\ Status(a, "active") /\ c \in tree[a].dirty
  /\ SetTree(a, Committed(a, c))
  /\ UNCHANGED <<database, refs, shared, job, history>>

\* Verb "commit-and-push": the obligation to push is recorded before the
\* freeze, with the remote's commit that the human's authority names.
BeginPush(a, c) ==
  /\ "push" \in Ops
  /\ Free(a) /\ Status(a, "active") /\ c \in tree[a].dirty
  /\ SetTree(a, Committed(a, c))
  /\ SetRow(a, [row[a] EXCEPT !.debt =
       [phase |-> "integration-pending", frozen |-> Committed(a, c).head,
        candidate |-> None, lease |-> remote]])
  /\ job' = [job EXCEPT ![a] = [Idle EXCEPT !.at = "freeze", !.op = "push"]]
  /\ UNCHANGED <<lock, preserved, refs, shared, history>>

\* The commander's finalize of a reviewed tree, with its disposition.
BeginCommander(a, c, op) ==
  /\ op \in {"commander", "release"} \cap Ops
  /\ Free(a) /\ Status(a, "active") /\ c \in tree[a].dirty
  /\ SetTree(a, Committed(a, c))
  /\ job' = [job EXCEPT ![a] = [Idle EXCEPT !.at = "freeze", !.op = op]]
  /\ UNCHANGED <<database, refs, shared, history>>

\* Verb "reconcile" on an active row: what HEAD has is what is reviewed.
BeginReconcile(a) ==
  /\ "reconcile" \in Ops
  /\ Free(a) /\ Status(a, "active")
  /\ job' = [job EXCEPT ![a] = [Idle EXCEPT !.at = "freeze", !.op = "reconcile"]]
  /\ UNCHANGED <<database, refs, tree, shared, history>>

\* Verb "close-out": uncommitted work goes to a recovery ref first, then the
\* row is finalized as far as it is not yet, and torn down.
BeginCloseOut(a) ==
  LET entry == [Idle EXCEPT !.op = "close-out"]
      reviewed == SameAsReviewed(a, target, tree[a].head)
  IN /\ "close-out" \in Ops
     /\ Free(a)
     /\ recovery' = Snapshot(a)
     /\ SetTree(a, [tree[a] EXCEPT !.dirty = {}])
     /\ \/ /\ Status(a, "active")
           /\ job' = [job EXCEPT ![a] = [entry EXCEPT !.at = "freeze"]]
           /\ UNCHANGED candidate
        \/ /\ Status(a, "ready") /\ reviewed
           /\ SetCandidate(a, tree[a].head)
           /\ job' = [job EXCEPT ![a] =
                [entry EXCEPT !.at = "lock", !.expected = target, !.attested = TRUE]]
        \/ /\ Status(a, "ready") /\ ~reviewed
           /\ UNCHANGED <<candidate, job>>
        \/ /\ Status(a, "integrated")
           /\ job' = [job EXCEPT ![a] = [entry EXCEPT !.at = "close"]]
           /\ UNCHANGED candidate
     /\ UNCHANGED <<database, frozen, shared, history>>

\* A ready row is repaired by what a human attests: a fresh commit, the HEAD
\* a reconcile names, or the resolution registered as the candidate.
Attested(a, op) ==
  job' = [job EXCEPT ![a] = [at |-> "lock", op |-> op, expected |-> target, attested |-> TRUE]]

BeginRepair(a, c, op) ==
  /\ op \in {"commander", "release"}
  /\ Free(a) /\ Status(a, "ready") /\ c \in tree[a].dirty
  /\ MayMoveHead(a)
  /\ SetTree(a, Committed(a, c))
  /\ SetCandidate(a, Committed(a, c).head)
  /\ Attested(a, op)
  /\ UNCHANGED <<database, frozen, recovery, shared, history>>

BeginReconcileReady(a) ==
  /\ Free(a) /\ Status(a, "ready")
  /\ SetCandidate(a, tree[a].head)
  /\ Attested(a, "reconcile")
  /\ UNCHANGED <<database, frozen, recovery, tree, shared, history>>

BeginConfirm(a) ==
  /\ Free(a) /\ Status(a, "ready")
  /\ candidate[a] = tree[a].head
  /\ Attested(a, "reconcile")
  /\ UNCHANGED <<database, refs, tree, shared, history>>

-----------------------------------------------------------------------------
(* Freeze, rebase, proof and compare-and-swap.                              *)

\* finalizeLocalCommit: the reviewed commit gets its ref before the check
\* for uncommitted work, and the row becomes ready after it; then the target
\* is read.
Freeze(a) ==
  /\ At(a, "freeze")
  /\ SetFrozen(a, tree[a].head)
  /\ \/ /\ IsClean(a)
        /\ SetRow(a, [row[a] EXCEPT !.status = "ready"])
        /\ job' = [job EXCEPT ![a].at = "lock", ![a].expected = target]
     \/ /\ ~IsClean(a)
        /\ Finish(a)
        /\ UNCHANGED row
  /\ UNCHANGED <<lock, preserved, candidate, recovery, tree, shared, history>>

\* Mutant: the lock of another row is taken over.
AcquireLockAnyway(a) ==
  /\ At(a, "lock")
  /\ lock' = [owner |-> a, expected |-> job[a].expected]
  /\ Goto(a, IF job[a].attested THEN "advance" ELSE "replay")
  /\ UNCHANGED <<row, preserved, refs, tree, shared, history>>

\* acquireIntegrationLock: a row that exists refuses everyone, its owner too.
AcquireLock(a) ==
  /\ At(a, "lock")
  /\ \/ /\ lock = None
        /\ lock' = [owner |-> a, expected |-> job[a].expected]
        /\ Goto(a, IF job[a].attested THEN "advance" ELSE "replay")
     \/ /\ lock # None
        /\ Finish(a)
        /\ UNCHANGED lock
  /\ UNCHANGED <<row, preserved, refs, tree, shared, history>>

\* The catch of continueFrozenFinalization before the target has advanced.
BackToFrozen(a) ==
  /\ SetCandidate(a, None)
  /\ SetTree(a, ResetTo(a, frozen[a]))
  /\ ReleaseExactLock(a, job[a].expected)
  /\ Finish(a)

\* The replay is onto the target ref itself, not onto the commit that was
\* read.  A replay that stops keeps its state for a repair; git refuses to
\* replay over uncommitted work.
Replay(a) ==
  LET replay == Replayed(ReplayPlan(target, row[a].base, tree[a].head))
      reviewable == MergeBase(frozen[a], job[a].expected) = row[a].base
  IN /\ At(a, "replay")
     /\ \/ /\ ~reviewable
           /\ BackToFrozen(a)
        \/ /\ reviewable /\ IsClean(a) /\ Complete(replay)
           /\ SetTree(a, [tree[a] EXCEPT !.head = replay.done])
           /\ Goto(a, "prove")
           /\ UNCHANGED <<lock, candidate>>
        \/ /\ reviewable /\ IsClean(a) /\ ~Complete(replay)
           /\ SetTree(a, [tree[a] EXCEPT !.replay =
                [done |-> replay.done, left |-> replay.left, staged |-> None]])
           /\ ReleaseExactLock(a, job[a].expected)
           /\ Finish(a)
           /\ UNCHANGED candidate
        \/ /\ reviewable /\ ~IsClean(a)
           /\ ReleaseExactLock(a, job[a].expected)
           /\ Finish(a)
           /\ UNCHANGED <<tree, candidate>>
     /\ UNCHANGED <<row, preserved, frozen, recovery, shared, history>>

\* The descendant proof and the equality of effects.
Prove(a) ==
  /\ At(a, "prove")
  /\ \/ /\ SameAsReviewed(a, job[a].expected, tree[a].head)
        /\ SetCandidate(a, tree[a].head)
        /\ Goto(a, "advance")
        /\ UNCHANGED <<lock, tree>>
     \/ /\ ~SameAsReviewed(a, job[a].expected, tree[a].head)
        /\ BackToFrozen(a)
  /\ UNCHANGED <<row, preserved, frozen, recovery, shared, history>>

\* The last checks and update-ref with the expected old commit.
MayAdvance(a) ==
  LET expected == job[a].expected
  IN /\ target = expected
     /\ job[a].attested => IsAncestor(expected, candidate[a])
     /\ ~Overlap(expected, candidate[a])
     /\ HoldsLock(a, expected)

Advance(a) ==
  /\ At(a, "advance")
  /\ \/ /\ MayAdvance(a)
        /\ target' = candidate[a]
        /\ landing' = landing \cup {a}
        /\ Goto(a, "carry")
        /\ UNCHANGED <<lock, candidate, tree>>
     \/ /\ ~MayAdvance(a) /\ ~job[a].attested
        /\ BackToFrozen(a)
        /\ UNCHANGED <<target, landing>>
     \/ /\ ~MayAdvance(a) /\ job[a].attested
        /\ ReleaseExactLock(a, job[a].expected)
        /\ Finish(a)
        /\ UNCHANGED <<target, landing, candidate, tree>>
  /\ UNCHANGED <<row, preserved, frozen, recovery, remote, primary, made, waived, crashes>>

\* The operator's checkout follows, when it is on the target; what fails
\* from here on keeps the lock, for reconciliation to prove the advance.
Carry(a) ==
  /\ At(a, "carry")
  /\ \/ /\ ~Overlap(job[a].expected, candidate[a]) /\ target = candidate[a]
        /\ primary' = [primary EXCEPT !.shows = IF @ = None THEN None ELSE candidate[a]]
        /\ Goto(a, "record")
     \/ /\ Overlap(job[a].expected, candidate[a]) \/ target # candidate[a]
        /\ Finish(a)
        /\ UNCHANGED primary
  /\ UNCHANGED <<database, refs, tree, target, remote, history>>

\* Mutants: a status that is none of the table's; the obligation keeps the
\* reviewed commit, which the rebase may have replaced.
IntegratedMisspelt(a) == [row[a] EXCEPT !.status = "landed"]
IntegratedOwingFrozen(a) ==
  [row[a] EXCEPT
     !.status = "integrated", !.integrated = candidate[a], !.record = candidate[a],
     !.debt = IF @ = None THEN None
              ELSE [@ EXCEPT !.phase = "push-pending", !.candidate = frozen[a]]]

\* The row markIntegrated writes, with its record, in one transaction.
Integrated(a) ==
  [row[a] EXCEPT
     !.status = "integrated", !.integrated = candidate[a], !.record = candidate[a],
     !.debt = IF @ = None THEN None
              ELSE [@ EXCEPT !.phase = "push-pending", !.candidate = candidate[a]]]

Record(a) ==
  LET proved == /\ CheckoutAt(candidate[a])
                /\ HoldsLock(a, job[a].expected)
                /\ ~OwesPush(row[a].debt)
  IN /\ At(a, "record")
     /\ \/ /\ proved
           /\ SetRow(a, Integrated(a))
           /\ landing' = landing \ {a}
           /\ Goto(a, "unlock")
        \/ /\ ~proved
           /\ Finish(a)
           /\ UNCHANGED <<row, landing>>
     /\ UNCHANGED <<lock, preserved, refs, tree, shared, made, waived, crashes>>

\* What a verb does once its work is recorded and the lock released.
AfterIntegration(a) ==
  LET owes == OwesPush(row[a].debt)
  IN CASE job[a].op = "push" -> IF owes /\ row[a].debt.frozen = frozen[a]
                                THEN "push" ELSE "idle"
       [] job[a].op \in {"reconcile", "commander"} -> IF owes THEN "idle" ELSE "recycle"
       [] job[a].op = "release" -> IF owes THEN "idle" ELSE "release"
       [] job[a].op = "close-out" -> "close"
       [] job[a].op = "landed" -> "idle"

ProceedTo(a, place) == IF place = "idle" THEN Finish(a) ELSE Goto(a, place)

Unlock(a) ==
  /\ At(a, "unlock")
  /\ ReleaseExactLock(a, job[a].expected)
  /\ ProceedTo(a, AfterIntegration(a))
  /\ UNCHANGED <<row, preserved, refs, tree, shared, history>>

-----------------------------------------------------------------------------
(* Push, recycle and teardown of an integrated row.                         *)

\* pushExactAuthorizedIntegratedCandidate: forced, with the lease on the
\* commit the authority names.  The transport may fail before or after the
\* remote takes it, so only the readback counts.
PushCandidate(a) ==
  /\ At(a, "push")
  /\ \/ remote = row[a].debt.lease /\ remote' = candidate[a]
     \/ UNCHANGED remote
  /\ Goto(a, "readback")
  /\ UNCHANGED <<database, refs, tree, target, primary, history>>

Readback(a) ==
  /\ At(a, "readback")
  /\ \/ /\ remote = candidate[a]
        /\ SetRow(a, [row[a] EXCEPT !.debt.phase = "push-succeeded"])
        /\ Goto(a, "settle")
     \/ Finish(a) /\ UNCHANGED row
  /\ UNCHANGED <<lock, preserved, refs, tree, shared, history>>

Settle(a) ==
  /\ At(a, "settle")
  /\ SetRow(a, [row[a] EXCEPT !.debt = None])
  /\ Goto(a, "recycle")
  /\ UNCHANGED <<lock, preserved, refs, tree, shared, history>>

\* Mutant: the record of the life that ends is kept.
RecycledRecordKept(a) ==
  [row[a] EXCEPT !.status = "active", !.base = row[a].integrated,
                 !.integrated = None, !.debt = None]

\* recycleFinalized: the row becomes active again in one transaction, the
\* candidate ref goes after it.
Recycled(a) == [status |-> "active", base |-> row[a].integrated,
                integrated |-> None, record |-> None, debt |-> None]

MayRecycle(a) ==
  /\ Status(a, "integrated") /\ ~OwesPush(row[a].debt)
  /\ IsAncestor(row[a].integrated, target)

Recycle(a) ==
  /\ At(a, "recycle")
  /\ \/ /\ MayRecycle(a)
        /\ SetRow(a, Recycled(a))
        /\ Goto(a, "forget")
     \/ /\ ~MayRecycle(a)
        /\ Finish(a) /\ UNCHANGED row
  /\ UNCHANGED <<lock, preserved, refs, tree, shared, history>>

Forget(a) ==
  /\ At(a, "forget")
  /\ SetCandidate(a, None)
  /\ ProceedTo(a, IF job[a].op = "landed" THEN "unlock" ELSE "idle")
  /\ UNCHANGED <<database, frozen, recovery, tree, shared, history>>

\* The worktree and its branch are removed before the row becomes terminal.
Removed(a) == [tree[a] EXCEPT !.present = FALSE, !.head = None, !.dirty = {}]

HasIntegrationProof(a) ==
  /\ row[a].record = row[a].integrated
  /\ IsAncestor(row[a].integrated, target)

Release(a) ==
  LET proved == /\ Status(a, "integrated") /\ ~OwesPush(row[a].debt)
                /\ IsClean(a) /\ tree[a].head = row[a].integrated
                /\ HasIntegrationProof(a)
  IN /\ At(a, "release")
     /\ \/ proved /\ SetTree(a, Removed(a)) /\ Goto(a, "retire")
        \/ ~proved /\ Finish(a) /\ UNCHANGED tree
     /\ UNCHANGED <<database, refs, shared, history>>

\* The candidate and the frozen ref a push obligation is bound to.
PushRefsAgree(a) ==
  /\ candidate[a] = row[a].integrated
  /\ OwesPush(row[a].debt) => row[a].debt.frozen = frozen[a]

\* A HEAD that drifted back to the frozen commit is put forward again.
Healed(a) ==
  IF OwesPush(row[a].debt) /\ tree[a].head = row[a].debt.frozen /\ IsClean(a)
  THEN row[a].integrated ELSE tree[a].head

\* The obligation is dropped when the remote shows its commit, or was seen
\* to; a remote that cannot be read leaves it.
Probed(a) ==
  LET debt == row[a].debt
  IN IF ~OwesPush(debt) THEN {debt}
     ELSE IF debt.phase = "push-succeeded" THEN {None}
     ELSE {debt} \cup (IF remote = debt.candidate THEN {None} ELSE {})

\* closeOutRelease up to the removal of the worktree.
Close(a) ==
  LET proved == /\ Status(a, "integrated") /\ IsClean(a)
                /\ Healed(a) = row[a].integrated /\ HasIntegrationProof(a)
  IN /\ At(a, "close")
     /\ \/ /\ PushRefsAgree(a)
           /\ \E debt \in Probed(a) : SetRow(a, [row[a] EXCEPT !.debt = debt])
           /\ \/ proved /\ SetTree(a, Removed(a)) /\ Goto(a, "retire")
              \/ ~proved /\ SetTree(a, [tree[a] EXCEPT !.head = Healed(a)]) /\ Finish(a)
        \/ /\ ~PushRefsAgree(a)
           /\ Finish(a) /\ UNCHANGED <<row, tree>>
     /\ UNCHANGED <<lock, preserved, refs, shared, history>>

\* Mutant: the obligation ends with the row.
RetiredForgetting(a) ==
  /\ SetRow(a, [row[a] EXCEPT !.status = "cleaned", !.debt = None])
  /\ UNCHANGED preserved

\* The row becomes terminal; an obligation that was not met goes to
\* preserved_work in the same transaction, since a reuse of the row clears it.
Retired(a) ==
  /\ SetRow(a, [row[a] EXCEPT !.status = "cleaned"])
  /\ preserved' = IF row[a].debt # None /\ row[a].debt.phase = "push-pending"
                  THEN preserved \cup {row[a].debt.candidate} ELSE preserved

Retire(a) ==
  /\ At(a, "retire")
  /\ Retired(a)
  /\ Finish(a)
  /\ UNCHANGED <<lock, refs, tree, shared, history>>

\* A close-out or cleanup that finds the worktree gone completes the row.
CompleteTeardown(a) ==
  /\ IsIdle(a) /\ Status(a, "integrated") /\ ~tree[a].present
  /\ HasIntegrationProof(a)
  /\ Retired(a)
  /\ UNCHANGED <<lock, refs, tree, shared, job, history>>

-----------------------------------------------------------------------------
(* reconcile_finalization, sync_worktree_to_target, resolve_conflict_hunk.  *)

\* repairPrimaryCheckoutAfterInterruptedCas: the operator's checkout is
\* brought forward unless it is there already, or others have advanced the
\* target since; a local change in the way is refused.
RepairCheckout(expected, commit) ==
  LET shown == CheckoutAt(commit) \/ target # commit
  IN /\ shown \/ ~Overlap(expected, commit)
     /\ primary' = IF shown THEN primary ELSE [primary EXCEPT !.shows = commit]

\* The candidate landed and was not recorded: the lock that is still held
\* has the commit it was advanced from.  The checkout is brought forward
\* before the effects are compared.
ReconcileLanded(a) ==
  LET expected == lock.expected
      same == Effect(row[a].base, frozen[a]) = Effect(expected, candidate[a])
  IN /\ AwaitsRecovery(a)
     /\ candidate[a] # None /\ candidate[a] = tree[a].head
     /\ IsAncestor(candidate[a], target)
     /\ OwnsLock(a)
     /\ RepairCheckout(expected, candidate[a])
     /\ \/ /\ same
           /\ SetRow(a, Integrated(a))
           /\ landing' = landing \ {a}
           /\ job' = [job EXCEPT ![a] =
                [Idle EXCEPT !.op = "landed", !.expected = expected,
                             !.at = IF row[a].debt = None THEN "recycle" ELSE "unlock"]]
        \/ ~same /\ UNCHANGED <<row, landing, job>>
     /\ UNCHANGED <<lock, preserved, refs, tree, target, remote, made, waived, crashes>>

\* Nothing landed: the frozen commit is finalized again.
ReconcileFrozen(a) ==
  /\ AwaitsRecovery(a)
  /\ candidate[a] = None /\ tree[a].head = frozen[a] /\ IsClean(a)
  /\ job' = [job EXCEPT ![a] =
       [Idle EXCEPT !.at = "lock", !.op = "reconcile", !.expected = target]]
  /\ UNCHANGED <<database, refs, tree, shared, history>>

\* An integrated row is recycled, once the remote proves what it owes.
ReconcileIntegrated(a) ==
  /\ Free(a) /\ Status(a, "integrated")
  /\ PushRefsAgree(a)
  /\ Healed(a) = row[a].integrated
  /\ SetTree(a, [tree[a] EXCEPT !.head = Healed(a)])
  /\ \/ /\ OwesPush(row[a].debt) => remote = candidate[a]
        /\ SetRow(a, [row[a] EXCEPT !.debt = None])
        /\ job' = [job EXCEPT ![a] = [Idle EXCEPT !.at = "recycle", !.op = "reconcile"]]
     \/ /\ OwesPush(row[a].debt) /\ remote # candidate[a]
        /\ UNCHANGED <<row, job>>
  /\ UNCHANGED <<lock, preserved, refs, shared, history>>

\* The replay as GitHistory has it, of a worktree where it is stopped.
Stopped(a) ==
  [orig |-> tree[a].head, done |-> tree[a].replay.done, left |-> tree[a].replay.left]

AfterReplay(a, replay) ==
  IF Complete(replay)
  THEN [tree[a] EXCEPT !.head = replay.done, !.replay = None]
  ELSE [tree[a] EXCEPT !.replay =
         [done |-> replay.done, left |-> replay.left, staged |-> None]]

\* How a conflict in the first patch left may be resolved: by content that
\* takes both sides in, or by the target's side alone, which leaves nothing.
Resolutions(a) == {<<Reworked(tree[a].replay.left[1])>>, Root}

Waive(a, resolution) ==
  waived' = IF resolution = Root
            THEN waived \cup {<<tree[a].replay.left[1].of, "resolution">>} ELSE waived

\* An agent edits the conflicting files and stages them.
ResolveByHand(a, resolution) ==
  /\ IsIdle(a) /\ Paused(a) /\ tree[a].replay.staged = None
  /\ resolution \in Resolutions(a)
  /\ SetTree(a, [tree[a] EXCEPT !.replay.staged = resolution])
  /\ Waive(a, resolution)
  /\ UNCHANGED <<database, refs, shared, job, made, landing, crashes>>

\* resolve_conflict_hunk stages the choice and continues; a replay that is
\* then complete is registered as the candidate, and nothing lands.
ResolveHunk(a, resolution) ==
  LET replay == Resolved(Stopped(a), resolution)
  IN /\ IsIdle(a) /\ Status(a, "ready") /\ Paused(a) /\ tree[a].replay.staged = None
     /\ resolution \in Resolutions(a)
     /\ SetTree(a, AfterReplay(a, replay))
     /\ IF Complete(replay) THEN SetCandidate(a, replay.done) ELSE UNCHANGED candidate
     /\ Waive(a, resolution)
     /\ UNCHANGED <<database, frozen, recovery, shared, job, made, landing, crashes>>

\* Mode "continue": a resolution that kept the reviewed effect is finalized,
\* any other waits for a human's attestation.
ContinueReplay(a) ==
  LET replay == Resolved(Stopped(a), tree[a].replay.staged)
      same == Complete(replay) /\ SameAsReviewed(a, target, replay.done)
  IN /\ IsIdle(a) /\ Status(a, "ready") /\ Paused(a) /\ tree[a].replay.staged # None
     /\ candidate[a] \in {None, HeadOf(a)}
     /\ SetTree(a, AfterReplay(a, replay))
     /\ \/ same /\ SetCandidate(a, replay.done) /\ Attested(a, "reconcile")
        \/ ~same /\ UNCHANGED <<candidate, job>>
     /\ UNCHANGED <<database, frozen, recovery, shared, history>>

\* Mode "abort", and the choice "abort" of resolve_conflict_hunk.
AbortReplay(a) ==
  /\ IsIdle(a) /\ Status(a, "ready") /\ Paused(a)
  /\ SetTree(a, [tree[a] EXCEPT !.replay = None])
  /\ UNCHANGED <<database, refs, shared, job, history>>

\* Mode "rerebase": the reviewed work is put on the target of today, and
\* left there for a human to attest.
Rerebase(a) ==
  LET replay == Replayed(ReplayPlan(target, row[a].base, tree[a].head))
  IN /\ AwaitsRecovery(a)
     /\ MayMoveHead(a)
     /\ tree[a].head = frozen[a] /\ IsClean(a)
     /\ SetTree(a, AfterReplay(a, replay))
     /\ UNCHANGED <<database, refs, shared, job, history>>

\* Mode "restore_frozen": commits above the frozen one leave the branch.
RestoreFrozen(a) ==
  LET above == ChangesOf(tree[a].head) \ ChangesOf(frozen[a])
  IN /\ AwaitsRecovery(a) /\ IsClean(a)
     /\ MayMoveHead(a)
     /\ tree[a].head # frozen[a]
     /\ SetTree(a, ResetTo(a, frozen[a]))
     /\ waived' = waived \cup (above \X {"restore"})
     /\ UNCHANGED <<database, refs, shared, job, made, landing, crashes>>

\* Mutant: the reopen does not ask whether the candidate landed.
LandedUnderLockUnasked(a) == FALSE

\* Mode "reopen_for_edit": refused when the candidate landed under the lock
\* that is held.  Uncommitted work, or commits above the frozen one, get a
\* recovery ref before the reset; the refs and the lock go after the row.
LandedUnderLock(a) ==
  /\ candidate[a] # None /\ IsAncestor(candidate[a], target)
  /\ OwnsLock(a) /\ IsAncestor(lock.expected, candidate[a])

Reopen(a) ==
  /\ AwaitsRecovery(a)
  /\ ~LandedUnderLock(a)
  /\ recovery' = IF IsClean(a) /\ tree[a].head # frozen[a]
                 THEN recovery \cup {tree[a].head} ELSE Snapshot(a)
  /\ SetTree(a, ResetTo(a, frozen[a]))
  /\ SetRow(a, [row[a] EXCEPT !.status = "active", !.debt = None])
  /\ job' = [job EXCEPT ![a] = [Idle EXCEPT !.at = "clear"]]
  /\ UNCHANGED <<lock, preserved, frozen, candidate, shared, history>>

Clear(a) ==
  /\ At(a, "clear")
  /\ SetCandidate(a, None) /\ SetFrozen(a, None)
  /\ lock' = IF OwnsLock(a) THEN None ELSE lock
  /\ Finish(a)
  /\ UNCHANGED <<row, preserved, recovery, tree, shared, history>>

\* sync_worktree_to_target: git first, the row's base after it.  A replay
\* that stops is aborted.
Sync(a) ==
  LET head == tree[a].head
      replay == Replayed(ReplayPlan(target, row[a].base, head))
      behind == IsAncestor(head, target)
      synced == IF behind THEN target ELSE replay.done
  IN /\ Free(a) /\ Status(a, "active")
     /\ ~OwnsLock(a)
     /\ head # target
     /\ IF behind
        THEN \A d \in tree[a].dirty : Near[d] \cap (ChangesOf(target) \ ChangesOf(head)) = {}
        ELSE IsClean(a) /\ Complete(replay)
     /\ SetTree(a, [tree[a] EXCEPT !.head = synced])
     /\ job' = [job EXCEPT ![a] = [Idle EXCEPT !.at = "base", !.expected = target]]
     /\ UNCHANGED <<database, refs, shared, history>>

SyncBase(a) ==
  /\ At(a, "base")
  /\ SetRow(a, [row[a] EXCEPT !.base = job[a].expected])
  /\ Finish(a)
  /\ UNCHANGED <<lock, preserved, refs, tree, shared, history>>

-----------------------------------------------------------------------------
(* Crashes, the operator and the remote.                                    *)

\* The process of a handler dies between two of its durable writes; its
\* mutation claim is reaped as that of a dead owner.
Crash(a) ==
  /\ ~IsIdle(a) /\ crashes < MaxCrashes
  /\ crashes' = crashes + 1
  /\ Finish(a)
  /\ UNCHANGED <<database, refs, tree, shared, made, waived, landing>>

\* It dies while git replays: rebase-merge stays, with nothing unmerged.
CrashInReplay(a) ==
  LET plan == ReplayPlan(target, row[a].base, tree[a].head)
      clean == Len(plan.left) - Len(Replayed(plan).left)
  IN /\ At(a, "replay") /\ IsClean(a) /\ crashes < MaxCrashes
     /\ MergeBase(frozen[a], job[a].expected) = row[a].base
     /\ \E k \in 1..clean :
          SetTree(a, [tree[a] EXCEPT !.replay =
            [done   |-> plan.done \o SubSeq(plan.left, 1, k - 1),
             left   |-> SubSeq(plan.left, k, Len(plan.left)),
             staged |-> <<plan.left[k]>>]])
     /\ crashes' = crashes + 1
     /\ Finish(a)
     /\ UNCHANGED <<database, refs, shared, made, waived, landing>>

OperatorEdit(c) ==
  /\ primary.onRef /\ c \in OperatorWork \ made
  /\ made' = made \cup {c}
  /\ primary' = [primary EXCEPT !.dirty = @ \cup {c}]
  /\ UNCHANGED <<database, refs, tree, target, remote, job, waived, landing, crashes>>

OperatorCommit(c) ==
  /\ primary.onRef /\ primary.shows = target /\ c \in primary.dirty
  /\ target' = Append(target, Written(c))
  /\ primary' = [primary EXCEPT !.shows = target', !.dirty = @ \ {c}]
  /\ UNCHANGED <<database, refs, tree, remote, job, history>>

\* The operator checks out another branch, or the target again.
OperatorSwitch ==
  /\ primary.dirty = {}
  /\ \/ primary.onRef /\ primary.shows = target
     \/ ~primary.onRef
  /\ primary' = [primary EXCEPT !.onRef = ~@, !.shows = IF primary.onRef THEN None ELSE target]
  /\ UNCHANGED <<database, refs, tree, target, remote, job, history>>

\* resolvePreservedWork, by what a push has published.
StillPreserved(pushed) == {commit \in preserved : ~IsAncestor(commit, pushed)}

\* drainCarriedObligations: the terminal rows whose obligation a push met.
Drained(pushed) ==
  {a \in Assignments :
     /\ Status(a, "cleaned") /\ row[a].debt # None
     /\ IsAncestor(row[a].debt.candidate, pushed)}

\* The push of an operator's own session from the primary checkout, fast-
\* forward only, and the obligations it drains.
OperatorPush ==
  /\ primary.onRef /\ remote # target /\ IsAncestor(remote, target)
  /\ remote' = target
  /\ row' = [a \in Assignments |->
               IF a \in Drained(target) THEN [row[a] EXCEPT !.debt = None] ELSE row[a]]
  /\ preserved' = StillPreserved(target)
  /\ UNCHANGED <<lock, refs, tree, target, primary, job, history>>

RemotePush(c) ==
  /\ c \in RemoteWork \ made
  /\ made' = made \cup {c}
  /\ remote' = Append(remote, Written(c))
  /\ UNCHANGED <<database, refs, tree, target, primary, job, waived, landing, crashes>>

-----------------------------------------------------------------------------
Begin(a) ==
  \/ \E c \in Work[a] :
       \/ Edit(a, c) \/ CommitAndStay(a, c) \/ BeginPush(a, c)
       \/ \E op \in AllOps : BeginCommander(a, c, op) \/ BeginRepair(a, c, op)
  \/ BeginReconcile(a) \/ BeginCloseOut(a)
  \/ BeginReconcileReady(a) \/ BeginConfirm(a)

\* The steps of a handler under way.
Step(a) ==
  \/ Freeze(a) \/ AcquireLock(a) \/ Replay(a) \/ Prove(a) \/ Advance(a)
  \/ Carry(a) \/ Record(a) \/ Unlock(a)
  \/ PushCandidate(a) \/ Readback(a) \/ Settle(a) \/ Recycle(a) \/ Forget(a)
  \/ Release(a) \/ Close(a) \/ Retire(a) \/ Clear(a) \/ SyncBase(a)

Recover(a) ==
  \/ ReconcileLanded(a) \/ ReconcileFrozen(a) \/ ReconcileIntegrated(a)
  \/ /\ Paused(a)
     /\ \E resolution \in Resolutions(a) :
          ResolveByHand(a, resolution) \/ ResolveHunk(a, resolution)
  \/ ContinueReplay(a) \/ AbortReplay(a) \/ Rerebase(a) \/ RestoreFrozen(a)
  \/ Reopen(a) \/ Sync(a) \/ CompleteTeardown(a)

Environment ==
  \/ \E a \in Assignments : Crash(a) \/ CrashInReplay(a)
  \/ \E c \in OperatorWork : OperatorEdit(c) \/ OperatorCommit(c)
  \/ OperatorSwitch \/ OperatorPush
  \/ \E c \in RemoteWork : RemotePush(c)

Next ==
  \/ \E a \in Assignments : Begin(a) \/ Step(a) \/ Recover(a)
  \/ Environment

Spec == Init /\ [][Next]_vars

-----------------------------------------------------------------------------
\* The type invariant: every variable holds what the tables, the refs, the
\* checkouts and the handlers of integration.ts can hold.
TypeOK ==
  /\ row \in [Assignments -> Rows]
  /\ lock \in {None} \cup Locks
  /\ preserved \subseteq Commits
  /\ frozen \in [Assignments -> {None} \cup Commits]
  /\ candidate \in [Assignments -> {None} \cup Commits]
  /\ recovery \subseteq Commits
  /\ tree \in [Assignments -> Trees]
  /\ target \in Commits /\ remote \in Commits
  /\ primary \in [onRef : BOOLEAN, shows : {None} \cup Commits, dirty : SUBSET Changes]
  /\ job \in [Assignments -> Jobs]
  /\ made \subseteq Changes
  /\ waived \subseteq Changes \X {"resolution", "restore"}
  /\ landing \subseteq Assignments
  /\ crashes \in 0..MaxCrashes

-----------------------------------------------------------------------------
\* No work is lost: every change someone made is uncommitted in a checkout,
\* or in a commit that a branch or a ref still reaches, unless someone chose
\* to drop it (the promise of the recovery refs, of reset only after a check,
\* and of removal only after proof; integration.ts persistRecoveryRef).
CommitsHeld ==
  (recovery \cup {target, remote} \cup {frozen[a] : a \in Assignments}
    \cup {candidate[a] : a \in Assignments} \cup {tree[a].head : a \in Assignments})
  \ {None}

Uncommitted == primary.dirty \cup UNION {tree[a].dirty : a \in Assignments}

WorkKept ==
  \A c \in made \ RemoteWork :
    \/ c \in Uncommitted
    \/ \E commit \in CommitsHeld : c \in ChangesOf(commit)
    \/ \E w \in waived : w[1] = c

\* A target that a handler advanced and did not record can be reconciled: the
\* row is ready, its lock still names the commit advanced from, and candidate,
\* HEAD and target agree (reconcileFinalization's proofs of a landed row).
LandedIsProvable ==
  \A a \in landing :
    /\ Status(a, "ready") /\ ~Paused(a)
    /\ OwnsLock(a)
    /\ candidate[a] # None /\ tree[a].head = candidate[a]
    /\ IsAncestor(lock.expected, candidate[a]) /\ IsAncestor(candidate[a], target)

\* An integrated row has its record and its candidate ref, and the target
\* reaches them; a row that is not integrated has no record, so a record
\* always speaks of the row's present life (markIntegrated, recycleFinalized).
IntegratedIsProven ==
  \A a \in Assignments :
    /\ Status(a, "integrated") =>
         /\ candidate[a] = row[a].integrated /\ HasIntegrationProof(a)
    /\ row[a].status \in {"active", "ready"} => row[a].record = None

\* The lock of the repository is not left to a row that has come to its end
\* and can neither release it nor be reopened.  The code does not keep this:
\* a handler that dies between the record and the release leaves a lock that
\* a later close-out of the row does not touch.
LockIsNotStranded == lock # None => ~Status(lock.owner, "cleaned")

\* The operator's checkout, when it is on the target, shows another commit
\* only while an unrecorded advance holds the lock, and then the commit that
\* the lock names (read-tree after update-ref; repairPrimaryCheckout...).
CheckoutFollows ==
  primary.onRef /\ primary.shows # target =>
    /\ lock # None /\ lock.owner \in landing
    /\ primary.shows = lock.expected

\* What is still to be pushed is in the local target, where an operator's
\* push publishes it (closeOutRelease carries it on for that reason).
DebtIsInTarget ==
  /\ \A commit \in preserved : IsAncestor(commit, target)
  /\ \A a \in Assignments :
       OwesPush(row[a].debt) => IsAncestor(row[a].debt.candidate, target)

\* A handler advances the target only from the commit its lock names, and
\* only by what was reviewed: the effect of the frozen commit, or the HEAD a
\* human attested, which a close-out is not (cumulativeBinaryEffect).
OnlyReviewedLands ==
  [][\A a \in landing' \ landing :
       /\ HoldsLock(a, target)
       /\ \/ job[a].attested /\ job[a].op # "close-out"
          \/ Effect(target, target') = Effect(row[a].base, frozen[a])]_vars

\* An obligation to push ends when the remote has its commit, or is carried
\* on by preserved_work when the row ends (drainCarriedObligations, Retire).
Owed == preserved \cup {row[a].debt.candidate : a \in {b \in Assignments : OwesPush(row[b].debt)}}

DebtIsDischarged ==
  [][\A commit \in Owed \ Owed' : IsAncestor(commit, remote')]_vars

\* The whole of it implements the abstract landing: the target only grows, by
\* one unacknowledged assignment at a time (acquireIntegrationLock and the
\* exact lock kept over an advance that is not recorded).
Abstract == INSTANCE Landing WITH main <- target, pending <- landing
LandsInTurn == Abstract!Spec
=============================================================================
