----------------------------- MODULE Workspace -----------------------------
(***************************************************************************)
(* The life of managed worktrees (workspace-service.ts): reserved, made,   *)
(* bound to a session, landed or abandoned, torn down and used again, and  *)
(* the sweep and the operator's resolutions of orphans, the managed        *)
(* worktrees and branches that no live row of the database accounts for.   *)
(*                                                                         *)
(* Every call runs in a process of its own and may stop at any step, by an *)
(* error or by dying.  Calls on a live row take its mutation claim;        *)
(* allocation, binding, the sweep and resolutions take none.  What a call  *)
(* checks in one synchronous stretch is one step, and so is every durable  *)
(* change it makes afterwards.                                             *)
(*                                                                         *)
(* A commit is the set of the changes it holds: a worktree's branch only   *)
(* grows.  How a branch lands, rebased and proved, is in Finalization.     *)
(***************************************************************************)
EXTENDS Naturals, FiniteSets

CONSTANTS
  Guids, Sessions, Workers,
  Changes,      \* what may be written in a worktree
  Callers,      \* processes that may run a call at the same time
  Slips,        \* moves the calls do not survive, which a run may include
  MaxCrashes,   \* bound: processes that die within a call
  None, Dead    \* nothing; the claim of a process that died

\* Someone commits in a worktree while it is being removed; a GUID whose
\* rescued work is nowhere else is used again; a GUID is reserved while an
\* earlier allocation of it is on its way, or its worktree made while a second
\* sweep or resolution has yet to remove the orphan that a first one removed.
AllSlips == {"commit-midway", "rescued-again", "late-call"}

ASSUME WorkspaceAssumption ==
  /\ Slips \subseteq AllSlips /\ MaxCrashes \in Nat
  /\ None \notin Callers /\ Dead \notin Callers /\ None # Dead

VARIABLES
  row,        \* assignments, with the integration record of each
  claim,      \* workspace_mutations
  handoff,    \* workspace_handoffs: the phase of an unfinished hand-off
  surface,    \* orphan_surface
  branch,     \* refs/heads/ironclaude/<guid>
  recovery,   \* refs/ironclaude/recovery/<guid>
  tree,       \* git's registered worktrees, and what is uncommitted there
  target,     \* the branch orphans are judged against and merged into
  young,      \* branches whose tip is younger than the sweep's limit
  call,       \* what each caller is running
  made,       \* history: the changes made so far
  dropped,    \* history: the changes an operator chose to drop
  crashes

git == <<branch, recovery, tree, target, young>>
ghosts == <<made, dropped, crashes>>
vars == <<row, claim, handoff, surface, git, call, ghosts>>

Statuses == {"reserved", "materialized", "active", "integrated",
             "abandoned", "cleaned"}
\* What the content of an orphan may have reached elsewhere is only told to
\* the operator; a resolution treats all that is not dirty alike.
Categories == {"dirty", "unmerged"}
Phases == {"none", "granted", "begun", "transferred"}
Commits == SUBSET Changes

\* What recovery_ref names: nothing, the recovery ref, or (in rows written by
\* earlier versions) a commit by its id, which keeps nothing alive.
NoAnchor == [kind |-> "none", is |-> {}]
RefAnchor == [kind |-> "ref", is |-> {}]
Anchors == {NoAnchor, RefAnchor} \cup [kind : {"commit"}, is : Commits]

Rows == [status : Statuses, owner : {None} \cup Sessions,
         worker : {None} \cup Workers, anchor : Anchors,
         landed : {None} \cup Commits]
Trees == [there : BOOLEAN, dirt : Commits]
Surfaced == [tip : Commits, category : Categories]

Reapers == {"sweep", "drop", "merge"}
Claimed == {"abandon", "rescue", "cleanup", "reap"}
Ops == {"allocate", "bind"} \cup Reapers \cup Claimed
Places == {"insert", "add", "materialize", "activate", "compare", "check",
           "commit", "anchor", "abandon", "leave", "prove", "remove",
           "delete", "clean", "look", "expect", "advance"}
Calls == [op : Ops, guid : Guids, at : Places, by : {None} \cup Sessions,
          tip : {None} \cup Commits, category : {None} \cup Categories,
          present : BOOLEAN, force : BOOLEAN, expected : {None} \cup Commits,
          was : {None} \cup Statuses]

\* Nothing is none of the records and sets.
ASSUME NoneAssumption ==
  /\ (\A x \in Commits : x # None) /\ (\A x \in Rows : x # None)
  /\ (\A x \in Trees : x # None) /\ (\A x \in Surfaced : x # None)
  /\ (\A x \in Calls : x # None)

(* --- Rows, worktrees and claims ---------------------------------------- *)
Terminal(g) == row[g].status \in {"integrated", "abandoned", "cleaned"}
IsLive(g) == row[g] # None /\ ~Terminal(g)
IsThere(g) == tree[g] # None /\ tree[g].there
IsClean(g) == tree[g] # None => tree[g].dirt = {}

\* Mutant: only an active row accounts for a worktree.
HasActive(g) == row[g] # None /\ row[g].status = "active"

\* The unique index active_assignment_owner_repository, were s to own g.
IsSoleOf(g, s) ==
  s # None => \A h \in Guids \ {g} : IsLive(h) => row[h].owner # s

\* Orphans are the worktrees and branches for which this is false.
HasNonCleaned(g) == row[g] # None /\ row[g].status # "cleaned"

Transition(g, from, to) ==
  /\ row[g] # None /\ row[g].status = from
  /\ row' = [row EXCEPT ![g].status = to]

IsAt(c, ops, place) == call[c] # None /\ call[c].op \in ops /\ call[c].at = place
\* A call that goes on to make a worktree has read where that begins.
Begin(c, op, g, s, place) ==
  /\ call[c] = None
  /\ call' = [call EXCEPT ![c] =
       [op |-> op, guid |-> g, at |-> place, by |-> s, tip |-> None,
        category |-> None, present |-> FALSE, force |-> FALSE,
        expected |-> IF place = "add" THEN target ELSE None, was |-> None]]
GoTo(c, place) == call' = [call EXCEPT ![c].at = place] /\ UNCHANGED claim

\* Mutant: the claim outlives the call.
KeptClaims(c) == claim

\* The claim is deleted in a finally, whether the call returned or threw.
Released(c) == [g \in Guids |-> IF claim[g] = c THEN None ELSE claim[g]]
End(c) == call' = [call EXCEPT ![c] = None] /\ claim' = Released(c)

\* Mutant: a pending hand-off is not asked for.
MayClaimDespiteHandoff(g) == claim[g] \in {None, Dead}

\* A claim is refused while a hand-off is pending or another process holds
\* one; that of a process proved dead is deleted first.
MayClaim(g) == handoff[g] = "none" /\ claim[g] \in {None, Dead}

\* What no step of a call touches.
Settled == UNCHANGED <<handoff, young, made, crashes>>

(* --- Allocation: ensureSessionWorktree, reserveWorkerWorktree ---------- *)
NewRow(s, w) ==
  [status |-> "reserved", owner |-> s, worker |-> w, anchor |-> NoAnchor,
   landed |-> None]

\* Without the slips, no GUID lives again while only the recovery ref of an
\* earlier life holds what was rescued then (RescueAnchor moves that ref), nor
\* while an allocation that has lost its row may still take the new one for its
\* own.  It may while its orphan is torn down.
MayLiveAgain(g) ==
  /\ "rescued-again" \notin Slips /\ recovery[g] # None => recovery[g] \subseteq target
  /\ "late-call" \notin Slips => \A c \in Callers :
       call[c] # None /\ call[c].guid = g /\ call[c].op = "allocate" => call[c].at = "insert"

\* A tombstone whose worktree is gone is used again in place; any other row
\* of the GUID makes the insert fail.
MayInsert(g) == row[g] # None => row[g].status = "cleaned" /\ tree[g] = None

\* A session that has a live row is given that row, or refused another.
EnsureSession(c, g, s) ==
  /\ \A h \in Guids : IsLive(h) => row[h].owner # s
  /\ Begin(c, "allocate", g, s, "insert")
  /\ UNCHANGED <<row, claim, surface, branch, recovery, tree, target, dropped>>
  /\ Settled

\* The head of the primary checkout, which is on the target, is read for the row.
Insert(c) ==
  /\ IsAt(c, {"allocate"}, "insert")
  /\ LET g == call[c].guid IN
       /\ MayInsert(g) /\ MayLiveAgain(g) /\ IsSoleOf(g, call[c].by)
       /\ row' = [row EXCEPT ![g] = NewRow(call[c].by, None)]
  /\ call' = [call EXCEPT ![c].at = "add", ![c].by = None, ![c].expected = target]
  /\ UNCHANGED <<claim, surface, branch, recovery, tree, target, dropped>>
  /\ Settled

\* One transaction: the caller that inserts the row makes the worktree, and
\* callers that find it wait until it is active, which changes nothing.
ReserveWorker(c, g, w) ==
  /\ row[g] = None /\ MayLiveAgain(g)
  /\ \A h \in Guids : IsLive(h) => row[h].worker # w
  /\ row' = [row EXCEPT ![g] = NewRow(None, w)]
  /\ Begin(c, "allocate", g, None, "add")
  /\ UNCHANGED <<claim, surface, branch, recovery, tree, target, dropped>>
  /\ Settled

\* Without the slip, no worktree is made while a sweep or a resolution that
\* judged the orphan before it has yet to remove what it judged.
MayMake(g) == "late-call" \notin Slips => \A c \in Callers :
  call[c] # None /\ call[c].guid = g /\ call[c].op \in Reapers =>
    call[c].at \notin {"advance", "remove", "delete"}

\* git worktree add -b, from the head that was read: refused when the path
\* exists or is registered, or the branch exists.
AddWorktree(c) ==
  /\ IsAt(c, {"allocate"}, "add")
  /\ LET g == call[c].guid IN
       /\ tree[g] = None /\ branch[g] = None /\ MayMake(g)
       /\ tree' = [tree EXCEPT ![g] = [there |-> TRUE, dirt |-> {}]]
       /\ branch' = [branch EXCEPT ![g] = call[c].expected]
  /\ call' = [call EXCEPT ![c].at = "materialize", ![c].expected = None]
  /\ UNCHANGED <<row, claim, surface, recovery, target, dropped>>
  /\ Settled

Materialize(c) ==
  /\ IsAt(c, {"allocate"}, "materialize")
  /\ Transition(call[c].guid, "reserved", "materialized")
  /\ GoTo(c, "activate")
  /\ UNCHANGED <<surface, branch, recovery, tree, target, dropped>>
  /\ Settled

Activate(c) ==
  /\ IsAt(c, {"allocate"}, "activate")
  /\ Transition(call[c].guid, "materialized", "active")
  /\ End(c)
  /\ UNCHANGED <<surface, branch, recovery, tree, target, dropped>>
  /\ Settled

\* bindWorkerWorktree compares the row and its worktree with what the caller
\* expects; the update that follows asks only that no one owns the row.
BindWorker(c, g, s) ==
  /\ row[g] # None /\ row[g].status = "active" /\ row[g].worker # None
  /\ row[g].owner = None /\ tree[g] # None
  /\ Begin(c, "bind", g, s, "compare")
  /\ UNCHANGED <<row, claim, surface, branch, recovery, tree, target, dropped>>
  /\ Settled

\* Mutant: the update does not ask for an unowned row.
MayBindAnyway(g) == row[g] # None

MayBind(g) == row[g] # None /\ row[g].owner = None

BindOwner(c) ==
  /\ IsAt(c, {"bind"}, "compare")
  /\ MayBind(call[c].guid)
  /\ IsLive(call[c].guid) => IsSoleOf(call[c].guid, call[c].by)
  /\ row' = [row EXCEPT ![call[c].guid].owner = call[c].by]
  /\ End(c)
  /\ UNCHANGED <<surface, branch, recovery, tree, target, dropped>>
  /\ Settled

(* --- Ending a life: abandon, cleanup, reap ----------------------------- *)
\* getWorkspaceAssignment: only its owner may abandon or clean up a row;
\* anyone may reap one.
ClaimCall(c, op, g) ==
  /\ row[g] # None /\ MayClaim(g)
  /\ op # "reap" => row[g].owner # None
  /\ Begin(c, op, g, None, "check")
  /\ claim' = [claim EXCEPT ![g] = c]
  /\ UNCHANGED <<row, surface, branch, recovery, tree, target, dropped>>
  /\ Settled

Proceed(c, place) ==
  /\ call' = [call EXCEPT ![c].at = place, ![c].present = IsThere(call[c].guid),
                          ![c].was = row[call[c].guid].status]
  /\ UNCHANGED <<row, claim, surface, branch, recovery, tree, target, dropped>>
  /\ Settled

\* abandonWorkspaceCore in its plain mode: the row only.
AbandonPlainly(c) ==
  /\ IsAt(c, {"abandon"}, "check")
  /\ IsLive(call[c].guid)
  /\ Transition(call[c].guid, row[call[c].guid].status, "abandoned")
  /\ End(c)
  /\ UNCHANGED <<surface, branch, recovery, tree, target, dropped>>
  /\ Settled

CheckRescue(c) ==
  /\ IsAt(c, {"rescue"}, "check")
  /\ IsLive(call[c].guid)
  /\ Proceed(c, IF IsThere(call[c].guid) THEN "commit" ELSE "abandon")

\* cleanupReservedAssignment and reapReservedAssignment.
DeleteReserved(c) ==
  /\ IsAt(c, {"cleanup", "reap"}, "check")
  /\ LET g == call[c].guid IN
       /\ row[g] # None /\ row[g].status = "reserved" /\ tree[g] = None
       /\ row' = [row EXCEPT ![g] = None]
  /\ End(c)
  /\ UNCHANGED <<surface, branch, recovery, tree, target, dropped>>
  /\ Settled

\* reapLeakedAssignment rescues what still lives; a worktree that is gone
\* leaves its branch, which the recovery ref then names.
CheckReap(c) ==
  /\ IsAt(c, {"reap"}, "check")
  /\ LET g == call[c].guid IN
       /\ IsLive(g) /\ row[g].status # "reserved"
       /\ Proceed(c, IF IsThere(g) THEN "commit" ELSE "anchor")

CheckTerminal(c) ==
  /\ IsAt(c, {"cleanup", "reap"}, "check")
  /\ row[call[c].guid] # None
  /\ row[call[c].guid].status \in {"integrated", "abandoned"}
  /\ Proceed(c, "prove")

\* Without the slip, no commit comes between the last look at a branch and
\* its removal.  (Uncommitted work may come: git removes it only by force.)
IsBeingRemoved(g) ==
  \E c \in Callers : call[c] # None /\ call[c].guid = g
    /\ call[c].at \in {"remove", "delete", "advance", "abandon", "leave"}

MayCommit(g) == "commit-midway" \notin Slips => ~IsBeingRemoved(g)

RescueCommit(c) ==
  /\ IsAt(c, {"rescue", "reap"}, "commit")
  /\ LET g == call[c].guid IN
       /\ IsThere(g) /\ (IsClean(g) \/ MayCommit(g))
       /\ branch' = [branch EXCEPT ![g] = @ \cup tree[g].dirt]
       /\ tree' = [tree EXCEPT ![g].dirt = {}]
  /\ GoTo(c, "anchor")
  /\ UNCHANGED <<row, surface, recovery, target, dropped>>
  /\ Settled

\* Where the branch is gone too, the ref names the base of the row, of which
\* all is in the target.
Rescued(g) == IF branch[g] = None THEN {} ELSE branch[g]

RescueAnchor(c) ==
  /\ IsAt(c, {"rescue", "reap"}, "anchor")
  /\ LET g == call[c].guid IN
       /\ row[g] # None
       /\ recovery' = [recovery EXCEPT ![g] = Rescued(g)]
       /\ row' = [row EXCEPT ![g].anchor = RefAnchor]
  /\ GoTo(c, "abandon")
  /\ UNCHANGED <<surface, branch, tree, target, dropped>>
  /\ Settled

MarkAbandoned(c) ==
  /\ IsAt(c, {"rescue", "reap"}, "abandon")
  /\ LET g == call[c].guid IN
       /\ Transition(g, call[c].was, "abandoned")
  /\ call' = [call EXCEPT ![c].at = "leave", ![c].was = None]
  /\ UNCHANGED <<claim, surface, branch, recovery, tree, target, dropped>>
  /\ Settled

\* git worktree remove refuses a worktree with uncommitted work, unless forced.
MayRemove(g, force) == tree[g] # None /\ (force \/ IsClean(g))

LeaveWorktree(c) ==
  /\ IsAt(c, {"rescue", "reap"}, "leave")
  /\ LET g == call[c].guid IN
       /\ call[c].present => MayRemove(g, FALSE)
       /\ tree' = [tree EXCEPT ![g] = IF call[c].present THEN None ELSE @]
  /\ IF call[c].op = "rescue" THEN End(c)
     ELSE call' = [call EXCEPT ![c].at = "prove", ![c].present = FALSE] /\ UNCHANGED claim
  /\ UNCHANGED <<row, surface, branch, recovery, target, dropped>>
  /\ Settled

\* The commit that recovery_ref stands for.
Anchored(g) ==
  IF row[g].anchor.kind = "commit" THEN row[g].anchor.is ELSE recovery[g]

AbandonIsProved(g) ==
  /\ row[g].anchor # NoAnchor /\ Anchored(g) # None
  /\ IsThere(g) => branch[g] \subseteq Anchored(g)

LandingIsProved(g) ==
  /\ row[g].landed # None /\ row[g].landed \subseteq target
  /\ IsThere(g) => branch[g] = row[g].landed

\* Mutant: what already resolves is left as it is.
AnchorAsIs(g) == UNCHANGED <<row, recovery>>

\* ensureDurableRecoveryAnchor: a commit named by its id gets a ref.
EnsureAnchor(g) ==
  IF row[g].status = "abandoned" /\ row[g].anchor.kind = "commit"
  THEN /\ recovery' = [recovery EXCEPT ![g] = row[g].anchor.is]
       /\ row' = [row EXCEPT ![g].anchor = RefAnchor]
  ELSE UNCHANGED <<row, recovery>>

\* tombstoneTerminalAssignment, up to its first removal.
Prove(c) ==
  /\ IsAt(c, {"cleanup", "reap"}, "prove")
  /\ LET g == call[c].guid IN
       /\ row[g] # None
       /\ IsThere(g) => IsClean(g)
       /\ IF row[g].status = "abandoned" THEN AbandonIsProved(g)
                                         ELSE LandingIsProved(g)
       /\ EnsureAnchor(g)
       /\ call' = [call EXCEPT ![c].at = "remove", ![c].present = IsThere(g)]
  /\ UNCHANGED <<claim, surface, branch, tree, target, dropped>>
  /\ Settled

Tombstoning == {"cleanup", "reap"}

\* The worktree as it was judged is removed; one whose directory was already
\* gone is only unregistered, by force.
RemoveWorktree(c) ==
  /\ IsAt(c, Reapers \cup Tombstoning, "remove")
  /\ LET g == call[c].guid
         removes == call[c].present \/ call[c].force
     IN /\ removes => MayRemove(g, call[c].force)
        /\ tree' = [tree EXCEPT ![g] = IF removes THEN None ELSE @]
        /\ dropped' = IF removes /\ call[c].category = "dirty"
                      THEN dropped \cup tree[g].dirt ELSE dropped
  /\ call' = [call EXCEPT ![c].at = "delete", ![c].present = FALSE,
                          ![c].force = FALSE, ![c].category = None]
  /\ UNCHANGED <<row, claim, surface, branch, recovery, target>>
  /\ Settled

\* git branch -D, whatever the branch holds by now; refused while a worktree
\* has it checked out.
DeleteBranch(c) ==
  LET g == call[c].guid IN
  /\ branch[g] # None => tree[g] = None
  /\ branch' = [branch EXCEPT ![g] = None]
  /\ UNCHANGED <<recovery, tree, target>>

DeleteOwnBranch(c) ==
  /\ IsAt(c, Tombstoning, "delete")
  /\ DeleteBranch(c)
  /\ GoTo(c, "clean")
  /\ UNCHANGED <<row, surface, dropped>>
  /\ Settled

\* A push the row still owes is carried over in the same transaction: it is
\* followed in Finalization.
MarkCleaned(c) ==
  /\ IsAt(c, Tombstoning, "clean")
  /\ LET g == call[c].guid IN
       /\ row[g] # None
       /\ Transition(g, row[g].status, "cleaned")
  /\ End(c)
  /\ UNCHANGED <<handoff, surface, git, ghosts>>

(* --- Orphans: reapAmbiguousOrphans and resolveOrphan ------------------- *)
\* reconcileRepository: a registered worktree that no row accounts for.
IsAmbiguous(g) == tree[g] # None /\ ~HasNonCleaned(g)
IsListed(g) == IsAmbiguous(g) \/ branch[g] # None

\* The sweep lists what is there once and comes to each GUID later; rows of
\* orphans that have gone are pruned from the listing.
ListOrphan(c, g) ==
  /\ IsListed(g) /\ call[c] = None
  /\ call' = [call EXCEPT ![c] =
       [op |-> "sweep", guid |-> g, at |-> "look", by |-> None, tip |-> None,
        category |-> None, present |-> IsAmbiguous(g), force |-> FALSE,
        expected |-> None, was |-> None]]
  /\ UNCHANGED <<row, claim, surface, branch, recovery, tree, target, dropped>>
  /\ Settled

PruneSurface(g) ==
  /\ ~IsListed(g) /\ surface[g] # None
  /\ surface' = [surface EXCEPT ![g] = None]
  /\ UNCHANGED <<row, claim, call, branch, recovery, tree, target, dropped>>
  /\ Settled

Surface(g, tip, category) ==
  surface' = [surface EXCEPT ![g] = [tip |-> tip, category |-> category]]

Eligible(g) == ~HasNonCleaned(g) /\ branch[g] # None /\ g \notin young
IsMerged(tip) == tip \subseteq target

SweepPreserves(c) ==
  /\ IsAt(c, {"sweep"}, "look")
  /\ LET g == call[c].guid
         dirty == call[c].present /\ IsThere(g) /\ ~IsClean(g)
     IN /\ Eligible(g)
        /\ dirty \/ ~IsMerged(branch[g])
        /\ Surface(g, branch[g], IF dirty THEN "dirty" ELSE "unmerged")
  /\ End(c)
  /\ UNCHANGED <<row, branch, recovery, tree, target, dropped>>
  /\ Settled

SweepReaps(c) ==
  /\ IsAt(c, {"sweep"}, "look")
  /\ LET g == call[c].guid
         there == call[c].present /\ IsThere(g)
     IN /\ Eligible(g)
        /\ there => IsClean(g)
        /\ IsMerged(branch[g])
        /\ call' = [call EXCEPT ![c].at = "remove", ![c].present = there,
                                ![c].force = call[c].present /\ ~there]
  /\ UNCHANGED <<row, claim, surface, branch, recovery, tree, target, dropped>>
  /\ Settled

\* The operator answers to what the surface showed, some time later.  The
\* short id binds the answer to the tip; the answer may name the category it
\* was shown, which matters to the drop of what is dirty alone.
ResolveOrphan(c, g, action, named) ==
  /\ surface[g] # None /\ call[c] = None
  /\ named => action = "drop" /\ surface[g].category = "dirty"
  /\ call' = [call EXCEPT ![c] =
       [op |-> action, guid |-> g, at |-> "look", by |-> None,
        tip |-> surface[g].tip,
        category |-> IF named THEN "dirty" ELSE None,
        present |-> FALSE, force |-> FALSE, expected |-> None, was |-> None]]
  /\ UNCHANGED <<row, claim, surface, branch, recovery, tree, target, dropped>>
  /\ Settled

\* findOrphanSurfaceRow by the short id, and the checks every action shares.
IsAsSurfaced(c) ==
  LET g == call[c].guid IN
  /\ surface[g] # None /\ surface[g].tip = call[c].tip
  /\ branch[g] # None /\ branch[g] = surface[g].tip
  /\ ~HasNonCleaned(g)

\* Uncommitted work goes only when the row and the answer both said dirty.
DirtIsConsented(c) ==
  surface[call[c].guid].category = "dirty" /\ call[c].category = "dirty"

Drop(c) ==
  /\ IsAt(c, {"drop"}, "look") /\ IsAsSurfaced(c)
  /\ LET g == call[c].guid
         dirty == IsThere(g) /\ ~IsClean(g)
     IN /\ dirty => DirtIsConsented(c)
        /\ call' = [call EXCEPT ![c].at = "remove", ![c].present = IsThere(g),
                                ![c].force = dirty \/ (tree[g] # None /\ ~IsThere(g))]
  /\ UNCHANGED <<row, claim, surface, branch, recovery, tree, target, dropped>>
  /\ Settled

Merge(c) ==
  /\ IsAt(c, {"merge"}, "look") /\ IsAsSurfaced(c)
  /\ LET g == call[c].guid IN
       /\ IsThere(g) => IsClean(g)
       /\ call' = [call EXCEPT ![c].at = IF IsMerged(call[c].tip) THEN "remove" ELSE "advance",
                               ![c].present = IsThere(g),
                               ![c].force = tree[g] # None /\ ~IsThere(g),
                               ![c].expected = IF IsMerged(call[c].tip) THEN None ELSE target]
  /\ UNCHANGED <<row, claim, surface, branch, recovery, tree, target, dropped>>
  /\ Settled

\* A fast-forward or a merge commit, put in place by compare-and-swap without
\* the integration lock; conflicts and overlaps with the operator's work end
\* the call before (Fail).
SwapHolds(c) == target = call[c].expected

AdvanceTarget(c) ==
  /\ IsAt(c, {"merge"}, "advance") /\ SwapHolds(c)
  /\ target' = call[c].expected \cup call[c].tip
  /\ call' = [call EXCEPT ![c].at = "remove", ![c].expected = None]
  /\ UNCHANGED <<row, claim, surface, branch, recovery, tree, dropped>>
  /\ Settled

\* The orphan is off the surface with its branch: a row that outlives the
\* branch is pruned, and an answer to it meets no orphan.
DeleteOrphan(c) ==
  /\ IsAt(c, Reapers, "delete")
  /\ DeleteBranch(c)
  /\ surface' = [surface EXCEPT ![call[c].guid] = None]
  /\ dropped' = IF call[c].op = "drop" THEN dropped \cup call[c].tip ELSE dropped
  /\ End(c)
  /\ UNCHANGED row
  /\ Settled

(* --- Stopping ---------------------------------------------------------- *)
\* A refusal, or an error of git or of the database.
Fail(c) ==
  /\ call[c] # None /\ End(c)
  /\ UNCHANGED <<row, surface, branch, recovery, tree, target, dropped>>
  /\ Settled

Die(c) ==
  /\ \E g \in Guids : claim[g] = c
  /\ crashes < MaxCrashes
  /\ crashes' = crashes + 1
  /\ call' = [call EXCEPT ![c] = None]
  /\ claim' = [g \in Guids |-> IF claim[g] = c THEN Dead ELSE claim[g]]
  /\ UNCHANGED <<row, handoff, surface, git, made, dropped>>

ReapStaleMutations ==
  /\ \E g \in Guids : claim[g] = Dead
  /\ claim' = [g \in Guids |-> IF claim[g] = Dead THEN None ELSE claim[g]]
  /\ UNCHANGED <<row, handoff, surface, git, call, ghosts>>

(* --- Hand-off ---------------------------------------------------------- *)
NoMutation(g) == claim[g] \in {None, Dead}
SetPhase(g, from, to) == handoff[g] = from /\ handoff' = [handoff EXCEPT ![g] = to]
DeadClaimReaped(g) == claim' = [claim EXCEPT ![g] = None]

\* The Commander's grant is a transaction that sees the claim.
GrantHandoff(g) ==
  /\ NoMutation(g)
  /\ row[g] # None /\ row[g].status = "active" /\ row[g].owner # None
  /\ SetPhase(g, "none", "granted") /\ DeadClaimReaped(g)
  /\ UNCHANGED <<row, surface, git, call, ghosts>>

BeginHandoff(g) ==
  /\ NoMutation(g)
  /\ SetPhase(g, "granted", "begun") /\ DeadClaimReaped(g)
  /\ row[g].status = "active" /\ tree[g] # None
  /\ UNCHANGED <<row, surface, git, call, ghosts>>

TransferHandoff(g, s) ==
  /\ SetPhase(g, "begun", "transferred")
  /\ row[g].status = "active" /\ row[g].owner # s /\ tree[g] # None
  /\ IsSoleOf(g, s)
  /\ row' = [row EXCEPT ![g].owner = s]
  /\ UNCHANGED <<claim, surface, git, call, ghosts>>

\* finishHandoff, and releaseHandoff while the source still owns the row.
EndHandoff(g) ==
  /\ handoff[g] # "none"
  /\ handoff' = [handoff EXCEPT ![g] = "none"]
  /\ UNCHANGED <<row, claim, surface, git, call, ghosts>>

(* --- Everything else that happens -------------------------------------- *)
Edit(g, x) ==
  /\ IsThere(g) /\ x \notin made
  /\ tree' = [tree EXCEPT ![g].dirt = @ \cup {x}]
  /\ made' = made \cup {x}
  /\ UNCHANGED <<row, claim, handoff, surface, branch, recovery,
                 target, young, call, dropped, crashes>>

Commit(g) ==
  /\ IsThere(g) /\ ~IsClean(g) /\ branch[g] # None /\ MayCommit(g)
  /\ branch' = [branch EXCEPT ![g] = @ \cup tree[g].dirt]
  /\ tree' = [tree EXCEPT ![g].dirt = {}]
  /\ young' = young \cup {g}
  /\ UNCHANGED <<row, claim, handoff, surface, recovery, target,
                 call, ghosts>>

Age(g) ==
  /\ g \in young /\ young' = young \ {g}
  /\ UNCHANGED <<row, claim, handoff, surface, branch, recovery,
                 tree, target, call, ghosts>>

\* The whole of a finalization, which holds the claim while it runs.
Land(g) ==
  /\ MayClaim(g) /\ row[g] # None
  /\ row[g].status = "active" /\ row[g].owner # None
  /\ IsThere(g) /\ IsClean(g) /\ branch[g] # None
  /\ target' = target \cup branch[g]
  /\ branch' = [branch EXCEPT ![g] = target']
  /\ row' = [row EXCEPT ![g].status = "integrated", ![g].landed = target']
  /\ claim' = [claim EXCEPT ![g] = None]
  /\ UNCHANGED <<handoff, surface, recovery, tree, young,
                 call, made, dropped, crashes>>

OperatorCommits(x) ==
  /\ x \notin made /\ made' = made \cup {x}
  /\ target' = target \cup {x}
  /\ UNCHANGED <<row, claim, handoff, surface, branch, recovery,
                 tree, young, call, dropped, crashes>>

\* The directory of a clean worktree is deleted; git keeps its registration.
DeleteDirectory(g) ==
  /\ IsThere(g) /\ IsClean(g)
  /\ tree' = [tree EXCEPT ![g].there = FALSE]
  /\ UNCHANGED <<row, claim, handoff, surface, branch, recovery,
                 target, young, call, ghosts>>

(* --- The specification ------------------------------------------------- *)
\* A GUID starts unused, as an orphan of a database that was lost, or with a
\* row that an earlier version abandoned.
OrphanTrees(x) ==
  {None, [there |-> FALSE, dirt |-> {}]}
    \cup [there : {TRUE}, dirt : SUBSET (Changes \ x)]
OrphanStarts ==
  UNION {[row : {None}, branch : {x}, tree : OrphanTrees(x)] : x \in Commits}
OldRow(s, x) ==
  [NewRow(s, None) EXCEPT !.status = "abandoned", !.anchor = [kind |-> "commit", is |-> x]]
OldStarts ==
  {[row |-> OldRow(s, x), branch |-> x, tree |-> None] : s \in Sessions, x \in Commits}
Starts == {[row |-> None, branch |-> None, tree |-> None]} \cup OrphanStarts \cup OldStarts

Init ==
  /\ \E starts \in [Guids -> Starts] :
       /\ row = [g \in Guids |-> starts[g].row]
       /\ branch = [g \in Guids |-> starts[g].branch]
       /\ tree = [g \in Guids |-> starts[g].tree]
  /\ made = UNION ({branch[g] : g \in {h \in Guids : branch[h] # None}}
                     \cup {tree[g].dirt : g \in {h \in Guids : tree[h] # None}})
  /\ claim = [g \in Guids |-> None] /\ handoff = [g \in Guids |-> "none"]
  /\ surface = [g \in Guids |-> None] /\ recovery = [g \in Guids |-> None]
  /\ target = {} /\ young = {}
  /\ call = [c \in Callers |-> None]
  /\ dropped = {} /\ crashes = 0

Allocate(c) == Insert(c) \/ AddWorktree(c) \/ Materialize(c) \/ Activate(c)

EndLife(c) ==
  \/ AbandonPlainly(c) \/ CheckRescue(c) \/ DeleteReserved(c) \/ CheckReap(c)
  \/ CheckTerminal(c) \/ RescueCommit(c) \/ RescueAnchor(c) \/ MarkAbandoned(c)
  \/ LeaveWorktree(c) \/ Prove(c) \/ RemoveWorktree(c) \/ DeleteOwnBranch(c)
  \/ MarkCleaned(c)

Orphan(c) ==
  \/ SweepPreserves(c) \/ SweepReaps(c) \/ Drop(c) \/ Merge(c)
  \/ AdvanceTarget(c) \/ DeleteOrphan(c)

Ask(c, g) ==
  \/ \E s \in Sessions : EnsureSession(c, g, s) \/ BindWorker(c, g, s)
  \/ \E w \in Workers : ReserveWorker(c, g, w)
  \/ \E op \in Claimed : ClaimCall(c, op, g)
  \/ ListOrphan(c, g)
  \/ \E action \in {"drop", "merge"}, named \in BOOLEAN :
       ResolveOrphan(c, g, action, named)

Outside(g) ==
  \/ PruneSurface(g)
  \/ GrantHandoff(g) \/ BeginHandoff(g) \/ EndHandoff(g)
  \/ \E s \in Sessions : TransferHandoff(g, s)
  \/ \E x \in Changes : Edit(g, x)
  \/ Commit(g) \/ Age(g) \/ DeleteDirectory(g)
  \/ Land(g)

Next ==
  \/ \E c \in Callers :
       \/ Allocate(c) \/ BindOwner(c) \/ EndLife(c) \/ Orphan(c) \/ Fail(c) \/ Die(c)
       \/ \E g \in Guids : Ask(c, g)
  \/ \E g \in Guids : Outside(g)
  \/ \E x \in Changes : OperatorCommits(x)
  \/ ReapStaleMutations

Spec == Init /\ [][Next]_vars

(* --- Properties -------------------------------------------------------- *)
\* The states the code can be in; in particular a claim that is held by a
\* process that lives is held for a call it is running, so that a call that
\* returned, threw or died leaves nothing that blocks the GUID for good
\* (the finally of withAssignmentMutation, reapDeadAssignmentMutation).
TypeOK ==
  /\ row \in [Guids -> {None} \cup Rows]
  /\ claim \in [Guids -> {None, Dead} \cup Callers]
  /\ handoff \in [Guids -> Phases]
  /\ surface \in [Guids -> {None} \cup Surfaced]
  /\ branch \in [Guids -> {None} \cup Commits]
  /\ recovery \in [Guids -> {None} \cup Commits]
  /\ tree \in [Guids -> {None} \cup Trees]
  /\ call \in [Callers -> {None} \cup Calls]
  /\ {target, made, dropped} \subseteq Commits
  /\ young \subseteq Guids
  /\ crashes \in 0 .. MaxCrashes
  /\ \A c \in Callers, g \in Guids : claim[g] = c =>
       call[c] # None /\ call[c].guid = g /\ call[c].op \in Claimed

Held ==
  UNION ({target, dropped}
    \cup {branch[g] : g \in {h \in Guids : branch[h] # None}}
    \cup {recovery[g] : g \in {h \in Guids : recovery[h] # None}}
    \cup {tree[g].dirt : g \in {h \in Guids : tree[h] # None}})

\* Nothing is lost: every change ever made, committed or not, is still in a
\* worktree or reachable from a branch, a recovery ref or the target, unless
\* it was in an orphan that an operator answered to drop: its branch as it was
\* shown, and, if it was shown as dirty, all that was uncommitted when the
\* worktree was removed, also what was written since.
\* ("Every disposition preserves work by default", of the sweep; "Every failed
\* proof preserves work", of the tombstone; "never-lose-work" throughout.)
NothingIsLost == made \subseteq Held

\* An active row has its worktree and its branch, however sweeps,
\* resolutions, reapers and allocations interleave, but for the slip
\* "late-call": what removes them has first made the row terminal, or has seen
\* that there was none.  (The GUID may be reserved after that: git then makes
\* no worktree until the orphan's is gone, and one teardown is under way.)
ActiveRowsHaveTrees ==
  \A g \in Guids : row[g] # None /\ row[g].status = "active" =>
    tree[g] # None /\ branch[g] # None

\* From grant to finish a hand-off has its assignment to itself: no mutation
\* is under way, the row stays active and its worktree stays.
HandoffIsUndisturbed ==
  \A g \in Guids : handoff[g] # "none" =>
    /\ claim[g] \in {None, Dead}
    /\ row[g] # None /\ row[g].status = "active" /\ tree[g] # None

\* Of several sessions that bind a worker's worktree one wins, for the life
\* of the row: its owner changes only in a transfer of a begun hand-off or
\* when a tombstone is used again.
OneOwnerPerLife ==
  [][\A g \in Guids :
       row[g] # None /\ row'[g] # None /\ row[g].owner # None
         /\ row'[g].owner # row[g].owner =>
       \/ handoff[g] = "begun" /\ handoff'[g] = "transferred"
       \/ row[g].status = "cleaned" /\ row'[g].status = "reserved"]_vars
=============================================================================
