----------------------------- MODULE Authority -----------------------------
(***************************************************************************)
(* Who may do what to git: how a command a human typed (hook-intent.ts) is *)
(* bound to what the human saw, verified against what is there when a      *)
(* session acts on it, used once, and turned into exactly the commit, push *)
(* or landing that was asked for (git-authority.ts, and the lanes of       *)
(* integration.ts and workspace-service.ts that begin with an authority).  *)
(*                                                                         *)
(* One repository.  A session with a live assignment works in the managed  *)
(* worktree of it, or in the primary checkout if it owns that; a session   *)
(* without one may commit and push from the primary checkout.  Between any *)
(* two steps of a call the operator, the other sessions and the remote may *)
(* move.  How a landing survives a moved target, crashes and dirty files   *)
(* is the subject of Finalization: here it fast-forwards or is put off.    *)
(***************************************************************************)
EXTENDS Integers, Sequences, FiniteSets

LOCAL INSTANCE SequencesExt

CONSTANTS
  Sessions,      \* provider-root sessions
  Assignments,   \* assignments; an assignment also names its own branch
  Primary,       \* the primary checkout, and the lane without an assignment
  Branches,      \* the branches the operator has
  Target,        \* the one that work is integrated into
  Files,         \* files; each has one of two contents
  Scopes,        \* the file sets a plan of a session may allow
  Ops,           \* the commands humans type in a run
  MaxPrompts,    \* bound: the commands typed
  MaxMoves,      \* bound: the moves of everything else
  None           \* no commit, no branch, no session, no call

GitOps == {"commit", "push", "commit-and-push"}
LandOps == {"reconcile", "confirm-resolution", "close-out"}
CheckoutOps == {"use-primary-checkout", "return-to-managed-worktree"}
Places == Assignments \cup {Primary}
AllBranches == Branches \cup Assignments

ASSUME AuthorityAssumption ==
  /\ Target \in Branches /\ Primary \notin Assignments
  /\ Assignments \cap Branches = {} /\ None \notin AllBranches
  /\ None \notin [by : Sessions, of : Assignments, old : BOOLEAN]
  /\ Scopes \subseteq SUBSET Files
  /\ Ops \subseteq GitOps \cup LandOps \cup CheckoutOps
  /\ MaxPrompts \in Nat /\ MaxMoves \in Nat

VARIABLES
  refs,     \* refs/heads: the commit of each branch
  remote,   \* the branches of origin
  on,       \* the branch each place has checked out; None: detached, absent
  index,    \* the tree staged in each place
  row,      \* assignments, with whether a hand-off holds the row
  owner,    \* primary_checkout_owners
  scope,    \* the allowed_files of each session's plan
  pending,  \* human_intents: the numbers of the unconsumed ones
  asked,    \* history: every command typed, its intent, and what was there
  call,     \* the tool call each session has under way
  done,     \* history: the deeds of the calls, in order
  moves

repo == <<refs, remote, on, index>>
intents == <<pending, asked>>
vars == <<repo, row, owner, scope, intents, call, done, moves>>

-----------------------------------------------------------------------------
(* Git.  A tree is the set of files that have the second of their contents, *)
(* a commit the sequence of the trees from the root to it.                  *)

Root == << {} >>
TreeOf(commit) == Last(commit)
IsAncestor(old, new) == IsPrefix(old, new)
Difference(t, u) == (t \ u) \cup (u \ t)

Tip(place) == refs[on[place]]

\* Whether, and with what result, git carries the staged changes of a
\* checkout from one commit to another.
MayCarry(place, from, to) ==
  Difference(index[place], TreeOf(from)) \cap Difference(TreeOf(from), TreeOf(to)) = {}
Carried(place, from, to) ==
  Difference(TreeOf(to), Difference(index[place], TreeOf(from)))

\* buildScopedStagedTree: the tree of the commit with the allowed files as staged.
Scoped(commit, staged, files) == (TreeOf(commit) \ files) \cup (staged \cap files)

-----------------------------------------------------------------------------
(* The rows.                                                                *)

NoRow == [status |-> "none", by |-> None, held |-> FALSE, candidate |-> None]
ActiveRow(s) == [NoRow EXCEPT !.status = "active", !.by = s]
IsLive(a) == row[a].status \in {"active", "ready"}
Live(s) == {a \in Assignments : row[a].by = s /\ IsLive(a)}
Closeable(s) ==
  {a \in Assignments : row[a].by = s /\ row[a].status \in {"active", "ready", "integrated"}}

\* The durable and the git identity of a managed worktree agree.
IsManaged(a) == row[a].status # "none" /\ on[a] = a
Bound(s, a) == IsManaged(a) /\ row[a].by = s

Owns(s, a) == owner # None /\ owner.by = s /\ owner.of = a
ModeOf(s, a) == IF Owns(s, a) THEN "primary" ELSE "managed"

\* reapStalePrimaryOwner: terminal, missing on disk, or past its hour.
IsStale(o) == o.old \/ ~IsLive(o.of) \/ on[o.of] = None

\* Mutant: any owner may be replaced.
ReapedAlways(o) == None

\* What is left of an ownership after a look at it.
Reaped(o) == IF o # None /\ IsStale(o) THEN None ELSE o

\* resolveUnassignedPrimaryCheckout
MayUseLane(s) ==
  /\ Live(s) = {}
  /\ owner # None => owner.by = s
  /\ on[Primary] # None

-----------------------------------------------------------------------------
(* What is observed, at the prompt and again when the session acts.         *)

Lane(s, w) == IF w = Primary THEN "unassigned" ELSE ModeOf(s, w)
PathOf(mode, w) == IF mode = "managed" THEN w ELSE Primary
Commits(op) == op \in {"commit", "commit-and-push"}
Pushes(op) == op \in {"push", "commit-and-push"}

\* The remote branch a push goes to.
Destination(op, mode, branch) ==
  IF op = "commit-and-push" /\ mode # "unassigned" THEN Target ELSE branch

\* assertFastForwardPush, and the same over the parent of a new commit
FastForwards(branch) ==
  remote[branch] # None => IsAncestor(remote[branch], refs[branch])

Staged(s, op, mode, path) ==
  IF ~Commits(op) THEN None
  ELSE IF mode = "unassigned" THEN Scoped(Tip(path), index[path], scope[s])
  ELSE index[path]

\* The mode an intent speaks of: use-primary-checkout is always asked for from
\* the worktree, whatever is left of an ownership that is past its time.
ModeSeen(s, op, w) == IF op = "use-primary-checkout" THEN "managed" ELSE Lane(s, w)

Evidence(s, op, mode, path, branch) ==
  [mode   |-> mode,
   branch |-> branch,
   head   |-> refs[branch],
   tree   |-> Staged(s, op, mode, path),
   remote |-> IF Pushes(op) THEN remote[Destination(op, mode, branch)] ELSE None,
   status |-> IF op \in CheckoutOps THEN row[branch].status ELSE None,
   scope  |-> IF Commits(op) /\ mode = "unassigned" THEN scope[s] ELSE None]

\* The checkout a command is about.
Workplace(s, op, w) == IF op \in GitOps THEN PathOf(Lane(s, w), w) ELSE w

\* observeDirectEvidence, the observe...Unassigned... functions and
\* checkoutIntentEvidence
Seen(s, op, w) ==
  LET path == Workplace(s, op, w)
  IN Evidence(s, op, ModeSeen(s, op, w), path, on[path])

MayObserveUnassigned(s, op) ==
  /\ op \in GitOps /\ MayUseLane(s)
  /\ Commits(op) => /\ scope[s] # {}
                    /\ Staged(s, op, "unassigned", Primary) # TreeOf(Tip(Primary))
  /\ Pushes(op) => FastForwards(on[Primary])

MayObserveAssigned(s, op, a) ==
  /\ Bound(s, a)
  /\ op \in GitOps => on[PathOf(ModeOf(s, a), a)] # None
  /\ op \in LandOps => ModeOf(s, a) = "managed"
  /\ op = "use-primary-checkout" => Reaped(owner) = None
  /\ op = "return-to-managed-worktree" => Owns(s, a)

MayObserve(s, op, w) ==
  IF w = Primary THEN MayObserveUnassigned(s, op) ELSE MayObserveAssigned(s, op, w)

\* Mutant: a close-out is matched by the HEAD of the moment.
LiveKey(s, op, w) == Seen(s, op, w)

\* Mutant: every command is matched by the branch alone.
BranchKey(s, op, w) == [Seen(s, op, w) EXCEPT !.head = None, !.tree = None]

\* The expected_evidence of an intent.  closeOutIntentEvidence: that of a
\* close-out is the branch alone, for its recovery moves HEAD.
Key(s, op, w) ==
  IF op = "close-out"
  THEN [mode |-> "managed", branch |-> w, head |-> None, tree |-> None,
        remote |-> None, status |-> None, scope |-> None]
  ELSE Seen(s, op, w)

\* What the human has before them when typing the command.
Before(s, op, w) ==
  LET path == Workplace(s, op, w)
  IN [branch |-> on[path],
      head   |-> IF on[path] = None THEN None ELSE Tip(path),
      staged |-> index[path],
      remote |-> remote,
      scope  |-> scope[s]]

-----------------------------------------------------------------------------
\* Work is staged in every checkout.
Init ==
  /\ refs = [b \in AllBranches |-> Root]
  /\ remote = [b \in AllBranches |-> IF b = Target THEN Root ELSE None]
  /\ row \in [Assignments -> {NoRow} \cup {ActiveRow(s) : s \in Sessions}]
  /\ \A s \in Sessions : Cardinality(Live(s)) <= 1
  /\ on = [p \in Places |->
             IF p = Primary THEN Target ELSE IF IsLive(p) THEN p ELSE None]
  /\ index = [p \in Places |-> IF on[p] = None THEN {} ELSE Files]
  /\ owner = None
  /\ scope \in [Sessions -> Scopes]
  /\ pending = {} /\ asked = << >>
  /\ call = [s \in Sessions |-> None]
  /\ done = << >> /\ moves = 0

-----------------------------------------------------------------------------
(* The command of a human: UserPromptSubmit, issueHumanIntentFromHook.      *)

\* The lane the hook takes: the one assignment of the session, or none.
Addresses(s, op, w) ==
  IF op = "close-out" THEN Closeable(s) = {w}
  ELSE Live(s) = {w} \/ (Live(s) = {} /\ w = Primary)

MayIssue(s, op, w) ==
  /\ Addresses(s, op, w)
  /\ IF op = "close-out" THEN Bound(s, w) ELSE MayObserve(s, op, w)

\* use-primary-checkout reaps a stale owner before it looks for one.
OwnerAfterLook(op) == IF op = "use-primary-checkout" THEN Reaped(owner) ELSE owner

\* issueHumanIntent: the new intent supersedes the equivalent ones.
Prompt(s, op, w) ==
  LET same == {i \in pending :
                 asked[i].by = s /\ asked[i].op = op /\ asked[i].where = w}
  IN /\ Len(asked) < MaxPrompts /\ MayIssue(s, op, w)
     /\ asked' = Append(asked, [by |-> s, op |-> op, where |-> w,
                                key |-> Key(s, op, w), saw |-> Before(s, op, w)])
     /\ pending' = (pending \ same) \cup {Len(asked) + 1}
     /\ owner' = OwnerAfterLook(op)
     /\ UNCHANGED <<repo, row, scope, call, done, moves>>

\* Five minutes pass.
Expire(i) ==
  /\ i \in pending /\ pending' = pending \ {i}
  /\ UNCHANGED <<repo, row, owner, scope, asked, call, done, moves>>

-----------------------------------------------------------------------------
(* The call of a session.                                                   *)

At(s, places) == call[s] # None /\ call[s].at \in places
Goes(s, place) == call' = [call EXCEPT ![s].at = place]
Ends(s) == call' = [call EXCEPT ![s] = None]
WorksOn(s) == PathOf(call[s].seen.mode, call[s].where)
Assigned(s) == call[s].where # Primary

\* workspace_mutations, and assertNoPendingHandoff
HoldsClaim(s, a) == call[s] # None /\ call[s].where = a /\ call[s].at # "verified"
MayClaim(a) == ~row[a].held /\ ~\E s \in Sessions : HoldsClaim(s, a)

\* Mutant: the intent is matched and stays.
KeptIntent(i) == pending

\* consumeMatchingHumanIntent marks the intent it matched.
Consumed(i) == pending \ {i}

\* verifyDirectGitAuthority; the two checkout tools do it under the claim.
Verify(s, op, w) ==
  /\ call[s] = None /\ MayObserve(s, op, w)
  /\ op \in CheckoutOps => MayClaim(w)
  /\ \E i \in pending :
        /\ asked[i].by = s /\ asked[i].op = op /\ asked[i].where = w
        /\ asked[i].key = Key(s, op, w)
        /\ pending' = Consumed(i)
        /\ call' = [call EXCEPT ![s] =
                      [at |-> IF op \in CheckoutOps THEN "claimed" ELSE "verified",
                       id |-> i, op |-> op, where |-> w, seen |-> Seen(s, op, w)]]
  /\ owner' = OwnerAfterLook(op)
  /\ UNCHANGED <<repo, row, scope, asked, done, moves>>

\* withAssignmentMutation
Claim(s) ==
  /\ At(s, {"verified"}) /\ Assigned(s) /\ MayClaim(call[s].where)
  /\ Goes(s, "claimed")
  /\ UNCHANGED <<repo, row, owner, scope, intents, done, moves>>

\* A refusal, an error or the death of the process: nothing else is undone.
Stop(s) ==
  /\ call[s] # None /\ Ends(s)
  /\ UNCHANGED <<repo, row, owner, scope, intents, done, moves>>

\* revalidateAuthorizedCommitState
Stands(s) ==
  /\ IF Assigned(s)
     THEN Bound(s, call[s].where) /\ ModeOf(s, call[s].where) = call[s].seen.mode
     ELSE MayUseLane(s)
  /\ on[WorksOn(s)] = call[s].seen.branch

\* The commit a call is about: as it was seen, or the one it makes.
Made(s) ==
  LET seen == call[s].seen
  IN IF Commits(call[s].op) THEN Append(seen.head, seen.tree) ELSE seen.head

Did(s, kind, branch, from, to) ==
  done' = Append(done, [id |-> call[s].id, by |-> s, where |-> call[s].where,
                        kind |-> kind, branch |-> branch, from |-> from, to |-> to])

RowOf(s) == row[call[s].where]
InManaged(s) == call[s].seen.mode = "managed"
SetStatus(s, status) == row' = [row EXCEPT ![call[s].where].status = status]

-----------------------------------------------------------------------------
(* Commits: finalizePrimaryUnassignedCommit..., finalizeDirectAuthorityCore. *)

StagedNow(s) ==
  LET seen == call[s].seen
      staged == index[WorksOn(s)]
  IN IF Assigned(s) THEN staged ELSE Scoped(seen.head, staged, seen.scope)

\* validateExactCommitState
AsReviewed(s) ==
  LET seen == call[s].seen
  IN /\ on[WorksOn(s)] = seen.branch
     /\ refs[seen.branch] = seen.head /\ StagedNow(s) = seen.tree

\* The lane without an assignment claims nothing and does not revalidate
\* before it commits.
CheckLaneCommit(s) ==
  /\ At(s, {"verified"}) /\ ~Assigned(s) /\ Commits(call[s].op)
  /\ AsReviewed(s) /\ Goes(s, "checked")
  /\ UNCHANGED <<repo, row, owner, scope, intents, done, moves>>

\* A row that is ready takes a plain commit only, as the repair of what is
\* frozen.
CheckCommit(s) ==
  /\ At(s, {"claimed"}) /\ Commits(call[s].op)
  /\ Stands(s) /\ InManaged(s)
  /\ \/ RowOf(s).status = "active"
     \/ RowOf(s).status = "ready" /\ call[s].op = "commit"
  /\ AsReviewed(s) /\ Goes(s, "checked")
  /\ UNCHANGED <<repo, row, owner, scope, intents, done, moves>>

\* createExactCommit: update-ref against the parent, whatever is checked out
\* by then; the call goes on only if that is still the branch.
CreateCommit(s) ==
  LET branch == call[s].seen.branch
      stays == call[s].op = "commit" /\ (Assigned(s) => RowOf(s).status = "active")
  IN /\ At(s, {"checked"}) /\ Commits(call[s].op)
     /\ refs[branch] = call[s].seen.head
     /\ refs' = [refs EXCEPT ![branch] = Made(s)]
     /\ Did(s, "commit", branch, call[s].seen.head, Made(s))
     /\ IF stays \/ on[WorksOn(s)] # branch THEN Ends(s) ELSE Goes(s, "committed")
     /\ UNCHANGED <<remote, on, index, row, owner, scope, intents, moves>>

-----------------------------------------------------------------------------
(* Landings: finalizeReconcileCore, finalizeConfirmResolutionCore,          *)
(* finalizeCloseOutCore, and the last part of the commits above.            *)

CheckLand(s) ==
  /\ At(s, {"claimed"}) /\ call[s].op \in LandOps
  /\ Stands(s) /\ Tip(call[s].where) = Made(s)
  /\ CASE call[s].op = "reconcile" -> RowOf(s).status \in {"active", "ready"}
       [] call[s].op = "confirm-resolution" ->
            RowOf(s).status = "ready" /\ RowOf(s).candidate = Made(s)
       [] OTHER -> RowOf(s).status \in {"active", "ready", "integrated"}
  /\ Goes(s, "checked")
  /\ UNCHANGED <<repo, row, owner, scope, intents, done, moves>>

MayLand(s) ==
  /\ Assigned(s) /\ on[call[s].where] = call[s].where
  /\ \/ At(s, {"committed"})
     \/ At(s, {"checked"}) /\ call[s].op \in LandOps /\ RowOf(s).status # "integrated"
  /\ Tip(call[s].where) = Made(s)

\* A close-out takes the worktree and its branch away.
Cleaned(s) ==
  /\ SetStatus(s, "cleaned") /\ on' = [on EXCEPT ![call[s].where] = None]
  /\ Ends(s)

\* The target is advanced and the operator's checkout carried along.
Land(s) ==
  LET old == refs[Target]
      shown == on[Primary] = Target
  IN /\ call[s] # None /\ MayLand(s) /\ IsAncestor(old, Made(s))
     /\ shown => MayCarry(Primary, old, Made(s))
     /\ refs' = [refs EXCEPT ![Target] = Made(s)]
     /\ index' = IF shown THEN [index EXCEPT ![Primary] = Carried(Primary, old, Made(s))]
                 ELSE index
     /\ Did(s, "land", Target, old, Made(s))
     /\ CASE call[s].op = "commit-and-push" ->
               SetStatus(s, "integrated") /\ Goes(s, "landed") /\ UNCHANGED on
          [] call[s].op = "close-out" -> Cleaned(s)
          [] OTHER -> SetStatus(s, "active") /\ Ends(s) /\ UNCHANGED on
     /\ UNCHANGED <<remote, owner, scope, intents, moves>>

\* The target has moved: the row is frozen, its replay left in place or undone.
PutOff(s) ==
  /\ call[s] # None /\ MayLand(s) /\ ~IsAncestor(refs[Target], Made(s))
  /\ SetStatus(s, "ready") /\ Ends(s)
  /\ \E branch \in {None, call[s].where} :
        on' = [on EXCEPT ![call[s].where] = branch]
  /\ UNCHANGED <<refs, remote, index, owner, scope, intents, done, moves>>

\* What had landed before is only taken away.
CloseOutLanded(s) ==
  /\ At(s, {"checked"}) /\ call[s].op = "close-out" /\ RowOf(s).status = "integrated"
  /\ Cleaned(s)
  /\ UNCHANGED <<refs, remote, index, owner, scope, intents, done, moves>>

-----------------------------------------------------------------------------
(* Pushes: pushExactAuthorizedRef, pushExactAuthorizedIntegratedCandidate.  *)

PushTo(s) == Destination(call[s].op, call[s].seen.mode, call[s].seen.branch)

\* The step of a call that its push follows: in the lane without an assignment
\* the verification or the commit itself, for neither claim nor landing is
\* made there.
LaneReadyToPush(s) ==
  ~Assigned(s) /\ At(s, {IF call[s].op = "push" THEN "verified" ELSE "committed"})
WorktreeReadyToPush(s) ==
  /\ Assigned(s)
  /\ IF call[s].op = "push"
     THEN At(s, {"claimed"}) /\ InManaged(s) /\ RowOf(s).status = "active"
     ELSE At(s, {"landed"})

\* assertRemoteEvidence
RemoteAsSeen(s) == remote[PushTo(s)] = call[s].seen.remote

\* assertPushState, assertPostCommitPushState
CheckPush(s) ==
  /\ call[s] # None /\ Pushes(call[s].op)
  /\ LaneReadyToPush(s) \/ WorktreeReadyToPush(s)
  /\ Stands(s) /\ refs[call[s].seen.branch] = Made(s)
  /\ RemoteAsSeen(s) /\ Goes(s, "sending")
  /\ UNCHANGED <<repo, row, owner, scope, intents, done, moves>>

\* Mutant: the push is not bound to what the remote had.
NoLease(s) == TRUE

\* --force-with-lease: the remote still has what the human saw.
LeaseHolds(s) == remote[PushTo(s)] = call[s].seen.remote

Send(s) ==
  /\ At(s, {"sending"}) /\ LeaseHolds(s)
  /\ remote' = [remote EXCEPT ![PushTo(s)] = Made(s)]
  /\ Did(s, "push", PushTo(s), remote[PushTo(s)], Made(s))
  /\ IF Assigned(s) /\ call[s].op = "commit-and-push"
     THEN SetStatus(s, "active") ELSE UNCHANGED row
  /\ Ends(s)
  /\ UNCHANGED <<refs, on, index, owner, scope, intents, moves>>

-----------------------------------------------------------------------------
(* The primary checkout: usePrimaryCheckoutCore, returnToManagedWorktreeCore. *)

\* acquirePrimaryCheckoutOwnership: insert, or reap a stale owner and insert.
MayAcquire(s, a) == Reaped(owner) = None \/ Owns(s, a)

TakePrimary(s) ==
  /\ At(s, {"claimed"}) /\ call[s].op = "use-primary-checkout"
  /\ MayAcquire(s, call[s].where)
  /\ owner' = IF Owns(s, call[s].where) THEN owner
              ELSE [by |-> s, of |-> call[s].where, old |-> FALSE]
  /\ Did(s, "take", None, None, None) /\ Ends(s)
  /\ UNCHANGED <<repo, row, scope, intents, moves>>

ReturnPrimary(s) ==
  /\ At(s, {"claimed"}) /\ call[s].op = "return-to-managed-worktree"
  /\ Owns(s, call[s].where) /\ owner' = None
  /\ Did(s, "return", None, None, None) /\ Ends(s)
  /\ UNCHANGED <<repo, row, scope, intents, moves>>

-----------------------------------------------------------------------------
(* What else moves.                                                         *)

Move == moves < MaxMoves /\ moves' = moves + 1
Others == <<intents, call, done>>

\* Someone stages a file, or takes it back, in a checkout.
Stage(place, file) ==
  /\ Move /\ on[place] # None
  /\ index' = [index EXCEPT ![place] = Difference(@, {file})]
  /\ UNCHANGED <<refs, remote, on, row, owner, scope, Others>>

\* Someone commits what is staged, with git and no authority.
PlainCommit(place) ==
  /\ Move /\ on[place] # None /\ index[place] # TreeOf(Tip(place))
  /\ refs' = [refs EXCEPT ![on[place]] = Append(@, index[place])]
  /\ UNCHANGED <<remote, on, index, row, owner, scope, Others>>

Switch(branch) ==
  /\ Move /\ branch # on[Primary] /\ MayCarry(Primary, Tip(Primary), refs[branch])
  /\ on' = [on EXCEPT ![Primary] = branch]
  /\ index' = [index EXCEPT ![Primary] = Carried(Primary, Tip(Primary), refs[branch])]
  /\ UNCHANGED <<refs, remote, row, owner, scope, Others>>

\* Someone else pushes to origin.
RemotePush(branch, file) ==
  /\ Move /\ remote[branch] # None
  /\ remote' = [remote EXCEPT ![branch] = Append(@, Difference(TreeOf(@), {file}))]
  /\ UNCHANGED <<refs, on, index, row, owner, scope, Others>>

Replan(s, files) ==
  /\ Move /\ files # scope[s]
  /\ scope' = [scope EXCEPT ![s] = files]
  /\ UNCHANGED <<repo, row, owner, Others>>

\* materializeManagedWorktree, for a session without a live assignment: the
\* worktree begins at what the primary checkout has checked out.
Reserve(a, s) ==
  /\ Move /\ Live(s) = {} /\ row[a].status \in {"none", "cleaned"}
  /\ row' = [row EXCEPT ![a] = ActiveRow(s)]
  /\ refs' = [refs EXCEPT ![a] = Tip(Primary)]
  /\ on' = [on EXCEPT ![a] = a]
  /\ index' = [index EXCEPT ![a] = TreeOf(Tip(Primary))]
  /\ UNCHANGED <<remote, owner, scope, Others>>

\* rescueAbandon: what the worktree holds is committed, on its branch unless a
\* stopped replay has detached it, and the worktree removed.
Rescue(a) ==
  /\ refs' = IF on[a] = a /\ index[a] # TreeOf(refs[a])
             THEN [refs EXCEPT ![a] = Append(@, index[a])] ELSE refs
  /\ on' = [on EXCEPT ![a] = None]

\* abandonWorkspace: the plain one changes the row alone.
Abandon(a) ==
  /\ Move /\ IsLive(a) /\ MayClaim(a)
  /\ owner # None => owner.of # a
  /\ row' = [row EXCEPT ![a] = [@ EXCEPT !.status = "abandoned"]]
  /\ Rescue(a) \/ UNCHANGED <<refs, on>>
  /\ UNCHANGED <<remote, index, owner, scope, Others>>

\* The stopped replay of a ready row is brought to its end, by hand or hunk
\* by hunk; the latter registers the result as the candidate.
Resolve(a) ==
  LET commit == Append(refs[Target], TreeOf(refs[a]))
  IN /\ UNCHANGED moves /\ row[a].status = "ready" /\ MayClaim(a)
     /\ refs' = [refs EXCEPT ![a] = commit]
     /\ on' = [on EXCEPT ![a] = a]
     /\ index' = [index EXCEPT ![a] = TreeOf(commit)]
     /\ \E candidate \in {None, commit} :
           row' = [row EXCEPT ![a].candidate = candidate]
     /\ UNCHANGED <<remote, owner, scope, Others>>

\* Mutant: a hand-off begins whatever the handlers are doing.
MayHoldAnyTime(a) == row[a].status = "active" /\ on[a] = a

\* beginHandoff: not during a mutation, nor for the owner of the primary.
MayHold(a) ==
  /\ row[a].status = "active" /\ on[a] = a /\ MayClaim(a)
  /\ owner # None => owner.of # a

Hold(a) ==
  /\ Move /\ MayHold(a)
  /\ row' = [row EXCEPT ![a].held = TRUE]
  /\ UNCHANGED <<repo, owner, scope, Others>>

\* transferHandoff also uses up what the source was still entitled to.
Transfer(a, s) ==
  LET source == row[a].by
  IN /\ UNCHANGED moves /\ row[a].held /\ s # source
     /\ row' = [row EXCEPT ![a] = [@ EXCEPT !.by = s, !.held = FALSE]]
     /\ pending' = {i \in pending : ~(asked[i].where = a /\ asked[i].by = source)}
     /\ UNCHANGED <<repo, owner, scope, asked, call, done>>

\* releaseHandoff
Release(a) ==
  /\ UNCHANGED moves /\ row[a].held
  /\ row' = [row EXCEPT ![a].held = FALSE]
  /\ UNCHANGED <<repo, owner, scope, Others>>

\* The primary checkout has been owned for an hour.
GrowOld ==
  /\ UNCHANGED moves /\ owner # None /\ ~owner.old
  /\ owner' = [owner EXCEPT !.old = TRUE]
  /\ UNCHANGED <<repo, row, scope, Others>>

-----------------------------------------------------------------------------
Human(s) == \E op \in Ops, w \in Places : Prompt(s, op, w)

Call(s) ==
  \/ \E op \in Ops, w \in Places : Verify(s, op, w)
  \/ Claim(s) \/ Stop(s)
  \/ CheckLaneCommit(s) \/ CheckCommit(s) \/ CreateCommit(s)
  \/ CheckLand(s) \/ Land(s) \/ PutOff(s) \/ CloseOutLanded(s)
  \/ CheckPush(s) \/ Send(s)
  \/ TakePrimary(s) \/ ReturnPrimary(s)

Environment ==
  \/ \E place \in Places, file \in Files : Stage(place, file)
  \/ \E place \in Places : PlainCommit(place)
  \/ \E branch \in Branches : Switch(branch)
  \/ \E branch \in AllBranches, file \in Files : RemotePush(branch, file)
  \/ \E s \in Sessions, files \in Scopes : Replan(s, files)
  \/ \E a \in Assignments, s \in Sessions : Reserve(a, s) \/ Transfer(a, s)
  \/ \E a \in Assignments : Abandon(a) \/ Resolve(a) \/ Hold(a) \/ Release(a)
  \/ GrowOld

Next ==
  \/ \E s \in Sessions : Human(s) \/ Call(s)
  \/ \E i \in pending : Expire(i)
  \/ Environment

Spec == Init /\ [][Next]_vars

-----------------------------------------------------------------------------
Commit == Seq(SUBSET Files)
OrNone(set) == {None} \cup set
Row == [status : {"none", "active", "ready", "integrated", "abandoned", "cleaned"},
        by : OrNone(Sessions), held : BOOLEAN, candidate : OrNone(Commit)]

TypeOK ==
  /\ refs \in [AllBranches -> Commit]
  /\ remote \in [AllBranches -> OrNone(Commit)]
  /\ on \in [Places -> OrNone(AllBranches)]
  /\ index \in [Places -> SUBSET Files]
  /\ row \in [Assignments -> Row]
  /\ owner \in OrNone([by : Sessions, of : Assignments, old : BOOLEAN])
  /\ scope \in [Sessions -> Scopes]
  /\ pending \subseteq DOMAIN asked
  /\ \A a \in Assignments : on[a] \in {None, a}
  /\ \A s \in Sessions : call[s] # None => call[s].id \in DOMAIN asked \ pending

-----------------------------------------------------------------------------
(* The commit a human asked for: on what they saw checked out, with what    *)
(* they saw staged, and outside an assignment only the files of the plan.   *)
Wanted(q) ==
  Append(q.saw.head,
         IF q.where = Primary THEN Scoped(q.saw.head, q.saw.staged, q.saw.scope)
         ELSE q.saw.staged)

WantedPush(q) == IF q.op = "push" THEN q.saw.head ELSE Wanted(q)
WantedBranch(q) ==
  IF q.op = "commit-and-push" /\ q.where # Primary THEN Target ELSE q.saw.branch

AsAsked(d, q) ==
  /\ d.by = q.by /\ d.where = q.where
  /\ CASE d.kind = "commit" ->
            /\ Commits(q.op) /\ d.branch = q.saw.branch
            /\ d.from = q.saw.head /\ d.to = Wanted(q)
       [] d.kind = "push" ->
            /\ Pushes(q.op) /\ d.branch = WantedBranch(q)
            /\ d.from = q.saw.remote[d.branch] /\ d.to = WantedPush(q)
       [] d.kind = "land" ->
            \/ q.op = "close-out"
            \/ q.op \in LandOps /\ d.to = q.saw.head
            \/ Commits(q.op) /\ d.to = Wanted(q)
       [] d.kind = "take" -> q.op = "use-primary-checkout"
       [] d.kind = "return" -> q.op = "return-to-managed-worktree"

\* Everything a session did to a branch, to origin or to the ownership of the
\* primary checkout is what a human typed a command for, exactly as the
\* human had it before them: a change of branch, of HEAD, of the index, of
\* the remote or of the plan in between stops the call instead.  Only a
\* close-out lands the HEAD it finds (verifyDirectGitAuthority and the
\* re-checks after it).
DoneAsAsked == \A n \in DOMAIN done : AsAsked(done[n], asked[done[n].id])

\* A command is good for one deed of each kind, however often the session
\* calls, stops and calls again (consumeMatchingHumanIntent, and the one-use
\* push authorization).
OncePerPrompt ==
  \A m, n \in DOMAIN done :
    m # n => <<done[m].id, done[m].kind>> # <<done[n].id, done[n].kind>>

\* A deed on an assignment is done by the session that owns it at that
\* moment: no call that had verified before a hand-off goes on after it
\* (withAssignmentMutation, beginHandoffOnce, revalidateAuthorizedCommitState).
OwnerActs ==
  [][done' # done =>
       LET d == Last(done')
       IN d.where # Primary => row[d.where].by = d.by]_vars

\* A push of the lane without an assignment only ever adds to the branch of
\* origin, although the proof of it is older than the push
\* (assertFastForwardPush, and the lease of pushExactAuthorizedRef).
PushIsFastForward ==
  \A n \in DOMAIN done :
    LET d == done[n]
    IN d.kind = "push" /\ d.where = Primary /\ d.from # None => IsAncestor(d.from, d.to)

\* The primary checkout is not taken from a session whose assignment is
\* live, in place and not past its hour, unless the session itself gives it
\* back (acquirePrimaryCheckoutOwnership, reapStalePrimaryOwner).
OwnerIsNotOusted ==
  [][owner # None /\ (owner' = None \/ [owner' EXCEPT !.old = FALSE] # [owner EXCEPT !.old = FALSE]) =>
       \/ IsStale(owner)
       \/ At(owner.by, {"claimed"}) /\ call[owner.by].op = "return-to-managed-worktree"]_vars

\* What a command depends on: the rest of the world may change under it.
StillAsSeen(i) ==
  LET q == asked[i]
      path == Workplace(q.by, q.op, q.where)
  IN /\ on[path] = q.saw.branch
     /\ q.op # "close-out" => Tip(path) = q.saw.head
     /\ Commits(q.op) =>
          IF q.where = Primary
          THEN /\ scope[q.by] = q.saw.scope
               /\ index[path] \cap scope[q.by] = q.saw.staged \cap scope[q.by]
          ELSE index[path] = q.saw.staged
     /\ Pushes(q.op) => remote[WantedBranch(q)] = q.saw.remote[WantedBranch(q)]

\* A command waits unspoiled for the session to act on it: what others stage
\* outside the plan does not void a commit, what the worktree has committed
\* since does not void a close-out, and an answer to one command does not
\* use up another (closeOutIntentEvidence, buildScopedStagedTree).
PromptIsHonoured ==
  \A i \in pending :
    LET q == asked[i]
    IN /\ StillAsSeen(i) /\ MayObserve(q.by, q.op, q.where)
       /\ q.key.mode = ModeSeen(q.by, q.op, q.where)
       /\ q.op \in CheckoutOps => row[q.where].status = q.key.status
       => q.key = Key(q.by, q.op, q.where)
=============================================================================
