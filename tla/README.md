# IronClaude in TLA+

IronClaude runs coding agents under discipline. A *worker* (a Claude Code or
Codex session) may write code only in a workflow stage that allows it; a
*commander* daemon starts workers, watches them, and moves them between
providers; a *workspace manager* gives each worker a git worktree of its own,
lets a session touch git only as its human asked, and lands its work. This
directory holds TLA+ models of the parts that decide, the TLC configurations
that check them on small instances, and TLAPS proofs of what matters most.

## 1. The system

### 1.1 Components

| component | code | state it keeps | operations |
|---|---|---|---|
| workflow machine | `worker/mcp-servers/state-manager/src` (`state-machine.ts`, `tools/write-tools.ts`, `db.ts`) | SQLite tables `sessions`, `wave_tasks`, `review_grades`, `tier_up_reviews`, `registered_designs` | ~25 MCP tools: enter or retreat to the design phase, register and consume designs, create a plan, record the tier-up review, start execution, claim, submit and grade tasks, advance waves, recover, reset |
| plan validator | `state-machine.ts:449` | none | `validatePlanJson`: references, topological sort |
| advisor review | `tools/advisor-review.ts` | one child process group and its timers per call | preflight, choice of a reviewer, review, clean-up, verdict |
| hooks that move the workflow | `worker/hooks/skill-state-bridge.sh`, `state-activator.sh`, `plan-task-context.sh`, `professional-mode-guard.sh`, `get-back-to-work-impl.sh` | the same tables, and small throttle files | a shell process per event: a read with one `sqlite3` command, a write with a later one |
| other hooks | `worker/hooks/*` | the `circuit_breaker` flag | classify commands and text, print context |
| sync lock | `worker/mcp-servers/episodic-memory/src/sync-lock.ts` | one lock file with pid, start time and kind | acquire, release, take over a stale lock |
| episodic memory | the rest of that directory | an archive and an SQLite index | copy, index, embed, search, summarise |
| worktrees and assignments | `worker/mcp-servers/workspace-manager/src` (`workspace-service.ts`, `db.ts`) | `assignments`, `workspace_mutations`, `orphan_surface`, git branches, worktrees and recovery refs | reserve, bind, abandon, rescue, clean, reap, sweep orphans, resolve one |
| integration | `integration.ts`, `git.ts` | `integration_locks`, `integration_records`, `preserved_work`, the refs `frozen`, `candidate`, `recovery` | commit, freeze, replay, prove, advance the target, carry the operator's checkout, record, push, recycle, close out, reconcile, resolve a conflict |
| git authority | `git-authority.ts`, `hook-intent.ts`, `db.ts` | `human_intents`, `primary_checkout_owners` | bind a typed command to what is there, verify it, use it once, commit, push, land, take or give back the primary checkout |
| assignment hand-off | `handoff.ts` | `workspace_handoffs` | grant, begin, transfer, finish |
| worker registry | `commander/src/ironclaude/worker_registry.py` | worker rows, hand-off rows with evidence, operation leases | claim, pause, resume, release, own a reconcile |
| worker hand-off | `commander/src/ironclaude/worker_handoff.py` | a durable phase with intents and proofs | stop the source, start the target, transfer the workspace, resume, dispatch, clean up, reconcile after a crash |
| daemon | `commander/src/ironclaude/main.py` | in-memory counters | one polling loop over all of the above |
| routing, quarantine, quota | `provider_router.py`, `provider_state.py`, `worker_quota.py` | availability records with expiry, log cursors | choose a provider, record a quota signal |
| local backoff | `local_backoff.py` | one marker file | record failure, record success, ask |
| Brain, graders, Slack, tmux | `brain_client.py`, `grader.py`, `slack_interface.py`, `tmux_manager.py` | none that decides | model calls, network, terminals |

### 1.2 How they interact

The **workflow machine** is one Node process per client on a synchronous SQLite
driver: a tool call runs from its first statement to its last without yielding.
The **hooks** are separate shell processes started by the client around tool
calls and at the end of a turn. They write the same rows beside the server, and
nothing serialises a hook's read and its write with a tool call in between.

`create_plan` calls the **plan validator**, and from then on `get_next_tasks`
takes an empty next wave to mean that the plan is done: that is right only if
the validator let nothing circular through. The tier-up review of a plan may be
given by an **advisor** of another provider, which the server runs as a child
process while its client waits.

The **sync lock** is taken by the sync worker, which a hook starts at every
session, and by a manual `maintain` command. Nothing but the lock file keeps
two of them apart.

The **workspace manager** has one process per session (an MCP server) and one
per command line of the daemon, all on one database and one repository. The
human types a command; a hook records it as an *intent* with what was checked
out, staged and planned at that moment (**git authority**); a later tool call of
the session verifies the intent and acts. Acting on a managed worktree ends in
**integration**, which serialises landings by a lock row, not by a process that
lives. **Worktrees** end by landing or by being abandoned, and a sweep accounts
for what no row accounts for. A *mutation claim* in the database keeps two calls
on one assignment apart, and a hand-off apart from both.

The **commander** keeps a worker's row, asks the workspace manager who owns
the worktree, and starts or stops the process tree that writes in it. A
hand-off must change all three so that no two processes ever write the same
worktree, across a crash of the controller at any point.

### 1.3 What is hard here

- Hooks act on state another actor has changed since they read it.
- The wave's latest grade is state that outlives what it was given for.
- Recovery paths (`mark_executing`, retreats, `plan_interrupted`) re-enter the
  pipeline over rows, grades and reviews left from before.
- Completion is a conclusion from something *not* found.
- A lock file is created, written, read, judged and removed in separate calls.
- Intents, effects and proofs of a hand-off are separate, and any of them may
  be the last thing a controller did.
- Landing changes git refs, a checkout and a database, none of them together:
  after a crash between two of them a recovery must find out what is done
  without undoing it, repeating it, or losing what nobody else holds.
- A command is used minutes after it was typed, and the repository is shared
  with an operator, other sessions and a remote that do not wait.
- A GUID, a worktree and a branch outlive the row that made them, and come back
  as those of another.
- A child process may ignore signals, fork, and hold its pipes.

`PROJECT.json` lists each hazard at the line where it bites, with the property
that would catch it or the reason why none does.

### 1.4 What makes each component correct

- **Workflow**: no work before the review that the policy demands; a task is
  handed out only after its dependencies passed; completion means everything
  passed; a pass is final; one effort has one blind review.
- **Plan validator**: accepts exactly the plans that can be put in order.
- **Advisor review**: always answers in bounded time, and a verdict stands for a
  reviewer that kept its bounds and is not below the requester.
- **Sync lock**: one run at a time, and a lock left by a crash never turns a
  process away.
- **Worktrees**: no change is lost unless an operator dropped it, an active row
  has its worktree, a hand-off has its assignment to itself, an owner stays for
  the life of a row.
- **Integration**: nothing is lost; only what was reviewed lands; the target is
  advanced by one assignment at a time, and an advance that is not recorded can
  be recorded later; a record proves the present life of a row; the operator's
  checkout follows; an obligation to push is kept until it is met.
- **Git authority**: every deed is what a human typed, on what the human saw,
  once, by the owner; and a command still good is not refused for what it does
  not depend on.
- **Hand-off**: whoever runs in the worktree owns it, the owner moves once and
  while nobody writes, a returned worker is its owner and holds nothing, the
  continuation is given once, and every hand-off ends or waits for the operator.

## 2. Modules

| module | what it is |
|---|---|
| `PlanShape` | `Acyclic`: shared by the validator and the machine |
| `WorkflowBase` | stages, transition tables, waves, what is assumed of a plan |
| `Workflow` | the machine: tools, hooks, properties |
| `WorkflowProofs` | theorems about `Workflow` |
| `PlanGraph`, `PlanGraphProofs` | `validatePlanJson` over arbitrary task lists, and theorems about it |
| `AdvisorReview`, `AdvisorReviewProofs` | `run_codex_advisor_review`, and theorems about it |
| `SyncLock`, `SyncLockProofs` | the lock file, and its mutual exclusion theorem |
| `Handover` | what a hand-off promises: the abstract specification |
| `WorkerHandoff`, `WorkerHandoffProofs` | the hand-off protocol, and that it implements `Handover` |
| `GitHistory` | commits, merge bases, replays and the digest of an effect |
| `Landing` | what integration promises of the target: the abstract specification |
| `Finalization`, `FinalizationProofs` | integration, over `GitHistory`, that it implements `Landing` (`LandsInTurn`), and theorems about it |
| `Authority`, `AuthorityProofs` | from the typed command to the commit, push or landing, and theorems about it |
| `Workspace`, `WorkspaceProofs` | the life of managed worktrees, over several lives of a GUID, and theorems about it |
| `MC*` | values for TLC |

The three modules of the workspace manager cut it by question. `Authority` asks
whether a call may act and takes a landing as a fast-forward or nothing.
`Finalization` takes the call as authorised and asks what a landing does, step by
step. `Workspace` takes a landing as one step under a claim and asks what becomes
of the row, the worktree, the branch and the work before and after it.
`WorkerHandoff` asks for the hold from the commander's side, `Workspace` from the
database's.

### 2.1 Workflow

| variable | code |
|---|---|
| `session` | the row of `sessions`: stage, professional mode, `plan_json`, `current_wave`, `review_pending`, `plan_lineage`, `inherit_review` |
| `wave_tasks` | its table; status `"absent"` when a task has no row |
| `review_grades` | for each wave, whether a passing boundary grade exists and whether the latest one fails: all the code ever asks of the table |
| `tier_up` | rows of `tier_up_reviews`; the plan's hash is the plan itself |
| `designs` | rows of `registered_designs` |
| `hook` | the one hook process in flight: what it is, what it has read, how many tool calls have landed since |
| `reviewed`, `spent` | history, read by properties only: tasks a passing verdict named; whether this effort has recorded its blind review |

A tool is one action, with the guard its handler checks and every row it
writes. A hook is two actions, `...Read` and `...Write`. `ToolCall` lets a tool
run alone or between the two. Two hooks in flight at once are not modelled:
within a session the client starts them one after another.

`plan_lineage` is a random identifier in the code; here it is the number of
identifiers minted so far, bounded by `MaxLineage`.

Left out, because no decision in the model reads them: the audit log,
`plan_history`, timestamps, `review_block_count`, and the flags of other gates
(`circuit_breaker`, `memory_search_required`, `testing_theatre_checked`).
Informational verdicts are left out with them: they are stored as rows that the
machine's queries exclude. The last consumed design (`Retreat`) is *any*
consumed one, since times are not modelled: that is more behaviour than the
code has, never less.

### 2.2 PlanGraph

The input is any list of tasks the schema lets through, duplicates and unknown
references included. One step is one iteration of the sort's loop; the order in
which an iteration appends the tasks it frees is left open. `inDegree`, `queue`,
`sortedCount` are the loop's own; `sorted` is history.

### 2.3 SyncLock

One step is one file-system call: exclusive open, write of the holder, read,
judgement, removal, and the two of `releaseLock`. A process may crash anywhere.
`lockfile` is the file at the path (its creator stands for the inode: a holder
written through the descriptor of an unlinked file lands nowhere); `pc`, `saw`,
`attempt` are a process's position, the holder it parsed, and the loop
variable; `overdue` are the processes whose lock is older than the age limit.
A process id is never reused in the model.

### 2.4 WorkerHandoff and Handover

One hand-off of one worker, from the claim to its return. Three records have to
agree, each written by somebody else:

| variable | code |
|---|---|
| `worker` | the row of `workers`: status, and whose client and session it names |
| `row` | the row of `worker_handoffs`: phase, pause reason, open intents (`*_intent` in the evidence) and recorded proofs |
| `workspace` | the workspace manager's side: phase of the hand-off row, whether its target session is set, owner of the assignment |
| `live` | the sessions whose process tree runs: the source, the read-only bootstrap of the target, the resumed target |
| `ctl` | the controller at work: which operation, its next step, and the pause reason it restores when it fails |
| `late` | command-line calls of the workspace manager that outlive the controller that started them |
| `typed`, `signalled` | history, read by properties only |
| `faults`, `crashes` | how many of each have happened |

*Every effect has three parts.* The step that decides records an intent
(`Intend`) and points the controller at the effect. Then the effect happens and
its answer is recorded (`Succeed`), or it is refused, or its answer is lost and
it may or may not have happened (`Fail`), or the controller dies on the way
(`Crash`). A controller that finds an intent without a proof reads the world
back (`ReconcileIntent`); only the grant is made again, since its token makes
the second call harmless. The source release is the one effect that records no
intent, as in the code.

*Operations.* `setup` is the synchronous part of `handoff` and its retry;
`reconcile` runs one effect per phase; `forward` is the retry after the source
stop (`_post_transfer_cleanup`); `prestop` and `release` are the two ways back
(`_release_after_stop`), started by the daemon (`ReleasePaused`, `Preserve`) or
by the operator (`Abort`).

*Pause reasons* are grouped by what the retry makes of them: `retry` (setup or
forward), `dispatch`, `finish`, `failed` (release), `uncertain` (left to the
operator).

*Choices of the environment.* Every check of quota, plan state, Git state or a
process tree may fail; a failing check is a fault. A session may exit at any
time. The registry's transactions are atomic, and its reconcile owner lets one
controller at a time work on a row; a dead one is replaced.

*Left out.* A second hand-off of the same worker; a controller that goes on after
its reconcile owner was taken over; the expiry of a grant (a fault of the next
call); quarantine, quota records and notifications, on which no step of the
protocol depends.

`Handover` has no controller, no intents and no phases: a session exits, the
owner moves, the target starts, its runtime is adopted, the worker returns. Its
guards are the promise. The refinement maps `running` to the live sessions other
than the read-only bootstrap, and `owner` to the owner of the assignment.

### 2.5 AdvisorReview

One call of the advisor, since calls share nothing. `at` is where the call
stands, `request` and `reviewer` the tiers asked for and chosen, `cwd` the
private directory, `child` the process group (who lives, who holds the pipes,
what was written, how the leader exited), `broker` what `runFixedProcess` keeps:
the age of the process, what it has read, and when it sent each signal.

A step is one event of the server (a timer, output read, the close event) or
one of the group (a member exits, forks, writes, lets go of the pipes). Signals
are requests: a member that is sent one goes or does not. Time is counted in
poll intervals, and a timer that is due runs before time goes on: the server's
event loop keeps up.

*Left out.* The checks of arguments, session, runtime and launcher are one
refusal; the versions of models are their tiers; what the reviewer writes is
nothing, a report, or too much.

### 2.6 GitHistory, Finalization and Landing

A commit is the sequence of patches since the root, a patch a change and
whether it was reworked by a resolution. Two facts about a pair of changes are
all that the content matters for: they touch a common file, so that each shows
in the context of the other's diff (`Near`), or the same lines, so that a replay
stops (`Clash`). `Effect` is the digest that `cumulativeBinaryEffect` takes to
tell whether a replay still does what was reviewed; `Replayed` is
`git rebase --onto`, with the state of a stopped one.

| variable of `Finalization` | code |
|---|---|
| `row` | the row of `assignments` with its `integration_records` row: status, base commit, integrated commit, record, push disposition |
| `lock` | `integration_locks`: owner and the target's expected commit |
| `preserved` | `preserved_work`: obligations to push that outlived their row |
| `frozen`, `candidate`, `recovery` | refs under `refs/ironclaude/` |
| `tree` | each managed worktree: branch tip, uncommitted changes, stopped replay |
| `target`, `remote` | the integration target, and the branch of the remote it is pushed to |
| `primary` | the operator's checkout: whether it is on the target, what it shows, what is uncommitted |
| `job` | the handler under way of an assignment: where it is, for which verb, the target it read, whether a human attested the candidate |
| `made`, `waived`, `landing`, `crashes` | history and bound, read by properties only |

A handler of an assignment is a sequence of steps: freeze, take the lock, replay,
prove, advance, carry the operator's checkout, record, unlock, and then as the
verb asks push, read back, settle, recycle or retire. Each durable change is a
step of its own, a refusal is a disjunct of the step it comes from, with what
the `catch` and `finally` of the code undo, and `Crash` may come between any
two. The ways on from a stop are actions too: the modes of
`reconcileFinalization`, sync, abort and hunk by hunk resolution of a conflict,
the repair of a ready row, the close-out. Handlers of different assignments
interleave at will; two of the same are kept apart by the mutation claim
(checked in `Workspace`).

`Landing` has the target and the assignments whose advance is not yet
acknowledged. The refinement maps the latter to `landing`.

*Left out.* Edits touch tracked files. Commit and `setDisposition`, freeze,
transition and the reading of the target are taken together. A crash inside the
rebase of a sync, and what the two `Slips` name: a worker that edits while its
own handler runs (`edit-midway`), a fresh commit on a row that landed and was
not recorded (`repair-landed`); section 4 says what happens then. Renames,
binaries and foreign branches are not modelled.

### 2.7 Authority

`refs`, `remote`, `on` and `index` are git: the branches here and at origin,
what each checkout shows and has staged. A tree is the set of files that have
their second content, a commit the sequence of its trees. `row`, `owner`,
`scope` are the assignments (with whether a hand-off holds them),
`primary_checkout_owners`, and the `allowed_files` of each session's plan.
`pending` are the unconsumed rows of `human_intents`; `asked` is every command
typed, with its evidence (`key`) and what the human had before them (`saw`);
`call` the tool call of each session, and `done` the deeds: commit, push, land,
take or return the primary checkout.

`Prompt` is the hook at the human's prompt: it observes what the command is
about and stores it. `Verify` observes again, matches the intent and uses it up;
`Claim` takes the mutation claim; then come the checks that each lane makes
again, and the deed by compare-and-swap. Between any two steps the environment may stage, commit,
switch a branch, push to origin, replan, allocate, abandon, hand off or let an
hour pass. The three lanes are the managed worktree, the primary checkout of an
assignment that owns it, and the lane without an assignment, whose commit is
limited to the plan's files.

`saw` and `key` are different things on purpose: `DoneAsAsked` compares a deed
with what was before the human's eyes, not with the evidence that the code
compares, so that evidence that forgot something would show.

*Left out.* A landing fast-forwards or is put off. Any refusal, error or death
of the process is `Stop`. The fields of the internal interface that no public
tool passes; the mapping of a client to its session.

### 2.8 Workspace

| variable | code |
|---|---|
| `row` | `assignments`: status, owner, worker, what `recovery_ref` names, what it integrated |
| `claim` | `workspace_mutations`: the process that holds the GUID, or a dead one |
| `handoff` | the phase of an unfinished row of `workspace_handoffs` |
| `surface` | `orphan_surface`: the tip and category an operator was shown |
| `branch`, `recovery` | `refs/heads/ironclaude/<guid>`, `refs/ironclaude/recovery/<guid>` |
| `tree` | git's registration of the worktree, whether its directory is there, what is uncommitted in it |
| `target` | the branch orphans are judged against and merged into |
| `young` | branches whose tip is younger than the sweep's limit |
| `call` | what each process is running, and what it remembers from its checks |
| `made`, `dropped`, `crashes` | history and bound; `dropped` is the branch an operator was shown and, if it was shown as dirty, all that is uncommitted when the worktree is removed, also what was written since |

What a call checks in one synchronous stretch is one step; each durable change
after it (a row, a ref, a worktree, a branch) is another. The call keeps what it
saw, and acts on it later while other processes, the worker and the operator
move. A commit is the set of changes it holds, and a branch only grows. A GUID may
live several times: the tombstone of a cleaned row is used again.

*Slips* are the moves that the code does not survive and that the run leaves
out by name (section 4):

- `commit-midway`: someone commits in a worktree while it is being removed;
- `rescued-again`: a GUID is used again while its recovery ref alone holds
  what was rescued;
- `late-call`: a worktree is made while a second sweep or resolution has yet to
  remove the orphan that a first one removed, or a GUID is inserted or reserved
  while an earlier allocation of it, whose row may be gone, is on its way. A GUID
  may be reserved between a sweep's judgement and its removal: git makes no
  worktree until the branch is gone.

They are guards that the code does not have: `MayCommit` and `MayLiveAgain`,
and `MayMake` for the first half of `late-call`.

What one sweep reads of a branch before it acts (`workspace-service.ts:1080`
to `1119`: row, tip, age, cleanliness, ancestry) is one step, and so are the
deletion of the branch and of its row in `orphan_surface`.

*Left out.* Keep-muting and listing of orphans, categories finer than dirty and
unmerged, the candidate ref of a reused row, protected paths and shared
resources, `unproved` claims of a bare process id. The branch a sweep judges
against and the one a resolution merges into are taken to be the same. A landing
is one step under the claim.

## 3. Runs that pass

| run | instance | what it shows |
|---|---|---|
| `workflow_core` | plan `fan` (a and b, then c), two lineages; hooks do not overlap tools | finality of a pass and one blind review per effort over every sequence of tools, hooks, retreats, re-planning and resets |
| `workflow_overlap` | plans `pair` (a, then b) and `solo` (a); a tool may land inside a hook | a review of one plan, an old grade, or a recovery never starts work on the other plan; order of waves and honest completion survive stale hook writes |
| `plan_graph` | every list of up to three tasks over three ids and ten dependency lists | the sort accepts exactly the lists with distinct ids and an order |
| `sync_lock` | two workers and a manual run, one at a time inside `acquireLock` | runs exclude each other through crashes; only a live run refuses another |
| `worker_handoff` | one hand-off, three faults, two crashes, sessions that exit at will | the protocol implements `Handover`, ends cleanly, gives the continuation once, and settles |
| `finalization` | one assignment with two changes, an operator whose commit clashes with one of them, someone else's push, one crash; every verb and recovery | work is kept, a landing that was not recorded can be, records speak of the present life, the operator's checkout follows, only reviewed effects land, an obligation to push is met or carried on |
| `finalization_two` | two assignments whose changes share a file, one crash | integration implements `Landing`: one unrecorded advance at a time, and the target only grows |
| `authority` | two sessions, two assignments, two files, two branches, plans that cover one or both files; two commands of any kind, one move of the world at any point | every deed is what its human saw and asked for, once, by the owner; pushes outside assignments fast-forward; no command is voided by what it does not depend on; the primary checkout is not taken from a live session |
| `workspace` | one GUID over several lives, three processes, two sessions, one worker, one change, one crash | no work is lost, an active row keeps its worktree, a hand-off is not disturbed, an owner stays |
| `advisor_review` | a leader and two helpers, timeouts of two and three polls, a grace of two, three tiers | the call is answered in bounded time and its verdict is truthful |

Every property of these runs is broken by at least one small change of the model
of the kind a bug in the code would be (a dropped guard, a missing reset, an
unordered wave): the operators whose comment starts with "Mutant", listed in
`PROJECT.json`.

### 3.1 Bounds, and why they are enough

- **Tasks and plans.** Three tasks give a wave with two tasks (one submitted
  while the other is graded) and a second wave that depends on both. Two plans
  that share a task are what the gate must tell apart.
- **`ToolsPerHook`** is 0 or 1. One call is enough to make any read stale; two
  calls only matter for `NoWorkBeforeGate` (section 5.1).
- **`MaxLineage`** is 2 where the property is about efforts (`workflow_core`),
  1 elsewhere.
- **Three ids and three entries** include a cycle of every length up to three,
  a self-loop, duplicate ids, and double edges.
- **Three processes** of the lock are one that crashed, one that took over, and
  one more. **`MaxContenders`** = 1 is a real restriction: see `lock_takeover`.
- **`MaxFaults`** = 3 and **`MaxCrashes`** = 2 of the hand-off: a lost answer, a
  failure of the retry and one of the release that follows; a controller that
  dies and a successor that dies too. The safety part is proved for any number
  (section 5.4). **`EnterMayFail`** = FALSE is a real restriction: see section 4.
- **Finalization.** Two changes of one worker give a replay that applies one and
  stops at the other; the operator's change clashes with the second and leaves
  the first. The remote's change makes a lease fail. One crash reaches every
  recovery; a second crash inside a recovery is reached only as the recovery's
  own refusals and failures. `finalization_two` gives each assignment one change
  in a common file: one lands, and the other's replay changes its effect.
- **Authority.** Two commands are enough for one to answer or use up the
  other; one move is enough to make any observation stale. Hand-offs, releases
  and the passing of an hour are not counted as moves.
- **Workspace.** One GUID is enough because everything but the uniqueness of
  owners is per GUID. Three processes are one that judged, one whose allocation
  is on its way, and one that deletes the row in between: with two, the case in
  which a judge and an allocation meet without a row does not happen. One change
  is enough to lose; the proofs hold for any number of each (section 5.7).
- **Advisor.** A helper that is left, a helper that forks it, and timers that
  all differ; the bound itself is proved for any numbers (section 5.5).

Two assignments at once in `Authority`, two GUIDs in `Workspace` and two crashes
in `Finalization` are beyond a few minutes of TLC.

Model values stand for each other where nothing tells them apart: sessions in
`authority`; sessions and processes in `workspace`; the two assignments
with their changes in `finalization_two`. None of these runs checks liveness.

Deadlock is checked in the workflow runs. It is switched off in `plan_graph`
(the sort ends), in the lock runs (each process has one run and ends), in the
hand-off run (a hand-off that ended, or waits for the operator, stops), in
`advisor_review` (a call ends), and in the three of the workspace manager, where
the changes, commands, moves and crashes of an instance run out.

### 3.2 Fairness

Only the hand-off states fairness, `WF_vars(Controller)`: `check_workers`
(`main.py:4804`) calls the reconciler or the retry of every open hand-off each
time the daemon polls, and a call that has started goes on to its next step or
fails. Nothing is assumed of the operator's abort, of exits, of late calls or of
crashes. `Settles` excepts two states in which the daemon has nothing to do: the
pause that is left to the operator, and the one of a release whose answer was
lost (section 4).

The workspace manager has no process that drives it: a landing that stopped
waits until somebody calls again, so nothing *must* happen, and only safety is
stated. The bounded time of the advisor is a safety property over its clock.

## 4. Where the code departs from what the repository says

### 4.1 Runs that fail

| run | sentence | what happens |
|---|---|---|
| `lock_takeover` | "One run at a time" (`sync-cli.ts:27`) | a lock created and not yet written reads as stale, and `rmSync` removes whatever file is at the path: two runs proceed |
| `stranded_lock` | "The daemon never strands the repo-wide integration lock" (`CHANGELOG.md:491`) | a process that dies between the record of a landing and the release of its lock leaves a lock that the close-out of the row does not release: nothing lands any more |

### 4.2 Deviations the models show without a run of their own

Each can be repeated with the change named.

- No moving on "without passing code review" (`README.md:249`). The Stop hook passes whatever is
  submitted when the wave's latest grade is a pass, and the grade is never
  consumed. Add `NoPassWithoutVerdict` to `WorkflowCore.cfg`.
- A re-entry "inherits the effort's one blind review". With a tool call between the skill hook's read
  and its write, an effort gets a second: `OneBlindReviewPerEffort` with
  `ToolsPerHook = 1`.
- "No continuation was delivered and it may be replayed" (`worker_handoff.py:604`).
  `send_keys` also
  answers False when the text was typed and only Enter failed: `DispatchedOnce`
  with `EnterMayFail = TRUE`.
- A finished hold "falls through to the source release (a no-op replay)"
  (`worker_handoff.py:779`). A release whose answer was lost leaves a finished
  hold without a target, whose readback raises; no retry, release or abort gets
  past it: `Settles` without its second exception.
- "It is never silently reaped or kept sight unseen" (`workspace-service.ts:1195`).
  A commit between the last look at a branch and its removal goes with the
  branch, as `git branch -D` is not told which tip it expects: `NothingIsLost`
  with the slip `commit-midway`.
- "The rescued commit stays reachable through the ref"
  (`workspace-service.ts:721`). When a GUID is used
  again while its recovery ref alone holds what was rescued before, the next
  rescue moves that ref: `NothingIsLost` with the slip `rescued-again`.
- "Never silently reaped" (`workspace-service.ts:1195`) is said of an orphan,
  here of what is not an orphan any more. Two sweeps judge an orphan whose directory is
  gone, so that both remove what is registered by force, and the first removes it;
  the GUID is reserved and gets a worktree, in which the worker writes; the second
  sweep removes that one: `NothingIsLost` with the slip `late-call`. And an allocation
  whose reserved row another process deleted makes its worktree all the same; a
  sweep judges that an orphan, the GUID is reserved anew, the allocation takes the
  new row for its own and makes it active, and the sweep removes the worktree:
  `ActiveRowsHaveTrees` and `HandoffIsUndisturbed` with the same slip.
- "It can never strand an already-integrated assignment" (`CHANGELOG.md:147`).
  The recovery it speaks of keeps that, a repair does not: a fresh repair commit on
  a row that landed and was not recorded replaces the candidate that proves the
  landing: `LandedIsProvable` with the slip `repair-landed`.
- "Recovery from a crash destroys uncommitted work, which the design forbids"
  (`integration.ts:2271`), so the reset follows a check; an edit between the two
  is lost all the same: `WorkKept` with the slip `edit-midway`.

### 4.3 Found while reading

- "Cannot enter plan_ready: design has not been consumed yet"
  (`state-machine.ts:217`) can never be answered: no caller passes the
  prerequisite, and an absent one counts as satisfied.
- `mark_executing` clears `review_pending` while another task of the wave waits
  for its review (`README.md:245` says it blocks the next task).
- An interrupted plan "can be resumed later with /executing-plans", but before
  the first passing grade neither the skill nor the recovery accepts the session.
- The tool that reserves a worker's worktree compares the stored target with the
  one of the retry even if the retry omits it, so such a retry is refused,
  although the command line documents an omitted target as the current branch.
- A close-out "mints even on a detached-HEAD (paused-rebase) … row"
  (`git-authority.ts:526`), but the checkout is resolved first, which asks for the
  branch to be shown: the prompt is refused.
- A crash in the middle of a sync is "healed by an idempotent re-run"
  (`integration.ts:521`): the base commit of the row is not moved
  with the branch, and the re-run replays from the old one.
- `README.md:358` has `/commit` integrate locally; the code commits
  and stays.
- A worktree in the mode `primary` is granted commit and push intents, which are
  consumed and then refused; a call without a message loses the prompt likewise.
- The lane of an assignment pushes to the target with a lease but does not ask
  for a fast-forward; the lane without one does (`PushIsFastForward` is stated
  of the latter).
- `reuseTerminalAssignment` speaks of cleaned and abandoned rows, its statement
  takes only cleaned ones (`db.ts:431`, `db.ts:457`).
- The advisor reports a timeout where the group also survived a signal, and an
  overflow followed by a timeout as the latter; a server that exits leaves the
  group and the private directory behind.

## 5. What is proved

Everything below is proved for every value of the constants that satisfies the
modules' `ASSUME`s, and checked by tlapm to the last leaf.

### 5.1 Workflow (`WorkflowProofs`)

| theorem | statement |
|---|---|
| `TypeCorrect` | `Spec => []TypeOK` |
| `DependenciesAreReviewed`, `CompletionIsHonest` | `Spec => []DependenciesReviewed`, `Spec => []CompleteMeansAllPassed` |
| `PassedStaysPassed` | `Spec => PassedIsFinal` |
| `WorkNeedsReview` | `NoWorkBeforeGate` is invariant when `ToolsPerHook <= 1` |
| `BudgetIsSpentOnce` | `OneBlindReviewPerEffort` when `ToolsPerHook = 0` |

The first four hold however many tool calls land inside a hook.

*Order of waves and completion.* Neither property is inductive. `PlanInv` adds
that while a plan is loaded every row belongs to it (`RowsOfPlan`). Then
completion follows from acyclicity: were tasks left over when the next wave is
empty, one of them would depend on none of the others, so all its dependencies
passed and it would be in that wave.

*The gate.* `mark_executing` never asks the gate. What keeps it safe is that it
asks for a passing grade, and a grade of the loaded plan exists only once the
plan has begun. `GateInv` says so: whenever work has begun, a grade exists, the
stage is one of execution, or a hook is about to write such a stage, the plan
is cleared. With two tool calls inside one hook the argument fails (a reset and
a new plan, then the hook's stale stage), hence the assumption.

*The budget.* `BudgetInv` relates `spent` to the session: once an effort has
recorded its blind review, its lineage carries one, and a session in the design
phase has `inherit_review` set. The assumption `ToolsPerHook = 0` cannot be
dropped (section 4.2).

### 5.2 PlanGraph (`PlanGraphProofs`)

`AcceptsOnlyOrderedPlans` and `SortRefusesNoOrderedPlan`: for *any* task list,
the sort succeeds exactly on distinct ids with an order. The first is what
`WorkflowBase` assumes of plans (`WellFormed`), so the assumption is not
taken on trust. The invariant `SortInv` says that `inDegree` counts the open
edges into each id, that `queue` holds the unsorted ids without one, and that an
id is sorted only after its dependencies.

### 5.3 SyncLock (`SyncLockProofs`)

`RunsExclude`: `OneRunAtATime` for any finite set of processes when
`MaxContenders <= 1`. `Places` says what each position relies on: a running
process owns the file, one that is about to judge has read the one running
process if there is any, one that is about to remove has excluded them all.
`lock_takeover` shows that the condition is needed. That a worker ends on time
is part of the property (`OnTime`), since the code's own age limit takes a lock
from a worker that does not.

### 5.4 WorkerHandoff (`WorkerHandoffProofs`)

| theorem | statement |
|---|---|
| `TypeCorrect` | `Spec => []TypeOK` |
| `OwnerWrites` | `Spec => []WriterOwns` |
| `KeepsThePromise` | `Spec => HandoverKept`: the protocol implements `Handover` |
| `EndsCleanly` | `Spec => []EndedCleanly` |
| `ReleasesUntouched` | `Spec => EarlyReleaseFindsSourceUntouched` |
| `ContinuesOnce` | `Spec => []DispatchedOnce` when Enter never fails alone |

All hold for any number of faults and crashes, and all but the last whether or
not Enter may fail (section 4.2).

`WriterOwns` is far from inductive: that the target may start depends on what
the owner is, on a transfer that may land long after its controller died, and on
the source having been stopped several phases earlier. `HandoffInv` adds

- `StepInPhase`: an effect is attempted only in the phase it belongs to;
- `SourceGone`: after a proved stop the source does not run, and a late transfer
  exists only then; a phase after the transfer means that the owner moved;
- `HoldOwner`: the phase of the hold says who owns the assignment, and a hold
  that finished for the target was finished after the transfer, late calls
  included;
- `RuntimeFollows`: the registered runtime names the target only once it owns
  the worktree;
- `ReturnsClosed`: the worker runs again exactly when the row has ended, with
  the hold closed and its runtime the owner.

The refinement takes each effect under that invariant: the transfer finds nobody
writing (`SourceGone`, `WriterOwns`), the resume finds the target as owner, a
return finds the runtime equal to the owner (`ReturnsClosed`), and every other
step is an exit or a stutter.

The three theorems on the end of a hand-off each add an invariant to
`HandoffInv`:

- `EndInv`, the bootstrap. It runs only from `source_stopped` on; the proof of
  its stop precedes a resume, a return and a completion; and nothing starts it
  again after that proof, because in `source_stopped` a stop under way implies
  the unsettled intent of the first start, which bars a second (`StartTarget`
  asks for no open intent).
- `ContinueInv`, the continuation. While a phase is driven forward the pause is
  lifted and none is remembered (`PauseLifted`), so a dispatch that fails writes
  its own reason; the reason that lets a retry take the intent back is written
  only where nothing was typed; otherwise the intent stays until the phase moves
  (`TypedIsKnown`).
- `SourceInv`, the source. The intent of its stop is recorded before the signal
  and not taken back before the phase moves, so a row without either has an
  untouched source.

### 5.5 AdvisorReview (`AdvisorReviewProofs`)

| theorem | statement |
|---|---|
| `TypeCorrect` | `Spec => []TypeOK` |
| `SettlesInTime` | `Spec => []AnsweredInTime` |
| `ResultsAreTruthful` | `Spec => []ResultIsTruthful` |

For any helpers, timeouts and grace. The invariant has two halves. `Timely` says
where each timer stands: before a process is terminated its age is within its
limit; from then it is killed within one grace, and from then the group is
verified gone, or reported, within another. `Bounded` and `Truthful` say that a
process that is not being terminated has broken no bound, so that a close event
that counts is one of a sound process, and that the reviewer was not chosen
below the requester (`TopIsHighest`, `ChosenIsNotBelow`).

### 5.6 Authority (`AuthorityProofs`)

| theorem | statement |
|---|---|
| `TypeCorrect` | `Spec => []TypeOK` |
| `ExactlyAsAsked`, `OnceAsked` | `Spec => []DoneAsAsked`, `Spec => []OncePerPrompt` |
| `OwnersAct`, `OwnersStay` | `Spec => OwnerActs`, `Spec => OwnerIsNotOusted` |
| `LanePushesAdd` | `Spec => []PushIsFastForward` |
| `HonouredPrompts` | `Spec => []PromptIsHonoured` |

All of the properties of the run, for any number of sessions, assignments,
branches, files, plans, commands and moves in between. The invariant has three
parts:

- `RepoOK`, the shapes of refs, checkouts, rows and plans;
- `IntentInv`, the thread from the human to the effect. The key of a command
  says what was before its human (`IsKeyOf`, from `Observed`: what is observed
  is a function of the checkout, the remote, the row and the plan alone). A call
  stands on a command that is used up and has its key (`CallsAreAsked`), so what
  the call goes on to make, and the remote it holds its push to, are those of
  the command (`CallOfCommand`). No two calls stand on one command, and a call
  past a deed cannot come to that kind again (`EachKindOnce`);
- `ClaimInv`, what makes a look at the row last. A claim excludes other claims
  and hand-offs; a call that has looked under its claim is the owner's
  (`CheckedOwner`); and a row whose worktree is gone is not looked at
  (`CleanedIsAway`). It is why a call needs no second look between its check
  and its deed.

### 5.7 Workspace (`WorkspaceProofs`)

| theorem | statement |
|---|---|
| `StateIsWellFormed` | `Spec => []TypeOK` |
| `OwnersKeepTheirRows` | `Spec => OneOwnerPerLife` |
| `ActiveRowsKeepTrees` | `Spec => []ActiveRowsHaveTrees` without the slip `late-call` |
| `HandoffsAreUndisturbed` | `Spec => []HandoffIsUndisturbed` without the slip `late-call` |
| `WorkIsKept` | `Spec => []NothingIsLost` when `Slips = {}` |

For any GUIDs, sessions, workers, changes, processes and crashes; `NoneAssumption`
says that `None` is not a record or a set. The invariant is in three layers, each
resting on the ones before:

- `BaseInv`, in every run. The state is `WellFormed`: a process that runs a
  claimed call holds its claim (`CallsHoldClaims`), so two such calls on one GUID
  are one (`Alone`), and a pending hand-off has an active row and no claim
  (`HandoffsHaveRows`). What a new branch begins with is in the target
  (`BasesAreMerged`).
- `LifeInv`, without `late-call`. A claimed call finds its row in the status
  it left it in (`RowsAwaitCalls`); where a reaper is on its way to remove an orphan
  whose GUID has a row again, that row is reserved, abandoned or cleaned, and
  when it is reserved no allocation has made its worktree yet
  (`OrphansStayOrphans`); a row past `reserved` has its worktree
  (`LiveRowsHaveTrees`). So no removal meets an active row: it is by a claimed call
  whose row is terminal, or by a reaper.
- `WorkInv`, without slips. What is about to be removed is safe: a claimed call
  past its proof, or one that rescued, has the branch within the target and the
  recovery ref (`EndingsAreSafe`); a reaper has it within the target or within the
  tip the operator answered for (`ReapsAreSafe`); a row that may be torn down
  without its worktree had its branch made safe before (`TornDownIsSafe`), also
  where a reaper is about to take the worktree from it (`ReapedIsSafe`); and the
  recovery ref of a live row holds nothing that only it holds (`AnchorsHold`).

For each action a lemma `Does<Action>` states what it does to each map, and the
preservation of each conjunct goes by action over those lemmas.

### 5.8 Finalization (`FinalizationProofs`)

| theorem | statement |
|---|---|
| `TypeCorrect` | `Spec => []TypeOK` |
| `ProofsKept` | `Spec => []IntegratedIsProven` |
| `DebtsReachable` | `Spec => []DebtIsInTarget` |
| `ReviewedLands` | `Spec => OnlyReviewedLands` |
| `LandingsProvable` | `Spec => []LandedIsProvable` without the slip `repair-landed` |
| `CheckoutKept` | `Spec => []CheckoutFollows` without the slip `repair-landed` |
| `ImplementsLanding` | `Spec => LandsInTurn` without the slip `repair-landed` |
| `NoWorkLost` | `Spec => []WorkKept` without the slip `edit-midway` |
| `DebtsDischarged` | `Spec => DebtIsDischarged` |

For any assignments, changes, files they share or clash in, ways to begin and
numbers of crashes. `NoneAssumption` says that `None` is no commit, lock, debt or
stopped replay; `FinalizationAssumption` that what others push is not what people
here write, which is how the model tells the two apart.

*Histories.* The first third of the module is about `GitHistory`, for histories
of any length: a merge base is the longest common prefix; a replay only appends
to the commit it replays onto, moves patches from `left` to `done`, and stops
before a patch that is left; what a commit contains grows with ancestry. Where
such a fact needs an induction it goes through a least element (`LeastNatural`,
from the well-foundedness of inclusion between finite sets), as the induction
theorems of the library cannot be instantiated here. `AtPositions` numbers the
patches to replay by their rank rather than by a recursive filter for that
reason.

*`Sound`*, in every run, is `TypeOK`, preserved work within the target, and for
each assignment six parts: where a worktree or a stopped replay may be
(`TreeOf`), which status the place of a handler asks for (`StageOf`), what a row
of each status has (`RowOf`), what a debt stands for (`DebtOf`), what a handler
past the lock holds and is about to advance to (`LockOf`), and that the base is
within the target (`BaseOf`). A step of one assignment writes only its own
cells, passes the lock only from or to itself, and only extends the target
(`MoveOf`); then the parts of the others stay (`MoveKeepsOthers`), and each
action is left with its own (`Keeps`). `DebtIsInTarget` and
`IntegratedIsProven` are among the parts; alone they are not inductive, since a
handler writes phase and status by the place it is at, which `StageOf` and
`DebtOf` tie to the row it finds. `OnlyReviewedLands` is read off `LockOf` at the one step that adds
to `landing` (`AdvanceIsReviewed`).

*`Lands`* says where an advance that is not recorded can be found: its row is
ready and owns the lock, candidate and HEAD agree and are within the target, its
handler is idle, waits for the lock or is past the advance (`LandOf`); and the
checkout of the operator shows the target, or what the lock of that row names
(`CheckoutOK`). A repair of such a row would move its HEAD while the lock still
speaks of the old one, hence the hypothesis; section 4.2 says what happens with
the slip. That two assignments are never in `landing` together, the step
`Land` of `Landing`, follows from the one lock (`OwnerLanded`).

*`Kept`* says where every change is: uncommitted in the operator's checkout, in
what no step takes back (`Fixed`: the target, the recovery refs, what was given
up), or in a worktree, uncommitted or under its HEAD (`CarriedBy`). `WorkKept`
alone would let the last ref on a change be one that the next step deletes, so
the invariant leaves out the frozen and candidate refs and says instead what
they may be relied on for (`WorkOf`): HEAD of a ready row has what was frozen,
unless it is fixed; a handler before its advance, which may reset to the frozen
commit, finds a clean worktree whose HEAD the frozen commit covers; a stopped
replay has all of HEAD in what it did and what is left. A step of one assignment
takes nothing from `Fixed`, moves what it drops from its worktree there, and
adds only changes it now carries (`NothingDropped`); most steps leave the
worktree alone and are treated together (`Still`). The slip `edit-midway` breaks
`WorkOf`: a reset that a handler makes would take an edit made meanwhile with it.

*`Paid`* says why a debt that ends has been paid. A push is forced, with a lease
on the commit the remote had when the authority was given; what must not happen
is that it takes from the remote a commit on whose presence another obligation
was ended. So: nothing that others pushed gets into a worktree, a ref or the
target (`OursOnly`; `Draws` has it step by step); what of ours the remote has,
the target has (`Outlives`); and a handler on its way to a push has a lease
below the target, then, from the record on, below its candidate, since a record
is written when target and candidate are one (`PushOf`). Here
`FinalizationAssumption` is needed: were the remote's work not told from ours, a
forced push could be said to take ours away when it takes theirs. What the
theorem does not say is that a push keeps what *others* pushed: a commit they
put on the remote before the authority named its lease is overwritten, since the
push compares the remote with the lease alone.

### 5.9 Only model-checked

`RefusedOnlyByALiveRun` of the lock and `Settles` of the hand-off: liveness under
fairness is beyond the prover. Every other property of the runs is stated by a
theorem.

## 6. What could follow

1. `WorkerLease`: operation leases and reconcile owners with process
   incarnations, and with them two controllers of one row.
2. `StopGate`: the Stop hook's throttle, with a clock and its liveness (a blocked
   session is eventually let go).
3. `LocalBackoff` and the quota cursor: small file protocols.
4. Crashes of the workflow server between the statements of one tool
   (`get_next_tasks` writes rows and the session without a transaction).

## 7. Not modelled, and why

Search, embeddings, summaries, rendering; grading and Brain calls; Slack and
tmux; quoting and parsing around git: they are input and output whose result is
text. The read tools of the state manager decide nothing. Provider routing,
quarantine, quota evidence, the local backoff and the orchestrator's tools are
small protocols over files and rows of their own, on which no step of the
modelled ones depends. Skills, rules and agents are instructions to a model:
what they promise of the machine is quoted in section 4. `dist/` directories are
build output of sources that are modelled.
