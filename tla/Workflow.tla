------------------------------ MODULE Workflow ------------------------------
(***************************************************************************)
(* The workflow state machine of one session: the write tools of the       *)
(* state-manager MCP server and the hook processes that write the same     *)
(* SQLite database beside it.                                              *)
(*                                                                         *)
(* A tool call is one step: the server is a single process on a            *)
(* synchronous SQLite driver.  A hook is a shell process of its own that   *)
(* reads with one sqlite3 command and writes with a later one, so it is    *)
(* two steps with the values it read kept in "hook" in between.  At most   *)
(* one hook is in flight, and at most ToolsPerHook tool calls land between *)
(* its read and its write (0: hooks never overlap with tool calls).        *)
(*                                                                         *)
(* Left out: the audit log, plan_history and timestamps (written, never    *)
(* read by a decision), review_block_count (only words a message),         *)
(* circuit_breaker, memory_search_required and testing_theatre_checked     *)
(* (flags of other gates), and informational (non-boundary) verdicts.      *)
(***************************************************************************)
EXTENDS WorkflowBase

CONSTANTS
  Designs,       \* design files
  DesignOf,      \* DesignOf[p]: the design_file of plan p
  Policy,        \* tier_up_review_policy
  ToolsPerHook,  \* bound: tool calls between a hook's read and its write
  MaxLineage     \* bound: review budgets a session mints

ASSUME ParameterAssumption ==
  /\ DesignOf \in [Plans -> Designs]
  /\ Policy \in Policies
  /\ ToolsPerHook \in Nat
  /\ MaxLineage \in Nat

VARIABLES
  session,        \* the row of table sessions
  wave_tasks,     \* wave_tasks[t]: its row, status "absent" when there is none
  review_grades,  \* waves with a passing boundary grade; whose latest one fails
  tier_up,        \* rows of tier_up_reviews
  designs,        \* rows of registered_designs
  hook,           \* the hook process in flight, with what it has read
  reviewed,       \* history: tasks a passing boundary verdict named
  spent           \* history: this effort has recorded its blind review

tables == <<wave_tasks, review_grades, tier_up, designs>>
vars == <<session, tables, hook, reviewed, spent>>

-----------------------------------------------------------------------------
stage == session.workflow_stage
plan  == session.plan_json
wave  == session.current_wave

NoRow == [status |-> "absent", wave |-> 0]
NoTasks == [t \in Tasks |-> NoRow]
NoGrades == [passing |-> {}, failing |-> {}]
NoHook == [kind |-> "none", target |-> "idle", seen |-> "idle",
           wave |-> 0, tools |-> 0]

InWave(w, status) ==
  {t \in Tasks : wave_tasks[t].status = status /\ wave_tasks[t].wave = w}
Submitted == InWave(wave, "submitted")
Passed == {t \in Tasks : wave_tasks[t].status = "review_passed"}
ActiveTasks == {t \in Tasks : wave_tasks[t].status \in ActiveStatuses}

\* UPDATE wave_tasks SET status = s WHERE the task is in S.
SetStatus(S, s) ==
  [t \in Tasks |-> IF t \in S THEN [wave_tasks[t] EXCEPT !.status = s]
                   ELSE wave_tasks[t]]

\* Insert or update a pending row in wave w for every task of S.
UpsertWaveTasks(rows, S, w) ==
  [t \in Tasks |-> IF t \in S THEN [status |-> "pending", wave |-> w]
                   ELSE rows[t]]

LatestGrade(w) ==
  IF w \in review_grades.failing THEN "fail"
  ELSE IF w \in review_grades.passing THEN "pass" ELSE "none"

Blind(l) == {r \in tier_up : r.lineage = l /\ r.verdict \in BlindVerdicts}

Remediated(l, p) ==
  [lineage |-> l, plan |-> p, verdict |-> "advisor-remediated"] \in tier_up

\* The blind review of lineage l lets plan p execute.
Cleared(l, p) ==
  \E r \in Blind(l) :
     \/ r.verdict \in PassingVerdicts /\ r.plan = p
     \/ Remediated(l, p)

\* Mutant: the blind review is not bound to the plan it read.
TierUpGateUnbound == Policy = "off" \/ Blind(session.plan_lineage) # {}

\* start_execution's guard.
TierUpGate ==
  \/ Policy = "off"
  \/ Cleared(session.plan_lineage, plan)
  \/ Policy = "commander-choice" /\ Blind(session.plan_lineage) = {}

\* A new effort begins when the design phase is entered from a fresh stage.
EffortAfter(from) == IF from \in FreshStages THEN FALSE ELSE spent

-----------------------------------------------------------------------------
(***************************************************************************)
(* Tools of the design phase.                                              *)
(***************************************************************************)
SetProfessionalMode ==
  /\ session.professional_mode # "on"
  /\ session' = [session EXCEPT !.professional_mode = "on"]
  /\ UNCHANGED <<tables, reviewed, spent>>

RegisterDesign(d) ==
  /\ stage \in {"brainstorming", "idle", "execution_complete"}
  /\ designs' = [designs EXCEPT ![d] = "registered"]
  /\ UNCHANGED <<session, wave_tasks, review_grades, tier_up, reviewed, spent>>

\* The session after leaving brainstorming: it keeps the lineage of the
\* effort it re-entered, or mints the next one.
ToDesignReady ==
  IF session.inherit_review = 1
  THEN [session EXCEPT !.workflow_stage = "design_ready",
                       !.inherit_review = 0]
  ELSE [session EXCEPT !.workflow_stage = "design_ready", !.plan_lineage = @ + 1]

LineageLeft == session.inherit_review = 1 \/ session.plan_lineage < MaxLineage

ConsumeDesign(d) ==
  /\ designs[d] = "registered"
  /\ stage \in {"brainstorming", "design_ready", "design_marked_for_use"}
  /\ stage = "brainstorming" => LineageLeft
  /\ designs' = [designs EXCEPT ![d] = "consumed"]
  /\ session' = IF stage = "brainstorming" THEN ToDesignReady ELSE session
  /\ UNCHANGED <<wave_tasks, review_grades, tier_up, reviewed, spent>>

MarkDesignReady ==
  /\ ValidTransition(stage, "design_ready")
  /\ LineageLeft
  /\ session' = ToDesignReady
  /\ \/ designs' = designs                          \* called without a file
     \/ \E d \in Designs : designs' = [designs EXCEPT ![d] = "consumed"]
  /\ UNCHANGED <<wave_tasks, review_grades, tier_up, reviewed, spent>>

MarkPlanReady ==
  /\ ValidTransition(stage, "plan_ready")
  /\ session' = [session EXCEPT !.workflow_stage = "plan_ready"]
  /\ UNCHANGED <<tables, reviewed, spent>>

\* mark_brainstorming and mark_debugging: a legal move that keeps every
\* artifact of the stage it leaves.
MarkDesignEntry(to) ==
  /\ ValidTransition(stage, to)
  /\ session' = [session EXCEPT
                   !.workflow_stage = to,
                   !.inherit_review = InheritOnReentry(stage, @)]
  /\ spent' = EffortAfter(stage)
  /\ UNCHANGED <<tables, reviewed>>

\* The design file a retreat returns: the plan's, or the last one consumed
\* (any consumed one: registration times are not modelled).
RetreatDesigns ==
  IF plan # NoPlan THEN {DesignOf[plan]}
  ELSE {d \in Designs : designs[d] = "consumed"}

Unconsume(d) ==
  [designs EXCEPT ![d] = IF @ = "consumed" THEN "registered" ELSE @]

Retreat(to) ==
  /\ ValidTransition(stage, to)
  /\ LET keep == [session EXCEPT !.workflow_stage = to,
                                 !.review_pending = 0,
                                 !.inherit_review = InheritOnReentry(stage, @)]
     IN  session' = IF stage = "executing" /\ plan # NoPlan
                    THEN [keep EXCEPT !.plan_json = NoPlan, !.current_wave = 0]
                    ELSE keep
  /\ IF /\ stage \in RETREAT_SOURCES \ {"design_ready", "design_marked_for_use"}
        /\ RetreatDesigns # {}
     THEN \E d \in RetreatDesigns : designs' = Unconsume(d)
     ELSE designs' = designs
  /\ spent' = EffortAfter(stage)
  /\ UNCHANGED <<wave_tasks, review_grades, tier_up, reviewed>>

-----------------------------------------------------------------------------
(***************************************************************************)
(* Tools of the plan phase.                                                *)
(***************************************************************************)
\* Mutant: the rows of the previous plan stay.
CreatePlanKeepsRows(p) ==
  /\ stage \in {"design_ready", "design_marked_for_use", "plan_ready",
                "plan_marked_for_use", "final_plan_prep"}
  /\ session' = [session EXCEPT !.plan_json = p,
                                !.current_wave = 1,
                                !.workflow_stage = "final_plan_prep",
                                !.review_pending = 0]
  /\ review_grades' = NoGrades
  /\ wave_tasks' = UpsertWaveTasks(wave_tasks, ComputeNextWave(p, {}), 1)
  /\ reviewed' = {}
  /\ UNCHANGED <<tier_up, designs, spent>>

CreatePlan(p) ==
  /\ stage \in {"design_ready", "design_marked_for_use", "plan_ready",
                "plan_marked_for_use", "final_plan_prep"}
  /\ session' = [session EXCEPT !.plan_json = p,
                                !.current_wave = 1,
                                !.workflow_stage = "final_plan_prep",
                                !.review_pending = 0]
  /\ review_grades' = NoGrades
  /\ wave_tasks' = UpsertWaveTasks(NoTasks, ComputeNextWave(p, {}), 1)
  /\ reviewed' = {}
  /\ UNCHANGED <<tier_up, designs, spent>>

SubmitTierUpReview(v) ==
  /\ plan # NoPlan
  /\ stage \in {"final_plan_prep", "executing"}
  /\ v \in BlindVerdicts <=> Blind(session.plan_lineage) = {}
  /\ tier_up' = tier_up \cup
       {[lineage |-> session.plan_lineage, plan |-> plan, verdict |-> v]}
  /\ spent' = (spent \/ v \in BlindVerdicts)
  /\ UNCHANGED <<session, wave_tasks, review_grades, designs, reviewed>>

StartExecution ==
  /\ ValidTransition(stage, "executing")
  /\ plan # NoPlan
  /\ TierUpGate
  /\ session' = [session EXCEPT !.workflow_stage = "executing",
                                !.review_pending = 0]
  /\ UNCHANGED <<tables, reviewed, spent>>

-----------------------------------------------------------------------------
(***************************************************************************)
(* Tools of the execution phase.                                           *)
(***************************************************************************)
ClaimTask(t) ==
  /\ stage \in {"executing", "reviewing"}
  /\ t \in InWave(wave, "pending")
  /\ wave_tasks' = SetStatus({t}, "in_progress")
  /\ UNCHANGED <<session, review_grades, tier_up, designs, reviewed, spent>>

SubmitTask(t) ==
  /\ t \in InWave(wave, "in_progress")
  /\ wave_tasks' = SetStatus({t}, "submitted")
  /\ session' = [session EXCEPT !.review_pending = 1]
  /\ UNCHANGED <<review_grades, tier_up, designs, reviewed, spent>>

RecordPass ==
  /\ stage \in {"executing", "reviewing"}
  /\ review_grades' = [passing |-> review_grades.passing \cup {wave},
                       failing |-> review_grades.failing \ {wave}]
  /\ wave_tasks' = SetStatus(Submitted, "review_passed")
  /\ session' = [session EXCEPT !.review_pending = 0]
  /\ reviewed' = reviewed \cup Submitted
  /\ UNCHANGED <<tier_up, designs, spent>>

\* Mutant: failed tasks get a status no tool leaves again.
RecordFailStrands ==
  /\ stage \in {"executing", "reviewing"}
  /\ Submitted # {}
  /\ wave_tasks' = SetStatus(Submitted, "review_failed")
  /\ UNCHANGED <<session, review_grades, tier_up, designs, reviewed, spent>>

RecordFail ==
  /\ stage \in {"executing", "reviewing"}
  /\ Submitted # {}
  /\ review_grades' = [review_grades EXCEPT !.failing = @ \cup {wave}]
  /\ wave_tasks' = SetStatus(Submitted, "in_progress")
  /\ session' = [session EXCEPT !.workflow_stage = "executing",
                                !.review_pending = 0]
  /\ UNCHANGED <<tier_up, designs, reviewed, spent>>

WaveDone == \A t \in Tasks :
  wave_tasks[t].status # "absent" /\ wave_tasks[t].wave = wave
    => wave_tasks[t].status = "review_passed"

MayGetNextTasks ==
  /\ stage \in {"executing", "reviewing"}
  /\ plan # NoPlan
  /\ WaveDone

GetNextWave ==
  /\ MayGetNextTasks
  /\ ComputeNextWave(plan, Passed) # {}
  /\ wave_tasks' =
       UpsertWaveTasks(wave_tasks, ComputeNextWave(plan, Passed), wave + 1)
  /\ session' = [session EXCEPT !.current_wave = @ + 1, !.review_pending = 0]
  /\ UNCHANGED <<review_grades, tier_up, designs, reviewed, spent>>

\* Mutant: completion without asking for the next wave.
CompletePlanEarly ==
  /\ MayGetNextTasks
  /\ session' = [session EXCEPT !.workflow_stage = "execution_complete"]
  /\ UNCHANGED <<tables, reviewed, spent>>

CompletePlan ==
  /\ MayGetNextTasks
  /\ ComputeNextWave(plan, Passed) = {}
  /\ session' = [session EXCEPT !.workflow_stage = "execution_complete"]
  /\ UNCHANGED <<tables, reviewed, spent>>

\* From reviewing, or from any stage as a recovery while tasks are active.
MarkExecuting ==
  /\ stage # "executing"
  /\ ValidTransition(stage, "executing") \/ ActiveTasks # {}
  /\ wave \in review_grades.passing
  /\ session' = [session EXCEPT !.workflow_stage = "executing",
                                !.review_pending = 0]
  /\ UNCHANGED <<tables, reviewed, spent>>

ClearStaleReviewPending ==
  /\ session.review_pending = 1
  /\ Submitted = {}
  /\ session' = [session EXCEPT !.review_pending = 0]
  /\ UNCHANGED <<tables, reviewed, spent>>

ResetSession ==
  /\ session' = [session EXCEPT !.workflow_stage = "idle",
                                !.plan_json = NoPlan,
                                !.current_wave = 0,
                                !.review_pending = 0]
  /\ wave_tasks' = NoTasks
  /\ review_grades' = NoGrades
  /\ UNCHANGED <<tier_up, designs, reviewed, spent>>

Tool ==
  \/ SetProfessionalMode
  \/ \E d \in Designs : RegisterDesign(d) \/ ConsumeDesign(d)
  \/ MarkDesignReady
  \/ MarkPlanReady
  \/ \E to \in DesignEntry : MarkDesignEntry(to) \/ Retreat(to)
  \/ \E p \in Plans : CreatePlan(p)
  \/ \E v \in Verdicts : SubmitTierUpReview(v)
  \/ StartExecution
  \/ \E t \in Tasks : ClaimTask(t) \/ SubmitTask(t)
  \/ RecordPass
  \/ RecordFail
  \/ GetNextWave
  \/ CompletePlan
  \/ MarkExecuting
  \/ ClearStaleReviewPending
  \/ ResetSession

\* A tool call, alone or between a hook's read and its write.
ToolCall ==
  /\ hook = NoHook \/ hook.tools < ToolsPerHook
  /\ Tool
  /\ hook' = IF hook = NoHook THEN NoHook ELSE [hook EXCEPT !.tools = @ + 1]

-----------------------------------------------------------------------------
(***************************************************************************)
(* Hook processes: a read, then a write of what the read decided.          *)
(***************************************************************************)
Begin(kind, target) ==
  /\ hook = NoHook
  /\ hook' = [kind |-> kind, target |-> target, seen |-> stage,
              wave |-> wave, tools |-> 0]
  /\ UNCHANGED <<session, tables, reviewed, spent>>

SkillTargets == {"brainstorming", "debugging", "design_marked_for_use",
                 "plan_marked_for_use", "reviewing", "plan_interrupted"}

\* skill-state-bridge.sh: stages from which a skill may move to a target.
SkillSources(target) ==
  CASE target \in DesignEntry           -> Stages
    [] target = "design_marked_for_use" -> {"design_ready"}
    [] target = "plan_marked_for_use"   -> {"plan_ready"}
    [] OTHER                            -> {"executing"}

SkillRead(target) ==
  /\ stage # target
  /\ stage \in SkillSources(target)
  /\ Begin("skill", target)

\* The stage is overwritten blindly; inherit_review follows the stage read.
SkillWrite ==
  /\ hook.kind = "skill"
  /\ session' = [session EXCEPT
       !.workflow_stage = hook.target,
       !.inherit_review = IF hook.target \in DesignEntry
                          THEN InheritOnReentry(hook.seen, @) ELSE @]
  /\ spent' = IF hook.target \in DesignEntry THEN EffortAfter(stage) ELSE spent
  /\ hook' = NoHook
  /\ UNCHANGED <<tables, reviewed>>

\* professional-mode-guard.sh and plan-task-context.sh: a review_pending
\* flag with nothing submitted is stale and is cleared.
GuardRead ==
  /\ session.professional_mode = "on"
  /\ stage = "executing"
  /\ session.review_pending = 1
  /\ Submitted = {}
  /\ Begin("guard", "idle")

GuardWrite ==
  /\ hook.kind = "guard"
  /\ session' = [session EXCEPT !.review_pending = 0]
  /\ hook' = NoHook
  /\ UNCHANGED <<tables, reviewed, spent>>

\* get-back-to-work: the Stop hook's code review gate.
StopRead ==
  /\ session.professional_mode = "on"
  /\ stage \in {"executing", "reviewing"}
  /\ plan # NoPlan
  /\ Submitted # {}
  /\ \/ LatestGrade(wave) = "pass" /\ Begin("stop_pass", "idle")
     \/ LatestGrade(wave) = "fail" /\ Begin("stop_fail", "idle")

StopAdvance ==
  /\ hook.kind = "stop_pass"
  /\ wave_tasks' = SetStatus(InWave(hook.wave, "submitted"), "review_passed")
  /\ hook' = NoHook
  /\ UNCHANGED <<session, review_grades, tier_up, designs, reviewed, spent>>

StopDropGrades ==
  /\ hook.kind = "stop_fail"
  /\ review_grades' = [passing |-> review_grades.passing \ {hook.wave},
                       failing |-> review_grades.failing \ {hook.wave}]
  /\ hook' = NoHook
  /\ UNCHANGED <<session, wave_tasks, tier_up, designs, reviewed, spent>>

\* state-activator.sh: a human turns professional mode off; the stage is
\* kept when tasks were active at the read.
DeactivateRead ==
  \/ ActiveTasks # {} /\ Begin("off", "idle")
  \/ ActiveTasks = {} /\ Begin("off_idle", "idle")

DeactivateWrite ==
  /\ hook.kind \in {"off", "off_idle"}
  /\ session' = [session EXCEPT
       !.professional_mode = "off",
       !.workflow_stage = IF hook.kind = "off_idle" THEN "idle" ELSE @]
  /\ hook' = NoHook
  /\ UNCHANGED <<tables, reviewed, spent>>

HookRead ==
  \/ \E target \in SkillTargets : SkillRead(target)
  \/ GuardRead
  \/ StopRead
  \/ DeactivateRead

HookWrite ==
  \/ SkillWrite
  \/ GuardWrite
  \/ StopAdvance
  \/ StopDropGrades
  \/ DeactivateWrite

-----------------------------------------------------------------------------
Init ==
  /\ session = [workflow_stage |-> "idle", professional_mode |-> "undecided",
                plan_json |-> NoPlan, current_wave |-> 0, review_pending |-> 0,
                plan_lineage |-> 0, inherit_review |-> 0]
  /\ wave_tasks = NoTasks
  /\ review_grades = NoGrades
  /\ tier_up = {}
  /\ designs = [d \in Designs |-> "absent"]
  /\ hook = NoHook
  /\ reviewed = {}
  /\ spent = FALSE

Next == ToolCall \/ HookRead \/ HookWrite

Spec == Init /\ [][Next]_vars
-----------------------------------------------------------------------------
(***************************************************************************)
(* Properties that hold.                                                   *)
(***************************************************************************)
SessionRows ==
  [workflow_stage : Stages, professional_mode : Modes,
   plan_json : Plans \cup {NoPlan}, current_wave : Nat,
   review_pending : {0, 1}, plan_lineage : Nat, inherit_review : {0, 1}]

TaskTables == [Tasks -> [status : TaskStatuses, wave : Nat]]

\* Every variable holds a value of its type.
TypeOK ==
  /\ session \in SessionRows
  /\ wave_tasks \in TaskTables
  /\ review_grades \in [passing : SUBSET Nat, failing : SUBSET Nat]
  /\ tier_up \subseteq [lineage : Nat, plan : Plans, verdict : Verdicts]
  /\ designs \in [Designs -> {"absent", "registered", "consumed"}]
  /\ hook \in [kind : {"none", "skill", "guard", "stop_pass", "stop_fail",
                       "off", "off_idle"},
               target : SkillTargets \cup {"idle"}, seen : Stages,
               wave : Nat, tools : Nat]
  /\ reviewed \subseteq Tasks
  /\ spent \in BOOLEAN

\* Under the enforced policy no task of the loaded plan leaves "pending"
\* before a tier-up review cleared exactly this plan: mark_executing skips
\* start_execution's gate, so its own guard has to keep unreviewed plans out.
NoWorkBeforeGate ==
  Policy = "enforced" /\ plan # NoPlan =>
    \A t \in Tasks :
      wave_tasks[t].status \notin {"absent", "pending"} =>
        \E l \in 0..session.plan_lineage : Cleared(l, plan)

\* A task is handed out (and its files opened to the guard) only when every
\* task it depends on passed review, across waves, reopened tasks, mid-effort
\* re-entries that keep the plan, and rows a retreat leaves behind.
DependenciesReviewed ==
  plan # NoPlan =>
    \A t \in TasksOf[plan] :
      wave_tasks[t].status # "absent" => DependsOn[plan][t] \subseteq Passed

\* execution_complete is announced only when every task of the plan passed,
\* although get_next_tasks concludes it from an empty next wave.
CompleteMeansAllPassed ==
  stage = "execution_complete" => plan # NoPlan /\ Passed = TasksOf[plan]

\* While a plan stays loaded, and is not loaded again by create_plan, no
\* call, hook or re-entry takes a passed task back.
PassedIsFinal ==
  [][ plan # NoPlan /\ plan' = plan /\ stage' # "final_plan_prep"
        => Passed \subseteq Passed' ]_vars

BlindReviews == {r \in tier_up : r.verdict \in BlindVerdicts}

\* An effort records one blind review: every way back into the design phase
\* from the middle of it inherits the lineage that has spent its budget.
OneBlindReviewPerEffort ==
  [][BlindReviews' # BlindReviews => ~spent]_vars

(***************************************************************************)
(* What the documents promise and the code does not keep.                  *)
(***************************************************************************)
\* A task counts as passed only after a passing verdict that named it.
NoPassWithoutVerdict == Passed \subseteq reviewed
=============================================================================
