--------------------------- MODULE WorkflowProofs ---------------------------
(***************************************************************************)
(* Theorems about Workflow, for every set of tasks and plans, every review *)
(* policy and every number of tool calls between a hook's read and write.  *)
(***************************************************************************)
EXTENDS Workflow, TLAPS

-----------------------------------------------------------------------------
(***************************************************************************)
(* The operators the actions are built from.                               *)
(***************************************************************************)
\* inheritReviewOnDesignReentry returns a flag.
LEMMA InheritType ==
  ASSUME NEW from \in Stages, NEW i \in {0, 1}
  PROVE  InheritOnReentry(from, i) \in {0, 1}
BY DEF InheritOnReentry

\* updateWaveTaskStatus keeps the table well formed.
LEMMA SetStatusType ==
  ASSUME wave_tasks \in TaskTables,
         NEW S, NEW s \in TaskStatuses
  PROVE  SetStatus(S, s) \in TaskTables
BY DEF SetStatus, TaskTables

\* upsertWaveTask keeps the table well formed.
LEMMA UpsertType ==
  ASSUME NEW rows \in TaskTables,
         NEW S, NEW w \in Nat
  PROVE  UpsertWaveTasks(rows, S, w)
           \in TaskTables
BY DEF UpsertWaveTasks, TaskStatuses, TaskTables

\* A table without rows is typed.
LEMMA NoTasksType ==
  NoTasks \in TaskTables
BY DEF NoTasks, NoRow, TaskStatuses, TaskTables

-----------------------------------------------------------------------------
(***************************************************************************)
(* Type correctness.                                                       *)
(***************************************************************************)
SessionType == session \in SessionRows

RestType ==
  /\ wave_tasks \in TaskTables
  /\ review_grades \in [passing : SUBSET Nat, failing : SUBSET Nat]
  /\ tier_up \subseteq [lineage : Nat, plan : Plans, verdict : Verdicts]
  /\ designs \in [Designs -> {"absent", "registered", "consumed"}]
  /\ reviewed \subseteq Tasks
  /\ spent \in BOOLEAN

HookType ==
  hook \in [kind : {"none", "skill", "guard", "stop_pass", "stop_fail",
                    "off", "off_idle"},
            target : SkillTargets \cup {"idle"}, seen : Stages,
            wave : Nat, tools : Nat]

\* The type invariant, split by who writes what.
LEMMA TypeParts == TypeOK <=> SessionType /\ RestType /\ HookType
BY DEF TypeOK, SessionType, RestType, HookType

\* Leaving brainstorming, with or without a new lineage.
LEMMA DesignReadyType ==
  ASSUME SessionType
  PROVE  ToDesignReady \in SessionRows
<1>1. ASSUME NEW n \in Nat
      PROVE  [session EXCEPT !.workflow_stage = "design_ready",
                             !.plan_lineage = n] \in SessionRows
  BY DEF SessionType, SessionRows, Stages
<1>2. session.plan_lineage + 1 \in Nat
  BY DEF SessionType, SessionRows
<1>3. CASE session.inherit_review = 1
  BY <1>3 DEF SessionType, SessionRows, ToDesignReady, Stages
<1>4. CASE session.inherit_review # 1
  BY <1>1, <1>2, <1>4 DEF ToDesignReady
<1>5. QED
  BY <1>3, <1>4

\* A tool call keeps the tables and the session row well typed.
LEMMA ToolType ==
  ASSUME TypeOK, Tool
  PROVE  SessionType' /\ RestType'
<1> USE DEF tables, SessionRows, TaskTables
<1>0. /\ SessionType /\ RestType
      /\ session.workflow_stage \in Stages /\ session.inherit_review \in {0, 1}
      /\ session.current_wave \in Nat
  BY TypeParts DEF SessionType
<1>1. CASE SetProfessionalMode
  BY <1>0, <1>1 DEF SetProfessionalMode, SessionType, RestType, Modes
<1>2. ASSUME NEW d \in Designs, RegisterDesign(d) \/ ConsumeDesign(d)
      PROVE  SessionType' /\ RestType'
  <2>1. SessionType'
    BY <1>0, <1>2, DesignReadyType DEF RegisterDesign, ConsumeDesign,
         SessionType
  <2>2. designs' \in [Designs -> {"absent", "registered", "consumed"}]
    BY <1>0, <1>2 DEF RegisterDesign, ConsumeDesign, RestType
  <2>3. QED
    BY <1>0, <1>2, <2>1, <2>2 DEF RegisterDesign, ConsumeDesign, RestType
<1>3. CASE MarkDesignReady
  <2>1. SessionType'
    BY <1>0, <1>3, DesignReadyType DEF MarkDesignReady, SessionType
  <2>2. designs' \in [Designs -> {"absent", "registered", "consumed"}]
    BY <1>0, <1>3 DEF MarkDesignReady, RestType
  <2>3. QED
    BY <1>0, <1>3, <2>1, <2>2 DEF MarkDesignReady, RestType
<1>4. CASE MarkPlanReady
  BY <1>0, <1>4 DEF MarkPlanReady, SessionType, RestType, Stages
<1>5. ASSUME NEW to \in DesignEntry, MarkDesignEntry(to)
      PROVE  SessionType' /\ RestType'
  BY <1>0, <1>5, InheritType DEF MarkDesignEntry, SessionType, RestType,
       Stages, DesignEntry, EffortAfter, stage
<1>6. ASSUME NEW to \in DesignEntry, Retreat(to)
      PROVE  SessionType' /\ RestType'
  <2>1. SessionType'
    BY <1>0, <1>6, InheritType DEF Retreat, SessionType, Stages, DesignEntry,
         stage
  <2>2. designs' \in [Designs -> {"absent", "registered", "consumed"}]
    BY <1>0, <1>6 DEF Retreat, RestType, Unconsume
  <2>3. QED
    BY <1>0, <1>6, <2>1, <2>2 DEF Retreat, RestType, EffortAfter
<1>7. ASSUME NEW p \in Plans, CreatePlan(p)
      PROVE  SessionType' /\ RestType'
  <2>1. SessionType'
    BY <1>0, <1>7 DEF CreatePlan, SessionType, Stages
  <2>2. wave_tasks' \in TaskTables
    BY <1>7, UpsertType, NoTasksType DEF CreatePlan
  <2>3. QED
    BY <1>0, <1>7, <2>1, <2>2 DEF CreatePlan, RestType, NoGrades
<1>8. ASSUME NEW v \in Verdicts, SubmitTierUpReview(v)
      PROVE  SessionType' /\ RestType'
  BY <1>0, <1>8 DEF SubmitTierUpReview, SessionType, RestType, plan
<1>9. CASE StartExecution
  BY <1>0, <1>9 DEF StartExecution, SessionType, RestType, Stages
<1>10. ASSUME NEW t \in Tasks, ClaimTask(t) \/ SubmitTask(t)
       PROVE  SessionType' /\ RestType'
  <2>1. wave_tasks' \in TaskTables
    BY <1>0, <1>10, SetStatusType DEF ClaimTask, SubmitTask, RestType,
         TaskStatuses
  <2>2. QED
    BY <1>0, <1>10, <2>1 DEF ClaimTask, SubmitTask, SessionType, RestType
<1>11. CASE RecordPass \/ RecordFail
  <2>1. wave_tasks' \in TaskTables
    BY <1>0, <1>11, SetStatusType DEF RecordPass, RecordFail, RestType,
         TaskStatuses
  <2>2. review_grades' \in [passing : SUBSET Nat, failing : SUBSET Nat]
    BY <1>0, <1>11 DEF RecordPass, RecordFail, RestType, wave
  <2>3. reviewed' \subseteq Tasks
    BY <1>0, <1>11 DEF RecordPass, RecordFail, RestType, Submitted, InWave
  <2>4. SessionType'
    BY <1>0, <1>11 DEF RecordPass, RecordFail, SessionType, Stages
  <2>5. QED
    BY <1>0, <1>11, <2>1, <2>2, <2>3, <2>4 DEF RecordPass, RecordFail, RestType
<1>12. CASE GetNextWave
  <2>1. wave_tasks' \in TaskTables
    BY <1>0, <1>12, UpsertType DEF GetNextWave, RestType, wave
  <2>2. session.current_wave + 1 \in Nat
    BY <1>0
  <2>3. ASSUME NEW n \in Nat
        PROVE  [session EXCEPT !.current_wave = n, !.review_pending = 0]
                 \in SessionRows
    BY <1>0 DEF SessionType, SessionRows
  <2>4. SessionType'
    BY <1>12, <2>2, <2>3 DEF GetNextWave, SessionType
  <2>5. QED
    BY <1>0, <1>12, <2>1, <2>4 DEF GetNextWave, RestType
<1>13. CASE CompletePlan
  BY <1>0, <1>13 DEF CompletePlan, SessionType, RestType, Stages
<1>14. CASE MarkExecuting
  BY <1>0, <1>14 DEF MarkExecuting, SessionType, RestType, Stages
<1>15. CASE ClearStaleReviewPending
  BY <1>0, <1>15 DEF ClearStaleReviewPending, SessionType, RestType
<1>16. CASE ResetSession
  BY <1>0, <1>16, NoTasksType DEF ResetSession, SessionType, RestType, Stages,
       NoGrades
<1>17. QED
  BY <1>1, <1>2, <1>3, <1>4, <1>5, <1>6, <1>7, <1>8, <1>9, <1>10, <1>11,
     <1>12, <1>13, <1>14, <1>15, <1>16 DEF Tool

\* Every tool and hook keeps the types.
LEMMA TypeStep ==
  ASSUME TypeOK, [Next]_vars
  PROVE  TypeOK'
<1> USE DEF tables, SessionRows, TaskTables
<1>0. /\ SessionType /\ RestType /\ HookType
      /\ session.workflow_stage \in Stages /\ session.inherit_review \in {0, 1}
      /\ session.current_wave \in Nat
      /\ hook.wave \in Nat /\ hook.seen \in Stages /\ hook.target \in Stages
  BY TypeParts DEF SessionType, HookType, SkillTargets, Stages
<1>1. CASE ToolCall
  <2>1. HookType'
    BY <1>0, <1>1 DEF ToolCall, HookType, NoHook, Stages, SkillTargets
  <2>2. QED
    BY <1>1, <2>1, ToolType, TypeParts DEF ToolCall, TypeOK, SessionType,
       RestType, HookType
<1>2. CASE HookRead
  <2>1. HookType' /\ UNCHANGED <<session, tables, reviewed, spent>>
    BY <1>0, <1>2 DEF HookRead, SkillRead, SkillTargets, GuardRead, StopRead,
         DeactivateRead, Begin, HookType, Stages, stage, wave
  <2>2. QED
    BY <1>0, <2>1 DEF TypeOK, SessionType, RestType, HookType
<1>3. CASE HookWrite
  <2>1. HookType'
    BY <1>3 DEF HookWrite, SkillWrite, GuardWrite, StopAdvance,
       StopDropGrades, DeactivateWrite, HookType, NoHook, Stages, SkillTargets
  <2>2. CASE SkillWrite
    BY <1>0, <2>1, <2>2, InheritType DEF SkillWrite, TypeOK, SessionType,
       RestType, HookType, EffortAfter
  <2>3. CASE GuardWrite
    BY <1>0, <2>1, <2>3 DEF GuardWrite, TypeOK, SessionType, RestType, HookType
  <2>4. CASE StopAdvance
    <3>1. wave_tasks' \in TaskTables
      BY <1>0, <2>4, SetStatusType DEF StopAdvance, RestType, TaskStatuses
    <3>2. QED
      BY <1>0, <2>1, <2>4, <3>1 DEF StopAdvance, TypeOK, SessionType, RestType,
         HookType
  <2>5. CASE StopDropGrades
    BY <1>0, <2>1, <2>5 DEF StopDropGrades, TypeOK, SessionType, RestType,
       HookType
  <2>6. CASE DeactivateWrite
    BY <1>0, <2>1, <2>6 DEF DeactivateWrite, TypeOK, SessionType, RestType,
       HookType, Modes, Stages
  <2>7. QED
    BY <1>3, <2>2, <2>3, <2>4, <2>5, <2>6 DEF HookWrite
<1>4. CASE UNCHANGED vars
  BY <1>4 DEF vars, TypeOK
<1>5. QED
  BY <1>1, <1>2, <1>3, <1>4 DEF Next

\* The first state is typed.
LEMMA TypeInit == ASSUME Init PROVE TypeOK
<1>1. wave_tasks \in TaskTables
  BY NoTasksType DEF Init
<1>2. QED
  BY <1>1 DEF Init, TypeOK, NoGrades, NoHook, Stages, Modes,
     SessionRows, SkillTargets

\* The tables and the session row keep their types.
THEOREM TypeCorrect == Spec => []TypeOK
BY TypeInit, TypeStep, PTL DEF Spec

-----------------------------------------------------------------------------
(***************************************************************************)
(* Dependencies and completion.  The invariant adds what the two           *)
(* properties lean on: the rows of wave_tasks are rows of the loaded plan, *)
(* and a row outside the current wave has passed review.                   *)
(***************************************************************************)
RowsOfPlan ==
  plan # NoPlan =>
    \A t \in Tasks : wave_tasks[t].status # "absent" =>
      /\ t \in TasksOf[plan]
      /\ wave_tasks[t].wave = wave \/ wave_tasks[t].status = "review_passed"

PlanInv == RowsOfPlan /\ DependenciesReviewed /\ CompleteMeansAllPassed

\* What is assumed of a plan, for the plan that is loaded.
LEMMA LoadedPlan ==
  ASSUME NEW p \in Plans
  PROVE  /\ p # NoPlan
         /\ TasksOf[p] \subseteq Tasks
         /\ \A t \in TasksOf[p] : DependsOn[p][t] \subseteq TasksOf[p]
         /\ \A S \in (SUBSET TasksOf[p]) \ {{}} :
              \E t \in S : DependsOn[p][t] \cap S = {}
<1>1. p # NoPlan /\ WellFormed(p)
  BY PlanAssumption
<1>2. QED
  BY <1>1 DEF WellFormed, Acyclic

\* A step that leaves wave_tasks alone, keeps or drops the plan, and does
\* not announce completion.
LEMMA QuietStep ==
  ASSUME PlanInv, wave_tasks' = wave_tasks,
         (plan' = plan /\ wave' = wave) \/ plan' = NoPlan,
         stage' = "execution_complete" =>
           stage = "execution_complete" /\ plan' = plan
  PROVE  PlanInv'
BY DEF PlanInv, RowsOfPlan, DependenciesReviewed, CompleteMeansAllPassed,
       Passed

\* A step that moves unpassed rows of the plan to status s, within the
\* current wave or to "review_passed".
LEMMA StatusStep ==
  ASSUME TypeOK, PlanInv, NEW S \in SUBSET Tasks,
         NEW s \in ActiveStatuses \cup {"review_passed"},
         wave_tasks' = SetStatus(S, s), plan' = plan, wave' = wave,
         \A t \in S : wave_tasks[t].status \in ActiveStatuses,
         s = "review_passed" \/ \A t \in S : wave_tasks[t].wave = wave,
         stage' = "execution_complete" => stage = "execution_complete"
  PROVE  PlanInv'
<1>1. \A t \in Tasks :
        /\ wave_tasks'[t].wave = wave_tasks[t].wave
        /\ wave_tasks'[t].status = IF t \in S THEN s ELSE wave_tasks[t].status
  BY DEF TypeOK, TaskTables, SetStatus
<1>2. Passed \subseteq Passed'
  BY <1>1 DEF Passed, ActiveStatuses
<1>3. \A t \in Tasks : wave_tasks'[t].status # "absent"
                         <=> wave_tasks[t].status # "absent"
  BY <1>1 DEF ActiveStatuses
<1>4. RowsOfPlan'
  BY <1>1, <1>3 DEF PlanInv, RowsOfPlan
<1>5. DependenciesReviewed'
  <2> SUFFICES ASSUME plan # NoPlan, NEW t \in TasksOf[plan],
                      wave_tasks'[t].status # "absent"
               PROVE  DependsOn[plan][t] \subseteq Passed'
    BY DEF DependenciesReviewed
  <2>1. plan \in Plans
    BY DEF TypeOK, SessionRows, plan
  <2>2. t \in Tasks
    BY <2>1, LoadedPlan
  <2>3. QED
    BY <1>2, <1>3, <2>2 DEF PlanInv, DependenciesReviewed
<1>6. CompleteMeansAllPassed'
  <2> SUFFICES ASSUME stage' = "execution_complete"
               PROVE  plan # NoPlan /\ Passed' = TasksOf[plan]
    BY DEF CompleteMeansAllPassed
  <2>1. plan # NoPlan /\ Passed = TasksOf[plan]
    BY DEF PlanInv, CompleteMeansAllPassed
  <2>2. Passed' \subseteq TasksOf[plan]
    BY <1>4, <2>1 DEF RowsOfPlan, Passed
  <2>3. QED
    BY <1>2, <2>1, <2>2
<1>7. QED
  BY <1>4, <1>5, <1>6 DEF PlanInv

\* create_plan installs the first wave of the new plan.
LEMMA CreatePlanStep ==
  ASSUME TypeOK, NEW p \in Plans, CreatePlan(p)
  PROVE  PlanInv'
<1>1. plan' = p /\ wave' = 1 /\ stage' = "final_plan_prep"
  BY DEF TypeOK, SessionRows, CreatePlan, plan, wave, stage
<1>2. \A t \in Tasks :
        /\ wave_tasks'[t].status # "absent" => t \in ComputeNextWave(p, {})
        /\ wave_tasks'[t].status # "absent" => wave_tasks'[t].wave = 1
  BY DEF CreatePlan, UpsertWaveTasks, NoTasks, NoRow
<1>3. \A t \in ComputeNextWave(p, {}) : t \in TasksOf[p] /\ DependsOn[p][t] = {}
  BY DEF ComputeNextWave
<1>4. RowsOfPlan'
  BY <1>1, <1>2, <1>3 DEF RowsOfPlan
<1>5. DependenciesReviewed'
  BY <1>1, <1>2, <1>3, LoadedPlan DEF DependenciesReviewed
<1>6. CompleteMeansAllPassed'
  BY <1>1 DEF CompleteMeansAllPassed
<1>7. QED
  BY <1>4, <1>5, <1>6 DEF PlanInv

\* get_next_tasks hands out the tasks whose dependencies have passed.
LEMMA GetNextWaveStep ==
  ASSUME TypeOK, PlanInv, GetNextWave
  PROVE  PlanInv'
<1> DEFINE N == ComputeNextWave(plan, Passed)
<1>1. plan \in Plans /\ plan # NoPlan /\ WaveDone
  BY DEF TypeOK, SessionRows, plan, GetNextWave, MayGetNextTasks
<1>2. plan' = plan /\ stage' = stage /\ stage' # "execution_complete"
  BY DEF TypeOK, SessionRows, GetNextWave, MayGetNextTasks, plan, stage
<1>3. \A t \in N : /\ t \in TasksOf[plan] \ Passed
                  /\ DependsOn[plan][t] \subseteq Passed
  BY DEF ComputeNextWave
<1>4. wave' = wave + 1
  BY DEF TypeOK, SessionRows, GetNextWave, wave
<1>5. wave_tasks' = [t \in Tasks |-> IF t \in N
                                     THEN [status |-> "pending", wave |-> wave']
                                     ELSE wave_tasks[t]]
  BY <1>4 DEF GetNextWave, UpsertWaveTasks
<1> HIDE DEF N
<1>6. \A t \in Tasks : wave_tasks[t].status \in {"absent", "review_passed"}
  BY <1>1 DEF WaveDone, PlanInv, RowsOfPlan
<1>7. Passed' = Passed
  BY <1>3, <1>5 DEF Passed
<1>8. RowsOfPlan'
  BY <1>1, <1>2, <1>3, <1>5, <1>6 DEF PlanInv, RowsOfPlan
<1>9. DependenciesReviewed'
  <2> SUFFICES ASSUME NEW t \in TasksOf[plan], wave_tasks'[t].status # "absent"
               PROVE  DependsOn[plan][t] \subseteq Passed
    BY <1>2, <1>7 DEF DependenciesReviewed
  <2>1. t \in Tasks
    BY <1>1, LoadedPlan
  <2>2. QED
    BY <1>1, <1>3, <1>5, <2>1 DEF PlanInv, DependenciesReviewed
<1>10. QED
  BY <1>2, <1>8, <1>9 DEF PlanInv, CompleteMeansAllPassed

\* get_next_tasks announces completion: nothing is ready in an acyclic plan
\* only if nothing is left.
LEMMA CompletePlanStep ==
  ASSUME TypeOK, PlanInv, CompletePlan
  PROVE  PlanInv'
<1>1. plan \in Plans /\ plan # NoPlan
  BY DEF TypeOK, SessionRows, plan, CompletePlan, MayGetNextTasks
<1>2. plan' = plan /\ wave' = wave /\ wave_tasks' = wave_tasks
  BY DEF TypeOK, SessionRows, CompletePlan, plan, wave, tables
<1>3. Passed \subseteq TasksOf[plan]
  BY <1>1 DEF PlanInv, RowsOfPlan, Passed
<1>4. TasksOf[plan] \ Passed = {}
  <2> SUFFICES ASSUME TasksOf[plan] \ Passed # {} PROVE FALSE
    OBVIOUS
  <2>0. /\ TasksOf[plan] \ Passed \in (SUBSET TasksOf[plan]) \ {{}}
        /\ \A S \in (SUBSET TasksOf[plan]) \ {{}} :
             \E t \in S : DependsOn[plan][t] \cap S = {}
    BY <1>1, LoadedPlan
  <2>1. PICK t \in TasksOf[plan] \ Passed :
          DependsOn[plan][t] \cap (TasksOf[plan] \ Passed) = {}
    BY <2>0
  <2>2. t \in ComputeNextWave(plan, Passed)
    BY <1>1, <2>1, LoadedPlan DEF ComputeNextWave
  <2>3. QED
    BY <2>2 DEF CompletePlan
<1>5. Passed' = Passed
  BY <1>2 DEF Passed
<1>6. QED
  BY <1>1, <1>2, <1>3, <1>4, <1>5 DEF PlanInv, RowsOfPlan,
     DependenciesReviewed, CompleteMeansAllPassed

\* Every step of the tools preserves the invariant.
LEMMA ToolPlanInv ==
  ASSUME TypeOK, PlanInv, Tool
  PROVE  PlanInv'
<1> USE DEF tables, stage, plan, wave
<1>0. session \in SessionRows
  BY DEF TypeOK
<1>1. CASE SetProfessionalMode
  BY <1>0, <1>1, QuietStep DEF SetProfessionalMode, SessionRows
<1>2. ASSUME NEW d \in Designs, RegisterDesign(d) \/ ConsumeDesign(d)
      PROVE  PlanInv'
  BY <1>0, <1>2, QuietStep DEF RegisterDesign, ConsumeDesign, ToDesignReady,
       SessionRows
<1>3. CASE MarkDesignReady
  BY <1>0, <1>3, QuietStep DEF MarkDesignReady, ToDesignReady, SessionRows
<1>4. CASE MarkPlanReady
  BY <1>0, <1>4, QuietStep DEF MarkPlanReady, SessionRows
<1>5. ASSUME NEW to \in DesignEntry, MarkDesignEntry(to)
      PROVE  PlanInv'
  BY <1>0, <1>5, QuietStep DEF MarkDesignEntry, DesignEntry, SessionRows
<1>6. ASSUME NEW to \in DesignEntry, Retreat(to)
      PROVE  PlanInv'
  BY <1>0, <1>6, QuietStep DEF Retreat, DesignEntry, SessionRows
<1>7. ASSUME NEW p \in Plans, CreatePlan(p)
      PROVE  PlanInv'
  BY <1>7, CreatePlanStep
<1>8. ASSUME NEW v \in Verdicts, SubmitTierUpReview(v)
      PROVE  PlanInv'
  BY <1>8, QuietStep DEF SubmitTierUpReview
<1>9. CASE StartExecution
  BY <1>0, <1>9, QuietStep DEF StartExecution, SessionRows
<1>10. ASSUME NEW t \in Tasks, ClaimTask(t)
       PROVE  PlanInv'
  <2>1. \A u \in {t} : /\ wave_tasks[u].status \in ActiveStatuses
                       /\ wave_tasks[u].wave = wave
    BY <1>10 DEF ClaimTask, InWave, ActiveStatuses
  <2>2. wave_tasks' = SetStatus({t}, "in_progress") /\ session' = session
    BY <1>10 DEF ClaimTask
  <2>3. QED
    BY <2>1, <2>2, StatusStep DEF ActiveStatuses
<1>11. ASSUME NEW t \in Tasks, SubmitTask(t)
       PROVE  PlanInv'
  <2>1. \A u \in {t} : /\ wave_tasks[u].status \in ActiveStatuses
                       /\ wave_tasks[u].wave = wave
    BY <1>11 DEF SubmitTask, InWave, ActiveStatuses
  <2>2. /\ wave_tasks' = SetStatus({t}, "submitted")
        /\ plan' = plan /\ wave' = wave /\ stage' = stage
    BY <1>0, <1>11 DEF SubmitTask, SessionRows
  <2>3. QED
    BY <2>1, <2>2, StatusStep DEF ActiveStatuses
<1>12. CASE RecordPass \/ RecordFail
  <2>1. /\ \A u \in Submitted : /\ wave_tasks[u].status \in ActiveStatuses
                                /\ wave_tasks[u].wave = wave
        /\ Submitted \in SUBSET Tasks
    BY DEF Submitted, InWave, ActiveStatuses
  <2>2. /\ plan' = plan /\ wave' = wave
        /\ stage' # "execution_complete"
    BY <1>0, <1>12 DEF RecordPass, RecordFail, SessionRows
  <2>3. CASE wave_tasks' = SetStatus(Submitted, "review_passed")
    BY <2>1, <2>2, <2>3, StatusStep
  <2>4. CASE wave_tasks' = SetStatus(Submitted, "in_progress")
    BY <2>1, <2>2, <2>4, StatusStep DEF ActiveStatuses
  <2>5. QED
    BY <1>12, <2>3, <2>4 DEF RecordPass, RecordFail
<1>13. CASE GetNextWave
  BY <1>13, GetNextWaveStep
<1>14. CASE CompletePlan
  BY <1>14, CompletePlanStep
<1>15. CASE MarkExecuting
  BY <1>0, <1>15, QuietStep DEF MarkExecuting, SessionRows
<1>16. CASE ClearStaleReviewPending
  BY <1>0, <1>16, QuietStep DEF ClearStaleReviewPending, SessionRows
<1>17. CASE ResetSession
  BY <1>0, <1>17 DEF ResetSession, SessionRows, PlanInv, RowsOfPlan,
     DependenciesReviewed, CompleteMeansAllPassed
<1>18. QED
  BY <1>1, <1>2, <1>3, <1>4, <1>5, <1>6, <1>7, <1>8, <1>9, <1>10, <1>11,
     <1>12, <1>13, <1>14, <1>15, <1>16, <1>17 DEF Tool

\* Every tool and hook keeps the plan invariant.
LEMMA PlanStep ==
  ASSUME TypeOK, PlanInv, [Next]_vars
  PROVE  PlanInv'
<1> USE DEF tables, stage, plan, wave
<1>0. session \in SessionRows
  BY DEF TypeOK
<1>1. CASE ToolCall
  BY <1>1, ToolPlanInv DEF ToolCall
<1>2. CASE HookRead
  BY <1>2, QuietStep DEF HookRead, SkillRead, GuardRead, StopRead,
     DeactivateRead, Begin
<1>3. CASE SkillWrite
  <2>1. hook.target # "execution_complete"
    BY DEF TypeOK, SkillTargets
  <2>2. QED
    BY <1>0, <1>3, <2>1, QuietStep DEF SkillWrite, SessionRows
<1>4. CASE GuardWrite
  BY <1>0, <1>4, QuietStep DEF GuardWrite, SessionRows
<1>5. CASE StopAdvance
  <2>1. /\ InWave(hook.wave, "submitted") \in SUBSET Tasks
        /\ \A u \in InWave(hook.wave, "submitted") :
             wave_tasks[u].status \in ActiveStatuses
    BY DEF InWave, ActiveStatuses
  <2>2. QED
    BY <1>5, <2>1, StatusStep DEF StopAdvance
<1>6. CASE StopDropGrades
  BY <1>6, QuietStep DEF StopDropGrades
<1>7. CASE DeactivateWrite
  BY <1>0, <1>7, QuietStep DEF DeactivateWrite, SessionRows
<1>8. CASE UNCHANGED vars
  BY <1>8, QuietStep DEF vars
<1>9. QED
  BY <1>1, <1>2, <1>3, <1>4, <1>5, <1>6, <1>7, <1>8 DEF Next, HookWrite

\* Without a plan the plan invariant holds.
LEMMA PlanInit == ASSUME Init PROVE PlanInv
BY DEF Init, PlanInv, RowsOfPlan, DependenciesReviewed,
   CompleteMeansAllPassed, plan, stage

\* Types and plan invariant hold in every reachable state.
LEMMA PlanInvariant == Spec => [](TypeOK /\ PlanInv)
BY TypeInit, TypeStep, PlanInit, PlanStep, PTL DEF Spec

\* Every task that was handed out has all its dependencies reviewed.
THEOREM DependenciesAreReviewed == Spec => []DependenciesReviewed
<1>1. PlanInv => DependenciesReviewed
  BY DEF PlanInv
<1>2. QED
  BY <1>1, PlanInvariant, PTL

\* Completion is announced only when the whole plan passed review.
THEOREM CompletionIsHonest == Spec => []CompleteMeansAllPassed
<1>1. PlanInv => CompleteMeansAllPassed
  BY DEF PlanInv
<1>2. QED
  BY <1>1, PlanInvariant, PTL

-----------------------------------------------------------------------------
(***************************************************************************)
(* Passed tasks stay passed: the rows a step rewrites were not passed.     *)
(***************************************************************************)
LEMMA StatusKeepsPassed ==
  ASSUME TypeOK, NEW S \in SUBSET Tasks, NEW s, wave_tasks' = SetStatus(S, s),
         S \cap Passed = {}
  PROVE  Passed \subseteq Passed'
BY DEF SetStatus, Passed

\* While one plan stays loaded, no step takes a passed task back.
LEMMA PassedStep ==
  ASSUME TypeOK, PlanInv, [Next]_vars, plan # NoPlan, plan' = plan,
         stage' # "final_plan_prep"
  PROVE  Passed \subseteq Passed'
<1> USE DEF tables
<1>0. \A w : /\ InWave(w, "submitted") \in SUBSET Tasks
             /\ InWave(w, "submitted") \cap Passed = {}
  BY DEF InWave, Passed
<1>1. CASE wave_tasks' = wave_tasks
  BY <1>1 DEF Passed
<1>2. ASSUME NEW t \in Tasks, ClaimTask(t) \/ SubmitTask(t)
      PROVE  Passed \subseteq Passed'
  <2>1. {t} \cap Passed = {}
    BY <1>2 DEF ClaimTask, SubmitTask, InWave, Passed
  <2>2. QED
    BY <1>2, <2>1, StatusKeepsPassed DEF ClaimTask, SubmitTask
<1>3. CASE RecordPass \/ RecordFail
  BY <1>0, <1>3, StatusKeepsPassed DEF RecordPass, RecordFail, Submitted
<1>4. CASE StopAdvance
  BY <1>0, <1>4, StatusKeepsPassed DEF StopAdvance
<1>5. CASE GetNextWave
  <2>1. ComputeNextWave(plan, Passed) \cap Passed = {}
    BY DEF ComputeNextWave
  <2>2. QED
    BY <1>5, <2>1 DEF GetNextWave, UpsertWaveTasks, Passed
<1>6. ASSUME NEW p \in Plans, CreatePlan(p)
      PROVE  FALSE
  BY <1>6 DEF TypeOK, SessionRows, CreatePlan, stage
<1>7. CASE ResetSession
  BY <1>7 DEF TypeOK, SessionRows, ResetSession, plan
<1>8. CASE Tool
  BY <1>1, <1>2, <1>3, <1>5, <1>6, <1>7, <1>8 DEF Tool, SetProfessionalMode,
     RegisterDesign, ConsumeDesign, MarkDesignReady, MarkPlanReady,
     MarkDesignEntry, Retreat, SubmitTierUpReview, StartExecution,
     CompletePlan, MarkExecuting, ClearStaleReviewPending
<1>9. CASE HookRead
  BY <1>1, <1>9 DEF HookRead, SkillRead, GuardRead, StopRead, DeactivateRead,
     Begin
<1>10. CASE HookWrite
  BY <1>1, <1>4, <1>10 DEF HookWrite, SkillWrite, GuardWrite, StopDropGrades,
     DeactivateWrite
<1>11. CASE UNCHANGED vars
  BY <1>1, <1>11 DEF vars
<1>12. QED
  BY <1>8, <1>9, <1>10, <1>11 DEF Next, ToolCall

\* No call, hook or re-entry takes a passed task of the loaded plan back.
THEOREM PassedStaysPassed == Spec => PassedIsFinal
<1>1. TypeOK /\ PlanInv /\ [Next]_vars =>
        [plan # NoPlan /\ plan' = plan /\ stage' # "final_plan_prep"
           => Passed \subseteq Passed']_vars
  BY PassedStep
<1>2. QED
  BY <1>1, PlanInvariant, PTL DEF Spec, PassedIsFinal

-----------------------------------------------------------------------------
(***************************************************************************)
(* The tier-up gate.  Whatever could let work on the loaded plan begin     *)
(* (an execution stage, a passing grade for mark_executing, a skill hook   *)
(* about to write an execution stage) presupposes a review that cleared    *)
(* the plan.  With more than one tool call inside a hook's window this     *)
(* fails: the hook could read "executing" of one plan and write            *)
(* "reviewing" over the next one.                                          *)
(***************************************************************************)
Accepted(p) == \E l \in 0..session.plan_lineage : Cleared(l, p)

ExecutionStages == {"executing", "reviewing", "plan_interrupted"}

HookToExecution == hook.kind = "skill" /\ hook.target \in ExecutionStages

Begun ==
  \/ stage \in ExecutionStages
  \/ review_grades.passing # {}
  \/ \E t \in Tasks : wave_tasks[t].status \notin {"absent", "pending"}
  \/ HookToExecution

GateInv ==
  /\ Policy = "enforced" /\ plan # NoPlan /\ Begun => Accepted(plan)
  /\ HookToExecution /\ hook.tools = 0 => stage = "executing"

\* Reviews are only added and the lineage only grows.
LEMMA AcceptedStays ==
  ASSUME TypeOK, TypeOK', NEW p \in Plans, Accepted(p), tier_up \subseteq tier_up',
         session'.plan_lineage \in {session.plan_lineage, session.plan_lineage + 1}
  PROVE  Accepted(p)'
<1>1. PICK l \in 0..session.plan_lineage : Cleared(l, p)
  BY DEF Accepted
<1>2. Cleared(l, p)'
  BY <1>1 DEF Cleared, Blind, Remediated
<1>3. session.plan_lineage \in Nat /\ session'.plan_lineage \in Nat
  BY DEF TypeOK, SessionRows
<1>4. l \in 0..session'.plan_lineage
  BY <1>1, <1>3
<1>5. QED
  BY <1>2, <1>4 DEF Accepted

\* Reviews are only added, the lineage only grows, by at most one.
LEMMA ReviewsGrow ==
  ASSUME TypeOK, [Next]_vars
  PROVE  /\ tier_up \subseteq tier_up'
         /\ session'.plan_lineage
              \in {session.plan_lineage, session.plan_lineage + 1}
<1> USE DEF tables
<1>0. session \in SessionRows
  BY DEF TypeOK
<1>1. CASE Tool
  <2>1. tier_up \subseteq tier_up'
    BY <1>1 DEF Tool, SetProfessionalMode, RegisterDesign, ConsumeDesign,
       MarkDesignReady, MarkPlanReady, MarkDesignEntry, Retreat, CreatePlan,
       SubmitTierUpReview, StartExecution, ClaimTask, SubmitTask, RecordPass,
       RecordFail, GetNextWave, CompletePlan, MarkExecuting,
       ClearStaleReviewPending, ResetSession
  <2>2. CASE session' = ToDesignReady
    BY <1>0, <2>1, <2>2 DEF ToDesignReady, SessionRows
  <2>3. CASE session' = session
    BY <2>1, <2>3
  <2>4. CASE session' # ToDesignReady /\ session' # session
    BY <1>0, <1>1, <2>4 DEF Tool, SetProfessionalMode, RegisterDesign,
       ConsumeDesign, MarkDesignReady, MarkPlanReady, MarkDesignEntry,
       Retreat, CreatePlan, SubmitTierUpReview, StartExecution, ClaimTask,
       SubmitTask, RecordPass, RecordFail, GetNextWave, CompletePlan,
       MarkExecuting, ClearStaleReviewPending, ResetSession, SessionRows
  <2>5. QED
    BY <2>1, <2>2, <2>3, <2>4
<1>2. CASE HookRead
  BY <1>2 DEF HookRead, SkillRead, GuardRead, StopRead, DeactivateRead, Begin
<1>3. CASE HookWrite
  BY <1>0, <1>3 DEF HookWrite, SkillWrite, GuardWrite, StopAdvance,
     StopDropGrades, DeactivateWrite, SessionRows
<1>4. CASE UNCHANGED vars
  BY <1>4 DEF vars
<1>5. QED
  BY <1>1, <1>2, <1>3, <1>4 DEF Next, ToolCall

\* GateInv after a step that loads no plan and after which work has begun
\* only if it had, or if the loaded plan has just been found cleared.
LEMMA GateKept ==
  ASSUME TypeOK, TypeOK', [Next]_vars, GateInv,
         plan' = plan \/ plan' = NoPlan,
         Policy = "enforced" /\ plan # NoPlan /\ Begun' =>
           Begun \/ Cleared(session.plan_lineage, plan),
         HookToExecution' /\ hook'.tools = 0 => stage' = "executing"
  PROVE  GateInv'
<1>1. ASSUME Policy = "enforced", plan' # NoPlan, Begun'
      PROVE  Accepted(plan)'
  <2>1. plan \in Plans /\ plan' = plan
    BY <1>1 DEF TypeOK, SessionRows, plan
  <2>2. session.plan_lineage \in 0..session.plan_lineage
    BY DEF TypeOK, SessionRows
  <2>3. Accepted(plan)
    BY <1>1, <2>1, <2>2 DEF GateInv, Accepted
  <2>4. ASSUME NEW p \in Plans, Accepted(p)
        PROVE  Accepted(p)'
    BY <2>4, ReviewsGrow, AcceptedStays
  <2>5. PICK p \in Plans : p = plan /\ p = plan'
    BY <2>1
  <2>6. Accepted(p)'
    BY <2>3, <2>4, <2>5 DEF Accepted, Cleared, Remediated
  <2>7. QED
    BY <2>5, <2>6 DEF Accepted, Cleared, Remediated
<1>2. QED
  BY <1>1 DEF GateInv, HookToExecution

\* A step of a tool that moves no task and records no grade.
LEMMA QuietGate ==
  ASSUME stage' = stage \/ stage' \notin ExecutionStages,
         wave_tasks' = wave_tasks, review_grades' = review_grades,
         HookToExecution' = HookToExecution
  PROVE  Begun' => Begun
BY DEF Begun

\* The tools other than create_plan load no plan, and work begins only
\* where it had begun or through start_execution's gate.
LEMMA ToolGate ==
  ASSUME TypeOK, Tool, \A p \in Plans : ~CreatePlan(p),
         HookToExecution' = HookToExecution
  PROVE  /\ plan' = plan \/ plan' = NoPlan
         /\ Policy = "enforced" /\ plan # NoPlan /\ Begun' =>
              Begun \/ Cleared(session.plan_lineage, plan)
<1> USE DEF tables, stage, plan
<1>0. session \in SessionRows /\ wave_tasks \in TaskTables
  BY DEF TypeOK
<1>1. CASE SetProfessionalMode
  BY <1>0, <1>1, QuietGate DEF SetProfessionalMode, SessionRows
<1>2. ASSUME NEW d \in Designs, RegisterDesign(d) \/ ConsumeDesign(d)
      PROVE  (plan' = plan \/ plan' = NoPlan) /\ (Begun' => Begun)
  BY <1>0, <1>2, QuietGate DEF RegisterDesign, ConsumeDesign, ToDesignReady,
     SessionRows, ExecutionStages
<1>3. CASE MarkDesignReady
  BY <1>0, <1>3, QuietGate DEF MarkDesignReady, ToDesignReady, SessionRows,
     ExecutionStages
<1>4. CASE MarkPlanReady
  BY <1>0, <1>4, QuietGate DEF MarkPlanReady, SessionRows, ExecutionStages
<1>5. ASSUME NEW to \in DesignEntry, MarkDesignEntry(to)
      PROVE  (plan' = plan \/ plan' = NoPlan) /\ (Begun' => Begun)
  BY <1>0, <1>5, QuietGate DEF MarkDesignEntry, DesignEntry, SessionRows,
     ExecutionStages
<1>6. ASSUME NEW to \in DesignEntry, Retreat(to)
      PROVE  (plan' = plan \/ plan' = NoPlan) /\ (Begun' => Begun)
  BY <1>0, <1>6, QuietGate DEF Retreat, DesignEntry, SessionRows,
     ExecutionStages
<1>7. ASSUME NEW v \in Verdicts, SubmitTierUpReview(v)
      PROVE  (plan' = plan \/ plan' = NoPlan) /\ (Begun' => Begun)
  BY <1>7, QuietGate DEF SubmitTierUpReview
<1>8. CASE StartExecution
  BY <1>0, <1>8 DEF StartExecution, TierUpGate, SessionRows
<1>9. ASSUME NEW t \in Tasks, ClaimTask(t) \/ SubmitTask(t)
      PROVE  (plan' = plan \/ plan' = NoPlan) /\ (Begun' => Begun)
  BY <1>0, <1>9 DEF ClaimTask, SubmitTask, InWave, SessionRows, Begun,
     ExecutionStages
<1>10. CASE RecordPass \/ RecordFail
  BY <1>0, <1>10 DEF RecordPass, RecordFail, SessionRows, Begun,
     ExecutionStages
<1>11. CASE GetNextWave
  BY <1>0, <1>11 DEF GetNextWave, MayGetNextTasks, SessionRows, Begun,
     ExecutionStages
<1>12. CASE CompletePlan
  BY <1>0, <1>12 DEF CompletePlan, MayGetNextTasks, SessionRows, Begun,
     ExecutionStages
<1>13. CASE MarkExecuting
  BY <1>0, <1>13 DEF MarkExecuting, SessionRows, Begun
<1>14. CASE ClearStaleReviewPending
  BY <1>0, <1>14, QuietGate DEF ClearStaleReviewPending, SessionRows
<1>15. CASE ResetSession
  BY <1>0, <1>15 DEF ResetSession, SessionRows, Begun, NoGrades, NoTasks,
     NoRow, ExecutionStages
<1>16. QED
  BY <1>1, <1>2, <1>3, <1>4, <1>5, <1>6, <1>7, <1>8, <1>9, <1>10, <1>11,
     <1>12, <1>13, <1>14, <1>15 DEF Tool

\* create_plan cannot run between the two steps of a hook that is about to
\* write an execution stage: that hook has just seen "executing".
LEMMA GateStep ==
  ASSUME ToolsPerHook <= 1, TypeOK, TypeOK', [Next]_vars, GateInv
  PROVE  GateInv'
<1> USE DEF tables
<1>0. session \in SessionRows /\ wave_tasks \in TaskTables /\ hook.tools \in Nat
  BY DEF TypeOK
<1>1. CASE ToolCall
  <2>1. /\ HookToExecution' = HookToExecution
        /\ HookToExecution => hook.tools = 0 /\ hook'.tools # 0
    BY <1>0, <1>1, ParameterAssumption DEF TypeOK, ToolCall, HookToExecution,
       NoHook
  <2>2. ASSUME NEW p \in Plans, CreatePlan(p)
        PROVE  GateInv'
    <3>1. ~HookToExecution'
      BY <2>1, <2>2 DEF CreatePlan, GateInv
    <3>2. ~Begun'
      BY <1>0, <2>2, <3>1 DEF CreatePlan, Begun, UpsertWaveTasks, NoTasks,
         NoRow, NoGrades, stage, SessionRows, ExecutionStages
    <3>3. QED
      BY <3>1, <3>2 DEF GateInv
  <2>3. ASSUME \A p \in Plans : ~CreatePlan(p)
        PROVE  GateInv'
    <3>1. /\ plan' = plan \/ plan' = NoPlan
          /\ Policy = "enforced" /\ plan # NoPlan /\ Begun' =>
               Begun \/ Cleared(session.plan_lineage, plan)
      BY <1>1, <2>1, <2>3, ToolGate DEF ToolCall
    <3>2. QED
      BY <2>1, <3>1, GateKept
  <2>4. QED
    BY <2>2, <2>3
<1>2. CASE HookRead
  <2>1. /\ plan' = plan /\ stage' = stage /\ wave_tasks' = wave_tasks
        /\ review_grades' = review_grades
        /\ HookToExecution' => stage = "executing"
    BY <1>2 DEF HookRead, SkillRead, GuardRead, StopRead, DeactivateRead,
       Begin, HookToExecution, SkillSources, DesignEntry, ExecutionStages,
       plan, stage
  <2>2. Begun' => Begun
    BY <2>1 DEF Begun, ExecutionStages
  <2>3. QED
    BY <2>1, <2>2, GateKept
<1>3. CASE HookWrite
  <2>1. plan' = plan /\ ~HookToExecution'
    <3>1. hook' = NoHook
      BY <1>3 DEF HookWrite, SkillWrite, GuardWrite, StopAdvance,
         StopDropGrades, DeactivateWrite
    <3>2. session'.plan_json = session.plan_json
      BY <1>0, <1>3 DEF HookWrite, SkillWrite, GuardWrite, StopAdvance,
         StopDropGrades, DeactivateWrite, SessionRows
    <3>3. QED
      BY <3>1, <3>2 DEF HookToExecution, NoHook, plan
  <2>2. CASE SkillWrite
    <3>1. Begun' => Begun
      BY <1>0, <2>1, <2>2 DEF SkillWrite, Begun, HookToExecution, stage,
         SessionRows
    <3>2. QED
      BY <2>1, <3>1, GateKept
  <2>3. CASE GuardWrite \/ DeactivateWrite
    <3>1. Begun' => Begun
      BY <1>0, <2>1, <2>3 DEF GuardWrite, DeactivateWrite, Begun, stage,
         SessionRows, ExecutionStages
    <3>2. QED
      BY <2>1, <3>1, GateKept
  <2>4. CASE StopAdvance
    <3>1. Begun' => Begun
      BY <1>0, <2>1, <2>4 DEF StopAdvance, SetStatus, InWave, Begun, stage,
         TaskTables
    <3>2. QED
      BY <2>1, <3>1, GateKept
  <2>5. CASE StopDropGrades
    <3>1. Begun' => Begun
      BY <1>0, <2>1, <2>5 DEF StopDropGrades, Begun, stage, TypeOK
    <3>2. QED
      BY <2>1, <3>1, GateKept
  <2>6. QED
    BY <1>3, <2>2, <2>3, <2>4, <2>5 DEF HookWrite
<1>4. CASE UNCHANGED vars
  BY <1>4 DEF vars, GateInv, Begun, Accepted, Cleared, Blind, Remediated,
     HookToExecution, stage, plan
<1>5. QED
  BY <1>1, <1>2, <1>3, <1>4 DEF Next

\* Before any plan the gate invariant holds.
LEMMA GateInit == ASSUME Init PROVE GateInv
BY DEF Init, GateInv, HookToExecution, NoHook, plan

\* Under the enforced policy no task of the loaded plan is worked on before a
\* tier-up review cleared this plan, as long as at most one tool call lands
\* between the read and the write of a skill hook.
THEOREM WorkNeedsReview ==
  ASSUME ToolsPerHook <= 1
  PROVE  Spec => []NoWorkBeforeGate
<1>1. GateInv => NoWorkBeforeGate
  BY DEF GateInv, NoWorkBeforeGate, Begun, Accepted
<1>2. TypeOK /\ TypeOK' /\ GateInv /\ [Next]_vars => GateInv'
  BY GateStep
<1>3. QED
  BY <1>1, <1>2, GateInit, TypeCorrect, PTL DEF Spec

-----------------------------------------------------------------------------
(***************************************************************************)
(* One blind review per effort, when no tool call lands inside a hook's    *)
(* window.  An effort that has spent its review keeps the lineage that     *)
(* holds it, and is marked to inherit it wherever it re-enters the design  *)
(* phase; no call resumes work out of a fresh stage, because no task is    *)
(* active there.                                                           *)
(***************************************************************************)
EffortReviewed ==
  spent /\ stage \notin FreshStages =>
    /\ Blind(session.plan_lineage) # {}
    /\ stage \in DesignEntry => session.inherit_review = 1

IdleQuiet == stage = "idle" => ActiveTasks = {}

HookUpToDate ==
  /\ hook.kind = "skill" => /\ hook.seen = stage
                            /\ hook.target \in SkillTargets
                            /\ stage \in SkillSources(hook.target)
  /\ hook.kind = "off_idle" => ActiveTasks = {}

BudgetInv == EffortReviewed /\ IdleQuiet /\ HookUpToDate

\* A step that keeps the lineage, starts no effort without marking it new,
\* and re-enters the design phase with the inherit flag.
LEMMA EffortKept ==
  ASSUME EffortReviewed, tier_up \subseteq tier_up',
         session'.plan_lineage = session.plan_lineage,
         spent' => spent,
         spent' /\ stage' \notin FreshStages => stage \notin FreshStages,
         spent' /\ stage' \in DesignEntry =>
           \/ session'.inherit_review = 1
           \/ stage \in DesignEntry
                /\ session'.inherit_review = session.inherit_review
  PROVE  EffortReviewed'
BY DEF EffortReviewed, Blind

\* (Re-)entering the design phase from any stage.
LEMMA EntryEffort ==
  ASSUME TypeOK, EffortReviewed, NEW to \in DesignEntry,
         session' = [session EXCEPT
           !.workflow_stage = to,
           !.inherit_review =
              InheritOnReentry(stage, session.inherit_review)],
         spent' = EffortAfter(stage), tier_up' = tier_up
  PROVE  EffortReviewed' /\ IdleQuiet'
<1>0. session \in SessionRows /\ stage \in Stages
  BY DEF TypeOK, SessionRows, stage
<1>1. /\ stage' = to /\ session'.plan_lineage = session.plan_lineage
      /\ session'.inherit_review = InheritOnReentry(stage, session.inherit_review)
  BY <1>0 DEF stage, SessionRows
<1>2. stage \in FreshStages \/ stage \in DesignEntry \/ stage \in RETREAT_SOURCES
  BY <1>0 DEF Stages, FreshStages, DesignEntry, RETREAT_SOURCES
<1>3. CASE stage \in FreshStages
  BY <1>1, <1>3 DEF EffortAfter, EffortReviewed, IdleQuiet, DesignEntry
<1>4. CASE stage \notin FreshStages
  <2>1. \/ session'.inherit_review = 1
        \/ stage \in DesignEntry
             /\ session'.inherit_review = session.inherit_review
    BY <1>1, <1>2, <1>4 DEF InheritOnReentry, RETREAT_SOURCES, DesignEntry
  <2>2. EffortReviewed'
    BY <1>1, <1>4, <2>1, EffortKept DEF EffortAfter
  <2>3. QED
    BY <1>1, <2>2 DEF IdleQuiet, DesignEntry
<1>5. QED
  BY <1>3, <1>4

\* Leaving brainstorming: an effort that has spent its review inherits.
LEMMA DesignReadyEffort ==
  ASSUME TypeOK, EffortReviewed, stage = "brainstorming",
         session' = ToDesignReady, spent' = spent, tier_up' = tier_up
  PROVE  EffortReviewed' /\ IdleQuiet'
<1>0. session \in SessionRows
  BY DEF TypeOK
<1>1. stage' = "design_ready"
  BY <1>0 DEF ToDesignReady, SessionRows, stage
<1>2. CASE session.inherit_review = 1
  <2>1. session'.plan_lineage = session.plan_lineage
    BY <1>0, <1>2 DEF ToDesignReady, SessionRows
  <2>2. EffortReviewed'
    BY <1>1, <2>1, EffortKept DEF DesignEntry, FreshStages
  <2>3. QED
    BY <1>1, <2>2 DEF IdleQuiet
<1>3. CASE session.inherit_review # 1
  BY <1>1, <1>3 DEF EffortReviewed, IdleQuiet, FreshStages, DesignEntry
<1>4. QED
  BY <1>2, <1>3

\* No task is active in a fresh stage, so mark_executing's recovery cannot
\* leave one.
LEMMA FreshQuiet ==
  ASSUME PlanInv, IdleQuiet, stage \in FreshStages
  PROVE  ActiveTasks = {}
<1>1. CASE stage = "idle"
  BY <1>1 DEF IdleQuiet
<1>2. CASE stage = "execution_complete"
  BY <1>2 DEF PlanInv, CompleteMeansAllPassed, RowsOfPlan, ActiveTasks,
     ActiveStatuses, Passed
<1>3. QED
  BY <1>1, <1>2 DEF FreshStages

\* The tools preserve the two parts that do not speak of a hook.
LEMMA ToolBudget ==
  ASSUME TypeOK, PlanInv, EffortReviewed, IdleQuiet, Tool
  PROVE  EffortReviewed' /\ IdleQuiet'
<1> USE DEF tables
<1>0. session \in SessionRows /\ wave_tasks \in TaskTables /\ stage \in Stages
  BY DEF TypeOK, SessionRows, stage
<1>1. ASSUME stage' = stage, session'.plan_lineage = session.plan_lineage,
             session'.inherit_review = session.inherit_review,
             tier_up' = tier_up, spent' = spent,
             ActiveTasks' \subseteq ActiveTasks
      PROVE  EffortReviewed' /\ IdleQuiet'
  BY <1>1, EffortKept DEF IdleQuiet
<1>2. ASSUME stage' \notin FreshStages \cup DesignEntry,
             stage \notin FreshStages,
             session'.plan_lineage = session.plan_lineage,
             tier_up' = tier_up, spent' = spent
      PROVE  EffortReviewed' /\ IdleQuiet'
  BY <1>2, EffortKept DEF IdleQuiet, FreshStages
<1>3. CASE SetProfessionalMode \/ ClearStaleReviewPending
  BY <1>0, <1>1, <1>3 DEF SetProfessionalMode, ClearStaleReviewPending,
     SessionRows, stage, ActiveTasks
<1>4. ASSUME NEW d \in Designs, RegisterDesign(d)
      PROVE  EffortReviewed' /\ IdleQuiet'
  BY <1>1, <1>4 DEF RegisterDesign, stage, ActiveTasks
<1>5. ASSUME NEW d \in Designs, ConsumeDesign(d)
      PROVE  EffortReviewed' /\ IdleQuiet'
  BY <1>1, <1>5, DesignReadyEffort DEF ConsumeDesign, stage, ActiveTasks
<1>6. CASE MarkDesignReady
  <2>1. stage = "brainstorming"
    BY <1>0, <1>6 DEF MarkDesignReady, ValidTransition, FORWARD_TRANSITIONS,
       Stages, DesignEntry
  <2>2. QED
    BY <1>6, <2>1, DesignReadyEffort DEF MarkDesignReady
<1>7. CASE MarkPlanReady
  <2>1. stage \notin FreshStages
    BY <1>7 DEF MarkPlanReady, ValidTransition, FORWARD_TRANSITIONS,
       FreshStages, DesignEntry
  <2>2. stage' = "plan_ready" /\ session'.plan_lineage = session.plan_lineage
    BY <1>0, <1>7 DEF MarkPlanReady, SessionRows, stage
  <2>3. QED
    BY <1>2, <1>7, <2>1, <2>2 DEF MarkPlanReady, FreshStages, DesignEntry
<1>8. ASSUME NEW to \in DesignEntry, MarkDesignEntry(to)
      PROVE  EffortReviewed' /\ IdleQuiet'
  BY <1>8, EntryEffort DEF MarkDesignEntry
<1>9. ASSUME NEW to \in DesignEntry, Retreat(to)
      PROVE  EffortReviewed' /\ IdleQuiet'
  <2>1. /\ stage' = to
        /\ session'.plan_lineage = session.plan_lineage
        /\ session'.inherit_review = InheritOnReentry(stage, session.inherit_review)
        /\ spent' = EffortAfter(stage) /\ tier_up' = tier_up
    BY <1>0, <1>9 DEF Retreat, SessionRows, stage
  <2>2. CASE stage \in FreshStages
    BY <2>1, <2>2 DEF EffortAfter, EffortReviewed, IdleQuiet, DesignEntry
  <2>3. CASE stage \in DesignEntry \cup RETREAT_SOURCES
    <3>1. \/ session'.inherit_review = 1
          \/ stage \in DesignEntry
               /\ session'.inherit_review = session.inherit_review
      BY <2>1, <2>3 DEF InheritOnReentry, RETREAT_SOURCES, DesignEntry,
         FreshStages
    <3>2. stage \notin FreshStages
      BY <2>3 DEF RETREAT_SOURCES, DesignEntry, FreshStages
    <3>3. EffortReviewed'
      BY <2>1, <3>1, <3>2, EffortKept DEF EffortAfter
    <3>4. QED
      BY <2>1, <3>3 DEF IdleQuiet, DesignEntry
  <2>4. QED
    BY <1>0, <2>2, <2>3 DEF Stages, RETREAT_SOURCES, DesignEntry, FreshStages
<1>10. ASSUME NEW p \in Plans, CreatePlan(p)
       PROVE  EffortReviewed' /\ IdleQuiet'
  <2>1. /\ stage \notin FreshStages /\ stage' = "final_plan_prep"
        /\ session'.plan_lineage = session.plan_lineage
    BY <1>0, <1>10 DEF CreatePlan, SessionRows, stage, FreshStages
  <2>2. QED
    BY <1>2, <1>10, <2>1 DEF CreatePlan, FreshStages, DesignEntry
<1>11. ASSUME NEW v \in Verdicts, SubmitTierUpReview(v)
       PROVE  EffortReviewed' /\ IdleQuiet'
  <2>1. /\ stage' = stage /\ session' = session
        /\ stage \notin DesignEntry \cup FreshStages
        /\ tier_up \subseteq tier_up'
    BY <1>11 DEF SubmitTierUpReview, stage, DesignEntry, FreshStages
  <2>2. CASE v \in BlindVerdicts
    <3>1. [lineage |-> session.plan_lineage, plan |-> plan, verdict |-> v]
            \in Blind(session.plan_lineage)'
      BY <1>11, <2>1, <2>2 DEF SubmitTierUpReview, Blind
    <3>2. QED
      BY <2>1, <3>1 DEF EffortReviewed, IdleQuiet, FreshStages
  <2>3. CASE v \notin BlindVerdicts
    <3>1. spent' => spent
      BY <1>11, <2>3 DEF SubmitTierUpReview
    <3>2. EffortReviewed'
      BY <2>1, <3>1, EffortKept
    <3>3. QED
      BY <2>1, <3>2 DEF IdleQuiet, FreshStages
  <2>4. QED
    BY <2>2, <2>3
<1>12. CASE StartExecution
  <2>1. stage \notin FreshStages \cup DesignEntry
    BY <1>12 DEF StartExecution, ValidTransition, FORWARD_TRANSITIONS,
       FreshStages, DesignEntry, RETREAT_SOURCES
  <2>2. stage' = "executing" /\ session'.plan_lineage = session.plan_lineage
    BY <1>0, <1>12 DEF StartExecution, SessionRows, stage
  <2>3. QED
    BY <1>2, <1>12, <2>1, <2>2 DEF StartExecution, FreshStages, DesignEntry
<1>13. ASSUME NEW t \in Tasks, ClaimTask(t) \/ SubmitTask(t)
       PROVE  EffortReviewed' /\ IdleQuiet'
  <2>1. ActiveTasks' \subseteq ActiveTasks
    BY <1>0, <1>13 DEF ClaimTask, SubmitTask, ActiveTasks, ActiveStatuses,
       SetStatus, InWave, TaskTables
  <2>2. QED
    BY <1>0, <1>1, <1>13, <2>1 DEF ClaimTask, SubmitTask, SessionRows, stage
<1>14. CASE RecordPass \/ RecordFail
  <2>1. /\ stage \notin FreshStages \cup DesignEntry
        /\ stage' \notin FreshStages \cup DesignEntry
        /\ session'.plan_lineage = session.plan_lineage
    BY <1>0, <1>14 DEF RecordPass, RecordFail, SessionRows, stage, FreshStages,
       DesignEntry
  <2>2. QED
    BY <1>2, <1>14, <2>1 DEF RecordPass, RecordFail
<1>15. CASE GetNextWave
  <2>1. /\ stage \notin FreshStages \cup DesignEntry
        /\ stage' = stage
        /\ session'.plan_lineage = session.plan_lineage
    BY <1>0, <1>15 DEF GetNextWave, MayGetNextTasks, SessionRows, stage,
       FreshStages, DesignEntry
  <2>2. QED
    BY <1>2, <1>15, <2>1 DEF GetNextWave
<1>16. CASE CompletePlan
  <2>1. stage' = "execution_complete"
    BY <1>0, <1>16 DEF CompletePlan, SessionRows, stage
  <2>2. QED
    BY <2>1 DEF EffortReviewed, IdleQuiet, FreshStages
<1>17. CASE MarkExecuting
  <2>1. stage \notin FreshStages
    <3>1. ~ValidTransition("idle", "executing")
          /\ ~ValidTransition("execution_complete", "executing")
      BY DEF ValidTransition, FORWARD_TRANSITIONS, DesignEntry
    <3>2. QED
      BY <1>17, <3>1, FreshQuiet DEF MarkExecuting, FreshStages
  <2>2. stage' = "executing" /\ session'.plan_lineage = session.plan_lineage
    BY <1>0, <1>17 DEF MarkExecuting, SessionRows, stage
  <2>3. QED
    BY <1>2, <1>17, <2>1, <2>2 DEF MarkExecuting, FreshStages, DesignEntry
<1>18. CASE ResetSession
  <2>1. stage' = "idle" /\ ActiveTasks' = {}
    BY <1>0, <1>18 DEF ResetSession, SessionRows, stage, ActiveTasks, NoTasks,
       NoRow, ActiveStatuses
  <2>2. QED
    BY <2>1 DEF EffortReviewed, IdleQuiet, FreshStages
<1>19. QED
  BY <1>3, <1>4, <1>5, <1>6, <1>7, <1>8, <1>9, <1>10, <1>11, <1>12, <1>13,
     <1>14, <1>15, <1>16, <1>17, <1>18 DEF Tool

\* Every step, when a hook's read and write are one uninterrupted pair.
LEMMA BudgetStep ==
  ASSUME ToolsPerHook = 0, TypeOK, PlanInv, [Next]_vars, BudgetInv
  PROVE  BudgetInv'
<1> USE DEF tables
<1>0. session \in SessionRows /\ wave_tasks \in TaskTables /\ hook.tools \in Nat
  BY DEF TypeOK
<1>1. CASE ToolCall
  <2>1. hook = NoHook /\ hook' = NoHook
    BY <1>0, <1>1 DEF ToolCall
  <2>2. HookUpToDate'
    BY <2>1 DEF HookUpToDate, NoHook
  <2>3. QED
    BY <1>1, <2>2, ToolBudget DEF ToolCall, BudgetInv
<1>2. CASE HookRead
  <2>1. UNCHANGED <<session, wave_tasks, review_grades, tier_up, designs,
                    reviewed, spent>>
    BY <1>2 DEF HookRead, SkillRead, GuardRead, StopRead, DeactivateRead, Begin
  <2>2. EffortReviewed' /\ IdleQuiet'
    BY <2>1 DEF BudgetInv, EffortReviewed, IdleQuiet, Blind, ActiveTasks, stage
  <2>3. stage' = stage /\ ActiveTasks' = ActiveTasks
    BY <2>1 DEF stage, ActiveTasks
  <2>4. HookUpToDate'
    BY <1>2, <2>3 DEF HookRead, SkillRead, GuardRead, StopRead, DeactivateRead,
       Begin, HookUpToDate
  <2>5. QED
    BY <2>2, <2>4 DEF BudgetInv
<1>3. CASE HookWrite
  <2>1. HookUpToDate'
    <3>1. hook' = NoHook
      BY <1>3 DEF HookWrite, SkillWrite, GuardWrite, StopAdvance,
         StopDropGrades, DeactivateWrite
    <3>2. QED
      BY <3>1 DEF HookUpToDate, NoHook
  <2>2. CASE SkillWrite
    <3>1. hook.seen = stage /\ hook.target \in SkillTargets
          /\ stage \in SkillSources(hook.target)
      BY <2>2 DEF SkillWrite, BudgetInv, HookUpToDate
    <3>2. CASE hook.target \in DesignEntry
      <4>1. PICK to \in DesignEntry : to = hook.target
        BY <3>2
      <4>2. /\ session' = [session EXCEPT
                 !.workflow_stage = to,
                 !.inherit_review =
                    InheritOnReentry(stage, session.inherit_review)]
            /\ spent' = EffortAfter(stage) /\ tier_up' = tier_up
        BY <2>2, <3>1, <4>1 DEF SkillWrite
      <4>3. QED
        BY <2>1, <4>2, EntryEffort DEF BudgetInv
    <3>3. CASE hook.target \notin DesignEntry
      <4>1. /\ stage' = hook.target /\ tier_up' = tier_up /\ spent' = spent
            /\ session'.plan_lineage = session.plan_lineage
        BY <1>0, <2>2, <3>3 DEF SkillWrite, stage, SessionRows
      <4>2. stage \notin FreshStages
        BY <3>1, <3>3 DEF SkillSources, FreshStages
      <4>3. stage' \notin FreshStages \cup DesignEntry
        BY <3>1, <3>3, <4>1 DEF SkillTargets, FreshStages
      <4>4. EffortReviewed'
        BY <4>1, <4>2, <4>3, EffortKept DEF BudgetInv
      <4>5. QED
        BY <2>1, <4>3, <4>4 DEF BudgetInv, IdleQuiet, FreshStages
    <3>4. QED
      BY <3>2, <3>3
  <2>3. CASE GuardWrite \/ StopAdvance \/ StopDropGrades
    <3>1. /\ stage' = stage /\ tier_up' = tier_up /\ spent' = spent
          /\ session'.plan_lineage = session.plan_lineage
          /\ session'.inherit_review = session.inherit_review
      BY <1>0, <2>3 DEF GuardWrite, StopAdvance, StopDropGrades, stage,
         SessionRows
    <3>2. ActiveTasks' \subseteq ActiveTasks
      BY <1>0, <2>3 DEF GuardWrite, StopAdvance, StopDropGrades, SetStatus,
         InWave, ActiveTasks, ActiveStatuses, TaskTables
    <3>3. EffortReviewed'
      BY <3>1, EffortKept DEF BudgetInv
    <3>4. QED
      BY <2>1, <3>1, <3>2, <3>3 DEF BudgetInv, IdleQuiet
  <2>4. CASE DeactivateWrite
    <3>1. /\ stage' = stage \/ (stage' = "idle" /\ ActiveTasks = {})
          /\ tier_up' = tier_up /\ spent' = spent /\ ActiveTasks' = ActiveTasks
          /\ session'.plan_lineage = session.plan_lineage
          /\ session'.inherit_review = session.inherit_review
      BY <1>0, <2>4 DEF DeactivateWrite, BudgetInv, HookUpToDate, stage,
         SessionRows, ActiveTasks
    <3>2. EffortReviewed'
      BY <3>1, EffortKept DEF BudgetInv, FreshStages, DesignEntry
    <3>3. QED
      BY <2>1, <3>1, <3>2 DEF BudgetInv, IdleQuiet
  <2>5. QED
    BY <1>3, <2>2, <2>3, <2>4 DEF HookWrite
<1>4. CASE UNCHANGED vars
  BY <1>4 DEF vars, BudgetInv, EffortReviewed, IdleQuiet, HookUpToDate, Blind,
     ActiveTasks, stage
<1>5. QED
  BY <1>1, <1>2, <1>3, <1>4 DEF Next

\* Before any review the budget invariant holds.
LEMMA BudgetInit == ASSUME Init PROVE BudgetInv
BY DEF Init, BudgetInv, EffortReviewed, IdleQuiet, HookUpToDate, ActiveTasks,
   ActiveStatuses, NoTasks, NoRow, NoHook, stage

\* Only submit_tier_up_review adds a review, and a blind one only where the
\* lineage has none.
LEMMA BlindStep ==
  ASSUME TypeOK, BudgetInv, [Next]_vars, BlindReviews' # BlindReviews
  PROVE  ~spent
<1> USE DEF tables
<1>1. tier_up' # tier_up
  BY DEF BlindReviews
<1>2. PICK v \in Verdicts : SubmitTierUpReview(v)
  BY <1>1 DEF Next, ToolCall, Tool, SetProfessionalMode, RegisterDesign,
     ConsumeDesign, MarkDesignReady, MarkPlanReady, MarkDesignEntry, Retreat,
     CreatePlan, StartExecution, ClaimTask, SubmitTask, RecordPass, RecordFail,
     GetNextWave, CompletePlan, MarkExecuting, ClearStaleReviewPending,
     ResetSession, HookRead, SkillRead, GuardRead, StopRead, DeactivateRead,
     Begin, HookWrite, SkillWrite, GuardWrite, StopAdvance, StopDropGrades,
     DeactivateWrite, vars
<1>3. v \in BlindVerdicts
  BY <1>2 DEF SubmitTierUpReview, BlindReviews
<1>4. QED
  BY <1>2, <1>3 DEF SubmitTierUpReview, BudgetInv, EffortReviewed, FreshStages

\* Without tool calls inside a hook's window, an effort records at most one
\* blind review, however often it retreats and plans again.
THEOREM BudgetIsSpentOnce ==
  ASSUME ToolsPerHook = 0
  PROVE  Spec => OneBlindReviewPerEffort
<1>1. TypeOK /\ PlanInv /\ BudgetInv /\ [Next]_vars => BudgetInv'
  BY BudgetStep
<1>2. TypeOK /\ BudgetInv /\ [Next]_vars
        => [BlindReviews' # BlindReviews => ~spent]_vars
  BY BlindStep
<1>3. QED
  BY <1>1, <1>2, BudgetInit, TypeCorrect, PlanInvariant, PTL
     DEF Spec, OneBlindReviewPerEffort
=============================================================================
