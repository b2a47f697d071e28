---------------------------- MODULE WorkflowBase ----------------------------
(***************************************************************************)
(* The static part of the state manager's workflow machine: the stages,    *)
(* the tables of legal moves, and what is assumed of a plan that           *)
(* validatePlanJson accepted.  It declares no variables.                   *)
(***************************************************************************)
EXTENDS Integers, PlanShape

CONSTANTS
  Tasks,       \* task ids that may occur in a plan
  Plans,       \* plans create_plan may be called with (distinct plan_json texts)
  NoPlan,      \* plan_json = null
  TasksOf,     \* TasksOf[p]: the tasks of plan p
  DependsOn    \* DependsOn[p][t]: depends_on of task t in plan p

(***************************************************************************)
(* A non-empty set of tasks that can be put in order: what the validator   *)
(* of module PlanGraph is proved to let through.                           *)
(***************************************************************************)
WellFormed(p) ==
  /\ TasksOf[p] \in (SUBSET Tasks) \ {{}}
  /\ DependsOn[p] \in [TasksOf[p] -> SUBSET TasksOf[p]]
  /\ Acyclic(TasksOf[p], DependsOn[p])

ASSUME PlanAssumption ==
  /\ NoPlan \notin Plans
  /\ \A p \in Plans : WellFormed(p)

Stages == {"idle", "brainstorming", "debugging", "design_ready",
           "design_marked_for_use", "plan_ready", "plan_marked_for_use",
           "final_plan_prep", "executing", "reviewing", "plan_interrupted",
           "execution_complete"}

Modes == {"undecided", "on", "off"}

\* "absent" stands for no row; the code also declares "review_failed" and
\* never writes it.
TaskStatuses == {"absent", "pending", "in_progress", "submitted",
                 "review_passed"}

ActiveStatuses == {"pending", "in_progress", "submitted"}

DesignEntry == {"brainstorming", "debugging"}

\* Stages from which entering the design phase starts a new effort.
FreshStages == {"idle", "execution_complete"}

FORWARD_TRANSITIONS(from) ==
  CASE from = "idle"                  -> {"brainstorming", "debugging"}
    [] from = "brainstorming"         -> {"debugging", "design_ready"}
    [] from = "debugging"             -> {"brainstorming", "idle"}
    [] from = "design_ready"          -> {"plan_ready"}
    [] from = "design_marked_for_use" -> {"plan_ready"}
    [] from = "plan_ready"            -> {"executing"}
    [] from = "plan_marked_for_use"   -> {"final_plan_prep"}
    [] from = "final_plan_prep"       -> {"executing"}
    [] from = "executing"             -> {"idle", "execution_complete"}
    [] from = "reviewing"             -> {"executing"}
    [] from = "plan_interrupted"      -> {"brainstorming", "debugging"}
    [] from = "execution_complete"    -> {"brainstorming", "idle", "debugging"}

RETREAT_SOURCES == {"design_ready", "design_marked_for_use", "plan_ready",
                    "plan_marked_for_use", "final_plan_prep", "executing",
                    "reviewing", "plan_interrupted"}

\* Validity of an explicit transition; the design and plan prerequisites
\* are extra conjuncts of the operations that pass them.
ValidTransition(from, to) ==
  \/ to \in FORWARD_TRANSITIONS(from)
  \/ from \in RETREAT_SOURCES /\ to \in DesignEntry

\* Mutant: re-entry after a retreat keeps the flag as it was.
InheritOnReentryForgets(from, inherit) ==
  IF from \in FreshStages THEN 0 ELSE inherit

\* The inherit_review flag after (re-)entering the design phase from a stage.
InheritOnReentry(from, inherit) ==
  CASE from \in FreshStages     -> 0
    [] from \in RETREAT_SOURCES -> 1
    [] OTHER                    -> inherit

\* Mutant: dependencies are not consulted.
ComputeNextWaveUnordered(p, completed) == TasksOf[p] \ completed

\* Mutant: completed tasks are not skipped.
ComputeNextWaveAgain(p, completed) ==
  {t \in TasksOf[p] : DependsOn[p][t] \subseteq completed}

\* Tasks of plan p not yet completed whose dependencies all are.
ComputeNextWave(p, completed) ==
  {t \in TasksOf[p] \ completed : DependsOn[p][t] \subseteq completed}

BlindVerdicts   == {"SOLID", "HAS-ISSUES", "top-tier-self"}
PassingVerdicts == {"SOLID", "top-tier-self"}
Verdicts        == BlindVerdicts \cup {"advisor-remediated"}
Policies        == {"enforced", "commander-choice", "off"}
=============================================================================
