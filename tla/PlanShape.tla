------------------------------ MODULE PlanShape ------------------------------
(***************************************************************************)
(* What both the plan validator and the workflow machine mean by a plan    *)
(* whose tasks can be put in order.                                        *)
(***************************************************************************)

\* Every non-empty set of tasks has a task that depends on none of them.
Acyclic(tasks, dependsOn) ==
  \A S \in (SUBSET tasks) \ {{}} : \E t \in S : dependsOn[t] \cap S = {}
=============================================================================
