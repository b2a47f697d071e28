----------------------------- MODULE MCWorkflow -----------------------------
(***************************************************************************)
(* Values for model checking Workflow.  Three plans over three tasks:      *)
(* "fan" has two waves (a and b, then c), "pair" a chain of two, "solo"    *)
(* one task.                                                               *)
(***************************************************************************)
EXTENDS Workflow

CONSTANTS a, b, c, fan, pair, solo, spec

MCPlans == {fan, pair, solo}

MCTasksOf == [p \in MCPlans |->
  CASE p = fan -> {a, b, c}
    [] p = pair -> {a, b}
    [] OTHER -> {a}]

MCDependsOn == [p \in MCPlans |->
  [t \in MCTasksOf[p] |->
     CASE t = c -> {a, b}
       [] t = b /\ p = pair -> {a}
       [] OTHER -> {}]]

MCDesignOf == [p \in Plans |-> spec]
=============================================================================
