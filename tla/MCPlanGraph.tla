---------------------------- MODULE MCPlanGraph -----------------------------
(***************************************************************************)
(* Every list of up to three tasks over three ids whose dependencies are   *)
(* none, one, two different, a repeated, or an unknown one.                *)
(***************************************************************************)
EXTENDS PlanGraph

CONSTANT MaxTasks

Dependencies ==
  {<<>>, <<1>>, <<2>>, <<3>>, <<1, 2>>, <<3, 1>>, <<2, 3>>, <<1, 1>>,
   <<2, 2>>, <<9>>}

MCTasks == [id : 1..3, depends_on : Dependencies, allowed_files : {1}]
             \cup [id : {1}, depends_on : {<<>>}, allowed_files : {0}]

MCInputs == UNION {[1..n -> MCTasks] : n \in 1..MaxTasks}
=============================================================================
