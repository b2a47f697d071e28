----------------------------- MODULE PlanGraph ------------------------------
(***************************************************************************)
(* validatePlanJson: the check that create_plan makes of a plan's tasks,   *)
(* with Kahn's algorithm as its loop runs, one step per shift of the       *)
(* queue.  Ids and dependencies are what the caller wrote: an id may occur *)
(* twice, and a dependency may be repeated, unknown or the task itself.    *)
(*                                                                         *)
(* The order in which a pass of the loop appends the tasks it frees is     *)
(* left open, and allowed_files is reduced to its length.                  *)
(***************************************************************************)
EXTENDS Integers, FiniteSets, Sequences, PlanShape

CONSTANT Inputs  \* the task lists the validator may be called with

TaskSchema == [id : Nat \ {0}, depends_on : Seq(Int), allowed_files : Nat]

\* What the zod schema lets through.
ASSUME InputAssumption == Inputs \subseteq Seq(TaskSchema) \ {<<>>}

VARIABLES
  tasks,        \* plan.tasks
  inDegree,     \* open dependencies of a task id
  queue,        \* ids without an open dependency, not yet sorted
  sortedCount,  \* ids taken off the queue
  sorted        \* history: which ids those were

vars == <<tasks, inDegree, queue, sortedCount, sorted>>

-----------------------------------------------------------------------------
TaskIds == {tasks[i].id : i \in DOMAIN tasks}

\* Every mention of a dependency: <<task entry, position in depends_on>>.
Mentions == UNION {{i} \X DOMAIN tasks[i].depends_on : i \in DOMAIN tasks}

Task(m) == tasks[m[1]].id
Dep(m)  == tasks[m[1]].depends_on[m[2]]

\* adjacency keeps the mentions of known ids, repeated ones repeatedly.
Edges == {m \in Mentions : Dep(m) \in TaskIds}
Into(id) == {m \in Edges : Task(m) = id}
From(dep, id) == {m \in Into(id) : Dep(m) = dep}

\* Lists of the ids of S, each once.
Orders(S) ==
  {q \in [1..Cardinality(S) -> S] :
     /\ \A i, j \in 1..Cardinality(S) : q[i] = q[j] => i = j
     /\ \A s \in S : \E i \in 1..Cardinality(S) : q[i] = s}

Init ==
  /\ tasks \in Inputs
  /\ inDegree = [id \in TaskIds |-> Cardinality(Into(id))]
  /\ queue \in Orders({id \in TaskIds : inDegree[id] = 0})
  /\ sortedCount = 0
  /\ sorted = {}

\* Mutant: every mention of a dependency is taken for the only one.
ShiftOnce ==
  /\ queue # <<>>
  /\ LET current == Head(queue)
         freed == {id \in TaskIds : From(current, id) # {} /\ inDegree[id] = 1}
     IN /\ inDegree' = [id \in TaskIds |->
             IF From(current, id) # {} THEN inDegree[id] - 1 ELSE inDegree[id]]
        /\ \E q \in Orders(freed) : queue' = Tail(queue) \o q
        /\ sorted' = sorted \cup {current}
  /\ sortedCount' = sortedCount + 1
  /\ UNCHANGED tasks

\* Take the first id and close its edges; an id whose degree reaches zero on
\* the way joins the queue.
Shift ==
  /\ queue # <<>>
  /\ LET current == Head(queue)
         closed(id) == Cardinality(From(current, id))
         freed == {id \in TaskIds : inDegree[id] \in 1..closed(id)}
     IN /\ inDegree' = [id \in TaskIds |-> inDegree[id] - closed(id)]
        /\ \E q \in Orders(freed) : queue' = Tail(queue) \o q
        /\ sorted' = sorted \cup {current}
  /\ sortedCount' = sortedCount + 1
  /\ UNCHANGED tasks

Next == Shift

Spec == Init /\ [][Next]_vars

-----------------------------------------------------------------------------
Done == queue = <<>>

ReferencesExist == \A m \in Mentions : Dep(m) \in TaskIds /\ Dep(m) # Task(m)

\* Mutant: the ids sorted are compared with the ids, not with the entries.
AllSortedById == sortedCount = Cardinality(TaskIds)

AllSorted == sortedCount = Len(tasks)

Valid ==
  /\ ReferencesExist
  /\ AllSorted
  /\ \A i \in DOMAIN tasks : tasks[i].allowed_files > 0

-----------------------------------------------------------------------------
\* What depends_on says of a task id, unknown ids aside.
DependsOn == [id \in TaskIds |-> {Dep(m) : m \in Into(id)}]

UniqueIds == \A i, j \in DOMAIN tasks : tasks[i].id = tasks[j].id => i = j

\* A plan that is accepted has distinct task ids and an order its tasks can
\* be done in: what computeNextWave needs for an empty wave to mean the end.
\* Distinct ids are checked nowhere else than by the length of the sort.
AcceptedPlansAreOrdered ==
  Done /\ Valid => UniqueIds /\ Acyclic(TaskIds, DependsOn)

\* The sort refuses no plan that could be done: repeated dependencies and
\* the order of the entries do not make it come up short.
SortRefusesOnlyCycles ==
  Done /\ ~AllSorted => ~(UniqueIds /\ Acyclic(TaskIds, DependsOn))
=============================================================================
