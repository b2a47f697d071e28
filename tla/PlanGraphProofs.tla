--------------------------- MODULE PlanGraphProofs --------------------------
(***************************************************************************)
(* The plan validator accepts exactly the plans that can be put in order,  *)
(* whatever lists of tasks it is called with.                              *)
(***************************************************************************)
EXTENDS PlanGraph, FiniteSetTheorems, SequenceTheorems, TLAPS

-----------------------------------------------------------------------------
(***************************************************************************)
(* The graph that is read off the tasks is finite.                         *)
(***************************************************************************)
TasksType == tasks \in Seq(TaskSchema) \ {<<>>}

\* There are at most as many ids as entries, and as many only without
\* duplicates.
LEMMA IdsFinite ==
  ASSUME TasksType
  PROVE  /\ IsFiniteSet(TaskIds)
         /\ Cardinality(TaskIds) \in Nat
         /\ Cardinality(TaskIds) <= Len(tasks)
         /\ Cardinality(TaskIds) = Len(tasks) <=> UniqueIds
<1> DEFINE idOf == [i \in DOMAIN tasks |-> tasks[i].id]
<1>1. Len(tasks) \in Nat /\ DOMAIN tasks = 1..Len(tasks)
  BY DEF TasksType
<1>2. IsFiniteSet(DOMAIN tasks) /\ Cardinality(DOMAIN tasks) = Len(tasks)
  <2>1. 1 \in Int /\ Len(tasks) \in Int
    BY <1>1
  <2>2. /\ IsFiniteSet(1..Len(tasks))
        /\ Cardinality(1..Len(tasks)) =
             IF 1 > Len(tasks) THEN 0 ELSE Len(tasks) - 1 + 1
    BY <2>1, FS_Interval
  <2>3. (IF 1 > Len(tasks) THEN 0 ELSE Len(tasks) - 1 + 1) = Len(tasks)
    BY <1>1
  <2>4. QED
    BY <1>1, <2>2, <2>3
<1>3. idOf \in Surjection(DOMAIN tasks, TaskIds)
  BY DEF Surjection, TaskIds
<1>4. idOf \in Injection(DOMAIN tasks, TaskIds) <=> UniqueIds
  BY DEF Injection, IsInjective, TaskIds, UniqueIds
<1>5. QED
  BY <1>2, <1>3, <1>4, FS_Surjection, FS_CardinalityType

\* The dependencies mentioned are finitely many.
LEMMA MentionsFinite ==
  ASSUME TasksType
  PROVE  IsFiniteSet(Mentions)
<1> DEFINE row(i) == {i} \X DOMAIN tasks[i].depends_on
<1> DEFINE rows == [i \in DOMAIN tasks |-> row(i)]
<1> DEFINE image == {row(i) : i \in DOMAIN tasks}
<1>1. IsFiniteSet(DOMAIN tasks)
  BY FS_Interval DEF TasksType
<1>2. rows \in Surjection(DOMAIN tasks, image)
  BY DEF Surjection
<1>3. IsFiniteSet(image)
  BY <1>1, <1>2, FS_Surjection
<1>4. ASSUME NEW i \in DOMAIN tasks
      PROVE  IsFiniteSet(row(i))
  <2>1. tasks[i] \in TaskSchema
    BY <1>4 DEF TasksType
  <2>2. tasks[i].depends_on \in Seq(Int)
    BY <2>1 DEF TaskSchema
  <2>3. IsFiniteSet(DOMAIN tasks[i].depends_on)
    BY <2>2, FS_Interval
  <2>4. IsFiniteSet({i})
    BY FS_Singleton
  <2>5. QED
    BY <2>3, <2>4, FS_Product
<1>5. \A T \in image : IsFiniteSet(T)
  BY <1>4
<1>6. IsFiniteSet(UNION image)
  BY <1>3, <1>5, FS_UNION
<1>7. QED
  BY <1>6 DEF Mentions

-----------------------------------------------------------------------------
(***************************************************************************)
(* The inductive invariant.                                                *)
(***************************************************************************)
\* Edges of an id whose dependency is not sorted yet.
OpenInto(id) == {m \in Into(id) : Dep(m) \notin sorted}

Queued == {queue[i] : i \in DOMAIN queue}

Degrees == inDegree = [id \in TaskIds |-> Cardinality(OpenInto(id))]

Counted ==
  /\ sorted \subseteq TaskIds
  /\ sortedCount = Cardinality(sorted)

\* The queue holds, once each, the unsorted ids without an open edge.
QueueInv ==
  /\ queue \in Seq(TaskIds)
  /\ \A i, j \in DOMAIN queue : queue[i] = queue[j] => i = j
  /\ Queued = {id \in TaskIds \ sorted : inDegree[id] = 0}

\* What is sorted depends only on what is sorted, and is in order.
OrderInv ==
  /\ \A id \in sorted : DependsOn[id] \subseteq sorted
  /\ Acyclic(sorted, DependsOn)

SortInv == TasksType /\ Degrees /\ Counted /\ QueueInv /\ OrderInv

\* Sets of edges have a size, and closing the edges from a dependency not
\* sorted before subtracts theirs.
LEMMA EdgeCounts ==
  ASSUME TasksType, NEW id
  PROVE  /\ IsFiniteSet(Into(id))
         /\ IsFiniteSet(OpenInto(id))
         /\ Cardinality(OpenInto(id)) \in Nat
         /\ Cardinality(OpenInto(id)) = 0 <=> OpenInto(id) = {}
         /\ \A c : c \notin sorted =>
              /\ Cardinality(From(c, id)) \in Nat
              /\ Cardinality(From(c, id)) <= Cardinality(OpenInto(id))
              /\ Cardinality(OpenInto(id) \ From(c, id)) =
                   Cardinality(OpenInto(id)) - Cardinality(From(c, id))
<1>1. IsFiniteSet(Into(id))
  <2>1. Into(id) \in SUBSET Mentions
    BY DEF Into, Edges
  <2>2. QED
    BY <2>1, MentionsFinite, FS_Subset
<1>2. IsFiniteSet(OpenInto(id))
  <2>1. OpenInto(id) \in SUBSET Into(id)
    BY DEF OpenInto
  <2>2. QED
    BY <2>1, <1>1, FS_Subset
<1>3. /\ Cardinality(OpenInto(id)) \in Nat
      /\ Cardinality(OpenInto(id)) = 0 <=> OpenInto(id) = {}
  BY <1>2, FS_CardinalityType, FS_EmptySet
<1>4. ASSUME NEW c, c \notin sorted
      PROVE  /\ Cardinality(From(c, id)) \in Nat
             /\ Cardinality(From(c, id)) <= Cardinality(OpenInto(id))
             /\ Cardinality(OpenInto(id) \ From(c, id)) =
                  Cardinality(OpenInto(id)) - Cardinality(From(c, id))
  <2>1. From(c, id) \in SUBSET OpenInto(id)
    BY <1>4 DEF From, OpenInto
  <2>2. OpenInto(id) \cap From(c, id) = From(c, id)
    BY <2>1
  <2>3. IsFiniteSet(From(c, id))
        /\ Cardinality(From(c, id)) <= Cardinality(OpenInto(id))
    BY <1>2, <2>1, FS_Subset
  <2>4. QED
    BY <1>2, <2>2, <2>3, FS_CardinalityType, FS_Difference
<1>5. QED
  BY <1>1, <1>2, <1>3, <1>4

-----------------------------------------------------------------------------
\* An order of a set is a sequence of its elements, each once.
LEMMA OrderIsSequence ==
  ASSUME NEW S, NEW T \in SUBSET S, IsFiniteSet(T), NEW q \in Orders(T)
  PROVE  /\ q \in Seq(S)
         /\ \A i, j \in DOMAIN q : q[i] = q[j] => i = j
         /\ {q[i] : i \in DOMAIN q} = T
<1>1. Cardinality(T) \in Nat
  BY FS_CardinalityType
<1>2. q \in Seq(S) /\ DOMAIN q = 1..Cardinality(T)
  BY <1>1 DEF Orders
<1>3. QED
  BY <1>2 DEF Orders

\* The loop starts with every id that depends on nothing known.
LEMMA SortInit ==
  ASSUME Init
  PROVE  SortInv
<1>1. TasksType
  BY InputAssumption DEF Init, TasksType
<1>2. Degrees
  BY DEF Init, Degrees, OpenInto
<1>3. Counted
  BY FS_EmptySet DEF Init, Counted
<1>4. QueueInv
  <2> DEFINE roots == {id \in TaskIds : inDegree[id] = 0}
  <2>1. roots \in SUBSET TaskIds /\ IsFiniteSet(roots)
    BY <1>1, IdsFinite, FS_Subset
  <2>2. queue \in Orders(roots)
    BY DEF Init
  <2>3. sorted = {}
    BY DEF Init
  <2> HIDE DEF roots
  <2>4. /\ queue \in Seq(TaskIds)
        /\ \A i, j \in DOMAIN queue : queue[i] = queue[j] => i = j
        /\ {queue[i] : i \in DOMAIN queue} = roots
    BY ONLY <2>1, <2>2, OrderIsSequence, SMTT(30)
  <2>5. Queued = roots
    BY <2>4 DEF Queued
  <2>6. QED
    BY <2>3, <2>4, <2>5 DEF QueueInv, roots
<1>5. OrderInv
  BY DEF Init, OrderInv, Acyclic
<1>6. QED
  BY <1>1, <1>2, <1>3, <1>4, <1>5 DEF SortInv

-----------------------------------------------------------------------------
(***************************************************************************)
(* A shift of the queue keeps it.                                          *)
(***************************************************************************)
\* The graph does not change while it is sorted.
LEMMA GraphIsFixed ==
  ASSUME UNCHANGED tasks
  PROVE  /\ TaskIds' = TaskIds
         /\ DependsOn' = DependsOn
         /\ \A id : Into(id)' = Into(id)
         /\ \A c, id : From(c, id)' = From(c, id)
         /\ \A m : Dep(m)' = Dep(m)
BY DEF TaskIds, DependsOn, Into, From, Edges, Mentions, Dep, Task

\* A sorted id has no open edge, and neither has the head of the queue; the
\* head depends on sorted ids alone.
LEMMA NoOpenEdge ==
  ASSUME SortInv
  PROVE  /\ \A id \in sorted : inDegree[id] = 0
         /\ \A id \in TaskIds :
              inDegree[id] = 0 => DependsOn[id] \subseteq sorted
<1>1. TasksType /\ sorted \subseteq TaskIds
  BY DEF SortInv, Counted
<1>2. \A id \in TaskIds : inDegree[id] = 0 <=> OpenInto(id) = {}
  BY <1>1, EdgeCounts DEF SortInv, Degrees
<1>3. \A id \in TaskIds : OpenInto(id) = {} <=> DependsOn[id] \subseteq sorted
  BY DEF OpenInto, DependsOn
<1>4. QED
  BY <1>1, <1>2, <1>3 DEF SortInv, OrderInv

\* Elements of a queue whose head was replaced by a list of other ids.
LEMMA Requeue ==
  ASSUME NEW S, NEW q \in Seq(S), q # <<>>, NEW r \in Seq(S),
         \A i, j \in DOMAIN q : q[i] = q[j] => i = j,
         \A i, j \in DOMAIN r : r[i] = r[j] => i = j,
         \A i \in DOMAIN q, j \in DOMAIN r : q[i] # r[j]
  PROVE  LET t == Tail(q) \o r
         IN  /\ t \in Seq(S)
             /\ \A i, j \in DOMAIN t : t[i] = t[j] => i = j
             /\ {t[i] : i \in DOMAIN t} =
                  ({q[i] : i \in DOMAIN q} \ {Head(q)})
                    \cup {r[i] : i \in DOMAIN r}
<1> DEFINE t == Tail(q) \o r
<1> DEFINE m == Len(q) - 1
<1>1. /\ Len(q) \in Nat \ {0} /\ DOMAIN q = 1..Len(q)
      /\ Len(r) \in Nat /\ DOMAIN r = 1..Len(r)
      /\ m \in Nat
  BY EmptySeq
<1>2. /\ Tail(q) \in Seq(S) /\ Len(Tail(q)) = m
      /\ \A i \in 1..m : Tail(q)[i] = q[i + 1]
      /\ Head(q) = q[1]
  BY <1>1, HeadTailProperties
<1>3. /\ t \in Seq(S) /\ Len(t) = m + Len(r)
      /\ \A i \in 1..(m + Len(r)) :
           t[i] = IF i <= m THEN q[i + 1] ELSE r[i - m]
  BY <1>1, <1>2, ConcatProperties
<1>4. DOMAIN t = 1..(m + Len(r))
  BY <1>3
<1> HIDE DEF t, m
<1>a. ASSUME NEW i \in DOMAIN t, i <= m
      PROVE  i + 1 \in DOMAIN q /\ t[i] = q[i + 1]
  BY <1>1, <1>3, <1>4, <1>a DEF m
<1>b. ASSUME NEW i \in DOMAIN t, ~(i <= m)
      PROVE  i - m \in DOMAIN r /\ t[i] = r[i - m]
  BY <1>1, <1>3, <1>4, <1>b
<1>5. ASSUME NEW i \in DOMAIN t, NEW j \in DOMAIN t, t[i] = t[j]
      PROVE  i = j
  <2>1. CASE i <= m /\ j <= m
    <3>1. i + 1 = j + 1
      BY <2>1, <1>a, <1>5
    <3>2. QED
      BY <3>1, <1>1, <1>4
  <2>2. CASE ~(i <= m) /\ ~(j <= m)
    <3>1. i - m = j - m
      BY <2>2, <1>b, <1>5
    <3>2. QED
      BY <3>1, <1>1, <1>4
  <2>3. CASE i <= m /\ ~(j <= m)
    BY <2>3, <1>a, <1>b, <1>5
  <2>4. CASE ~(i <= m) /\ j <= m
    BY <2>4, <1>a, <1>b, <1>5
  <2>5. QED
    BY <2>1, <2>2, <2>3, <2>4
<1>6. ASSUME NEW i \in DOMAIN t
      PROVE  t[i] \in ({q[k] : k \in DOMAIN q} \ {Head(q)})
                        \cup {r[k] : k \in DOMAIN r}
  <2>1. CASE i <= m
    <3>1. i + 1 \in DOMAIN q /\ i + 1 # 1 /\ 1 \in DOMAIN q
      BY <2>1, <1>1, <1>4, <1>a
    <3>2. t[i] = q[i + 1] /\ q[i + 1] # q[1]
      BY <2>1, <3>1, <1>a
    <3>3. QED
      BY <3>1, <3>2, <1>2
  <2>2. CASE ~(i <= m)
    <3>1. i - m \in DOMAIN r /\ t[i] = r[i - m]
      BY <2>2, <1>b
    <3>2. QED
      BY <3>1
  <2>3. QED
    BY <2>1, <2>2
<1>7. ASSUME NEW k \in DOMAIN q, q[k] # Head(q)
      PROVE  \E i \in DOMAIN t : t[i] = q[k]
  <2>1. k - 1 \in DOMAIN t /\ k - 1 <= m /\ (k - 1) + 1 = k
    BY <1>1, <1>2, <1>4, <1>7 DEF m
  <2>2. t[k - 1] = q[k]
    BY <2>1, <1>3, <1>4
  <2>3. QED
    BY <2>1, <2>2
<1>8. ASSUME NEW k \in DOMAIN r
      PROVE  \E i \in DOMAIN t : t[i] = r[k]
  <2>1. k + m \in DOMAIN t /\ ~(k + m <= m) /\ (k + m) - m = k
    BY <1>1, <1>4, <1>8
  <2>2. t[k + m] = r[k]
    BY <2>1, <1>3, <1>4
  <2>3. QED
    BY <2>1, <2>2
<1>9. {t[i] : i \in DOMAIN t} = ({q[i] : i \in DOMAIN q} \ {Head(q)})
                                 \cup {r[i] : i \in DOMAIN r}
  BY <1>6, <1>7, <1>8
<1>10. QED
  BY <1>3, <1>5, <1>9 DEF t

\* Closing the edges of the head, sorting it and queueing what it frees.
LEMMA ShiftKeeps ==
  ASSUME SortInv, Shift
  PROVE  SortInv'
<1> DEFINE current == Head(queue)
           closed(id) == Cardinality(From(current, id))
           freed == {id \in TaskIds : inDegree[id] \in 1..closed(id)}
<1>1. PICK q \in Orders(freed) : queue' = Tail(queue) \o q
  BY DEF Shift
<1>2. /\ tasks' = tasks /\ sorted' = sorted \cup {current}
      /\ inDegree' = [id \in TaskIds |-> inDegree[id] - closed(id)]
      /\ sortedCount' = sortedCount + 1
      /\ queue # <<>>
  BY DEF Shift
<1>3. TasksType /\ queue \in Seq(TaskIds)
  BY DEF SortInv, QueueInv
<1>4. /\ current \in TaskIds \ sorted
      /\ inDegree[current] = 0
      /\ current \in Queued
  <2>1. queue[1] = current /\ 1 \in DOMAIN queue
    BY <1>2, <1>3, HeadTailProperties, EmptySeq
  <2>2. QED
    BY <2>1 DEF SortInv, QueueInv, Queued
<1>5. DependsOn[current] \subseteq sorted /\ current \notin sorted
  BY <1>4, NoOpenEdge
<1>6. \A id \in TaskIds :
        /\ inDegree[id] = Cardinality(OpenInto(id))
        /\ inDegree[id] \in Nat /\ closed(id) \in Nat
        /\ closed(id) <= inDegree[id]
  BY <1>3, <1>5, EdgeCounts DEF SortInv, Degrees
<1> HIDE DEF closed
<1>7. \A id \in TaskIds :
        /\ inDegree'[id] = 0 <=> inDegree[id] = 0 \/ id \in freed
        /\ id \in freed => inDegree[id] # 0
  BY <1>2, <1>6
<1> HIDE DEF current, freed
<1>8. TaskIds' = TaskIds /\ DependsOn' = DependsOn
  BY <1>2, GraphIsFixed
<1>9. TasksType'
  BY <1>2, <1>3 DEF TasksType
<1>10. Degrees'
  <2>1. ASSUME NEW id \in TaskIds
        PROVE  OpenInto(id)' = OpenInto(id) \ From(current, id)
    BY <1>2, GraphIsFixed DEF OpenInto, From
  <2>2. ASSUME NEW id \in TaskIds
        PROVE  Cardinality(OpenInto(id)') = inDegree[id] - closed(id)
    BY <2>1, <1>3, <1>5, <1>6, EdgeCounts DEF closed
  <2>3. QED
    BY <2>2, <1>2, <1>8 DEF Degrees
<1>11. Counted'
  <2>1. IsFiniteSet(sorted)
    BY <1>3, IdsFinite, FS_Subset DEF SortInv, Counted
  <2>2. Cardinality(sorted \cup {current}) = Cardinality(sorted) + 1
    BY <2>1, <1>5, FS_AddElement
  <2>3. QED
    BY <2>2, <1>2, <1>4, <1>8 DEF SortInv, Counted
<1>12. QueueInv'
  <2>1. freed \in SUBSET TaskIds /\ IsFiniteSet(freed)
    BY <1>3, IdsFinite, FS_Subset DEF freed
  <2>2. /\ q \in Seq(TaskIds)
        /\ \A i, j \in DOMAIN q : q[i] = q[j] => i = j
        /\ {q[i] : i \in DOMAIN q} = freed
    BY <2>1, <1>1, OrderIsSequence
  <2>3. \A id \in Queued : inDegree[id] = 0 /\ id \in TaskIds
    BY DEF SortInv, QueueInv
  <2>4. \A i \in DOMAIN queue, j \in DOMAIN q : queue[i] # q[j]
    BY <2>2, <2>3, <1>7 DEF Queued
  <2>5. /\ queue' \in Seq(TaskIds)
        /\ \A i, j \in DOMAIN queue' : queue'[i] = queue'[j] => i = j
        /\ Queued' = (Queued \ {current}) \cup freed
    <3>1. \A i, j \in DOMAIN queue : queue[i] = queue[j] => i = j
      BY DEF SortInv, QueueInv
    <3>2. LET t == Tail(queue) \o q
          IN  /\ t \in Seq(TaskIds)
              /\ \A i, j \in DOMAIN t : t[i] = t[j] => i = j
              /\ {t[i] : i \in DOMAIN t} =
                   ({queue[i] : i \in DOMAIN queue} \ {Head(queue)})
                     \cup {q[i] : i \in DOMAIN q}
      BY <1>2, <1>3, <2>2, <2>4, <3>1, Requeue
    <3>3. QED
      BY <3>2, <2>2, <1>1 DEF Queued, current
  <2>6. \A id \in sorted : inDegree[id] = 0 /\ id \in TaskIds
    BY NoOpenEdge DEF SortInv, Counted
  <2>7. (Queued \ {current}) \cup freed =
          {id \in TaskIds \ (sorted \cup {current}) : inDegree'[id] = 0}
    BY <2>1, <2>6, <1>4, <1>7 DEF SortInv, QueueInv
  <2>8. QED
    BY <2>5, <2>7, <1>2, <1>8 DEF QueueInv
<1>13. OrderInv'
  <2>1. \A id \in sorted : DependsOn[id] \subseteq sorted
    BY DEF SortInv, OrderInv
  <2>2. ASSUME NEW S \in (SUBSET (sorted \cup {current})) \ {{}}
        PROVE  \E t \in S : DependsOn[t] \cap S = {}
    <3>1. CASE S = {current}
      BY <3>1, <1>5
    <3>2. CASE S # {current}
      <4>1. S \ {current} \in (SUBSET sorted) \ {{}}
        BY <3>2
      <4>2. PICK t \in S \ {current} : DependsOn[t] \cap (S \ {current}) = {}
        BY <4>1 DEF SortInv, OrderInv, Acyclic
      <4>3. current \notin DependsOn[t]
        BY <4>1, <2>1, <1>5
      <4>4. QED
        BY <4>2, <4>3
    <3>3. QED
      BY <3>1, <3>2
  <2>3. Acyclic(sorted', DependsOn')
    BY <2>2, <1>2, <1>8 DEF Acyclic
  <2>4. QED
    BY <2>1, <2>3, <1>2, <1>5, <1>8 DEF OrderInv
<1>14. QED
  BY <1>9, <1>10, <1>11, <1>12, <1>13 DEF SortInv

\* A finished sort keeps its invariant.
LEMMA SortStutter ==
  ASSUME SortInv, UNCHANGED vars
  PROVE  SortInv'
<1>1. /\ tasks' = tasks /\ inDegree' = inDegree /\ queue' = queue
      /\ sortedCount' = sortedCount /\ sorted' = sorted
  BY DEF vars
<1>2. TaskIds' = TaskIds /\ DependsOn' = DependsOn
  BY <1>1, GraphIsFixed
<1>3. \A id : OpenInto(id)' = OpenInto(id)
  BY <1>1, GraphIsFixed DEF OpenInto
<1>4. TasksType' /\ Counted'
  BY <1>1, <1>2 DEF SortInv, TasksType, Counted
<1>5. Degrees'
  BY <1>1, <1>2, <1>3 DEF SortInv, Degrees
<1>6. QueueInv'
  BY <1>1, <1>2 DEF SortInv, QueueInv, Queued
<1>7. OrderInv'
  BY <1>1, <1>2 DEF SortInv, OrderInv, Acyclic
<1>8. QED
  BY <1>4, <1>5, <1>6, <1>7 DEF SortInv

\* The loop invariant holds for any list of tasks.
THEOREM SortInvariant == Spec => []SortInv
<1>1. SortInv /\ [Next]_vars => SortInv'
  BY ShiftKeeps, SortStutter DEF Next
<1>2. QED
  BY SortInit, <1>1, PTL DEF Spec

-----------------------------------------------------------------------------
(***************************************************************************)
(* What the verdict means.                                                 *)
(***************************************************************************)
\* When the queue is empty the ids left over each wait for one another.
LEMMA LeftOversWait ==
  ASSUME SortInv, Done
  PROVE  \A id \in TaskIds \ sorted :
           DependsOn[id] \cap (TaskIds \ sorted) # {}
<1>1. Queued = {}
  BY DEF Done, Queued
<1>2. TasksType /\ \A id \in TaskIds \ sorted : inDegree[id] # 0
  BY <1>1 DEF SortInv, QueueInv
<1>3. \A id \in TaskIds \ sorted : OpenInto(id) # {}
  BY <1>2, EdgeCounts DEF SortInv, Degrees
<1>4. \A id \in TaskIds : \A m \in OpenInto(id) :
        Dep(m) \in DependsOn[id] /\ Dep(m) \in TaskIds \ sorted
  BY DEF OpenInto, DependsOn, Into, Edges
<1>5. QED
  BY <1>3, <1>4

\* The loop's counter is the number of ids it has sorted.
LEMMA SortedCounts ==
  ASSUME SortInv
  PROVE  /\ AllSorted => sorted = TaskIds /\ UniqueIds
         /\ sorted = TaskIds /\ UniqueIds => AllSorted
<1>1. /\ IsFiniteSet(TaskIds)
      /\ Cardinality(TaskIds) \in Nat
      /\ Cardinality(TaskIds) <= Len(tasks)
      /\ Cardinality(TaskIds) = Len(tasks) <=> UniqueIds
  BY IdsFinite DEF SortInv
<1>2. /\ IsFiniteSet(sorted)
      /\ Cardinality(sorted) <= Cardinality(TaskIds)
      /\ Cardinality(TaskIds) = Cardinality(sorted) => TaskIds = sorted
  BY <1>1, FS_Subset DEF SortInv, Counted
<1>3. Cardinality(sorted) \in Nat /\ Len(tasks) \in Nat
  BY <1>2, FS_CardinalityType DEF SortInv, TasksType
<1>4. sortedCount = Cardinality(sorted)
  BY DEF SortInv, Counted
<1>5. QED
  BY <1>1, <1>2, <1>3, <1>4 DEF AllSorted

\* validatePlanJson accepts only plans with distinct ids whose tasks can be
\* put in order: what WellFormed assumes of every plan create_plan loads.
THEOREM AcceptsOnlyOrderedPlans == Spec => []AcceptedPlansAreOrdered
<1>1. SortInv => AcceptedPlansAreOrdered
  BY SortedCounts
     DEF AcceptedPlansAreOrdered, Valid, SortInv, OrderInv
<1>2. QED
  BY SortInvariant, <1>1, PTL

\* Its topological sort turns away no plan that could be executed.
THEOREM SortRefusesNoOrderedPlan == Spec => []SortRefusesOnlyCycles
<1>1. ASSUME SortInv, Done, ~AllSorted, UniqueIds
      PROVE  ~Acyclic(TaskIds, DependsOn)
  <2>1. TaskIds \ sorted \in (SUBSET TaskIds) \ {{}}
    BY <1>1, SortedCounts DEF SortInv, Counted
  <2>2. QED
    BY <1>1, <2>1, LeftOversWait DEF Acyclic
<1>2. SortInv => SortRefusesOnlyCycles
  BY <1>1 DEF SortRefusesOnlyCycles
<1>3. QED
  BY SortInvariant, <1>2, PTL
=============================================================================
