------------------------------ MODULE Handover ------------------------------
(***************************************************************************)
(* What a hand-off promises: one session at a time writes the worktree,    *)
(* the assignment changes owner once and while nobody writes, and the      *)
(* worker returns as its owner, after which nothing moves any more.        *)
(***************************************************************************)
VARIABLES
  running,  \* sessions that may write the worktree
  owner,    \* owner of the workspace assignment
  worker    \* status and runtime of the registered worker

vars == <<running, owner, worker>>

Init ==
  /\ running = {"source"}
  /\ owner = "source"
  /\ worker = [status |-> "handoff_pending", runtime |-> "source"]

Open == worker.status = "handoff_pending"

Exit(session) ==
  /\ session \in running
  /\ running' = running \ {session}
  /\ UNCHANGED <<owner, worker>>

MoveOwner ==
  /\ Open /\ running = {} /\ owner = "source"
  /\ owner' = "target"
  /\ UNCHANGED <<running, worker>>

StartTarget ==
  /\ Open /\ running = {} /\ owner = "target"
  /\ running' = {"target"}
  /\ UNCHANGED <<owner, worker>>

AdoptTarget ==
  /\ Open /\ owner = "target"
  /\ worker' = [worker EXCEPT !.runtime = "target"]
  /\ UNCHANGED <<running, owner>>

Return ==
  /\ Open /\ worker.runtime = owner
  /\ worker' = [worker EXCEPT !.status = "running"]
  /\ UNCHANGED <<running, owner>>

Next ==
  \/ \E session \in {"source", "target"} : Exit(session)
  \/ MoveOwner \/ StartTarget \/ AdoptTarget \/ Return

Spec == Init /\ [][Next]_vars
=============================================================================
