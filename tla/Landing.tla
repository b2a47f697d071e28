------------------------------ MODULE Landing ------------------------------
(***************************************************************************)
(* What the finalization of managed worktrees promises about the           *)
(* integration target, whatever happens in between: it only grows, one     *)
(* assignment at a time advances it, and until that advance is             *)
(* acknowledged in the database no other assignment may advance it.        *)
(***************************************************************************)
EXTENDS GitHistory

CONSTANT Assignments

VARIABLES
  main,      \* the integration target
  pending    \* the assignments whose advance is not acknowledged

vars == <<main, pending>>

Init == main = Root /\ pending = {}

Land(a) ==
  /\ pending = {} /\ pending' = {a}
  /\ IsAncestor(main, main')

Acknowledge(a) ==
  /\ pending = {a} /\ pending' = {}
  /\ UNCHANGED main

\* The operator commits on the target.
Commit ==
  /\ IsAncestor(main, main')
  /\ UNCHANGED pending

Next == Commit \/ \E a \in Assignments : Land(a) \/ Acknowledge(a)

Spec == Init /\ [][Next]_vars
=============================================================================
