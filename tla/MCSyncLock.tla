----------------------------- MODULE MCSyncLock -----------------------------
(***************************************************************************)
(* Values for model checking SyncLock: two sync workers and a manual run.  *)
(***************************************************************************)
EXTENDS SyncLock

CONSTANTS sync1, sync2, manual

MCProcs == {sync1, sync2, manual}
MCKind == [p \in MCProcs |-> IF p = manual THEN "cli" ELSE "sync"]
=============================================================================
