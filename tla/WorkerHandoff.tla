--------------------------- MODULE WorkerHandoff ----------------------------
(***************************************************************************)
(* The commander's provider hand-off: a worker whose client ran out of     *)
(* quota is continued by another client in the same worktree.  A           *)
(* controller records an intent in the registry row, performs the effect   *)
(* on a process or on the workspace manager, and records its proof; a      *)
(* successor reads back what a crash or a lost answer left open.           *)
(*                                                                         *)
(* One generation of one worker.  Registry transactions are atomic; at     *)
(* most one controller holds the row's reconcile owner, and a dead owner   *)
(* is replaced.  A check of quota, plan state, Git or process trees is a   *)
(* choice of the environment, and one that fails is a fault.               *)
(***************************************************************************)
EXTENDS Naturals, Sequences

CONSTANTS
  MaxFaults,    \* failed checks, refused effects and lost answers
  MaxCrashes,   \* controllers that die
  EnterMayFail  \* tmux may type the text and fail to send Enter

ASSUME HandoffAssumption ==
  MaxFaults \in Nat /\ MaxCrashes \in Nat /\ EnterMayFail \in BOOLEAN

VARIABLES
  worker,     \* workers: status and runtime
  row,        \* worker_handoffs: phase, pause reason, open intents, proofs
  workspace,  \* workspace_handoffs: phase, target set; assignment owner
  live,       \* sessions that run
  ctl,        \* controller: operation, next step, pause reason it restores
  late,       \* workspace-manager calls that outlive their controller
  typed,      \* history: how often the continuation was typed
  signalled,  \* history: the source was signalled
  faults, crashes

vars == <<worker, row, workspace, live, ctl, late, typed, signalled,
          faults, crashes>>

outside == <<workspace, live, typed, signalled>>

-----------------------------------------------------------------------------
Sessions == {"source", "bootstrap", "target"}

POST_TRANSFER_PHASES ==
  {"owner_transferred", "runtime_registered", "continuation_dispatched"}
TargetPhases == {"target_ready", "pm_prepared"} \cup POST_TRANSFER_PHASES
OpenPhases == {"claimed", "source_stopped"} \cup TargetPhases

\* Reasons by what the retry makes of them: retry setup or forward, replay
\* the dispatch, redo the finish, release, or leave to the operator.
POST_STOP_RETRY_REASONS == {"retry", "dispatch", "finish"}
Pauses == POST_STOP_RETRY_REASONS \cup {"none", "failed", "uncertain"}

\* Mutant: a transfer does not notice that the hold was released.
AcceptedInReleased ==
  [grant |-> {"none", "granted", "finished"}, begin |-> {"granted"},
   authorize |-> {"begun"}, transfer |-> {"begun", "finished"},
   finish |-> {"transferred"},
   release |-> {"none", "granted", "begun", "finished"}]

\* The phases of the workspace hold in which a call is accepted.
AcceptedIn ==
  [grant |-> {"none", "granted", "finished"}, begin |-> {"granted"},
   authorize |-> {"begun"}, transfer |-> {"begun"}, finish |-> {"transferred"},
   release |-> {"none", "granted", "begun", "finished"}]

Stops ==
  [stop |-> "source", cleanup |-> "bootstrap", bootstrap_stop |-> "bootstrap",
   stale_resume_stop |-> "target", target_session_stop |-> "target"]

Starts == [bootstrap |-> "bootstrap", resume |-> "target"]

\* Calls of the workspace manager's command line; the other two workspace
\* effects are transactions of the controller itself.
WorkspaceCalls == {"begin", "transfer", "finish", "release"}

Effects == DOMAIN AcceptedIn \cup DOMAIN Stops \cup DOMAIN Starts
             \cup {"dispatch"}

Ended == row.phase \in {"completed", "released"}

Init ==
  /\ worker = [status |-> "handoff_pending", runtime |-> "source"]
  /\ row = [phase |-> "claimed", pause |-> "none", intents |-> {}, proofs |-> {}]
  /\ workspace = [phase |-> "none", target |-> FALSE, owner |-> "source"]
  /\ live = {"source"}
  /\ ctl = [op |-> "setup", at |-> "step", held |-> "none"]
  /\ late = {}
  /\ typed = 0
  /\ signalled = FALSE
  /\ faults = 0
  /\ crashes = 0

-----------------------------------------------------------------------------
(***************************************************************************)
(* Effects.                                                                *)
(***************************************************************************)
\* Mutant: a release does not ask who owns the assignment.
AllowsAnyRelease(e) ==
  /\ e = "release" \/ workspace.phase \in AcceptedIn[e]
  /\ e = "grant" => workspace.owner = "source"
  /\ e = "authorize" => ~workspace.target
  /\ e = "transfer" => workspace.target

Allows(e) ==
  /\ workspace.phase \in AcceptedIn[e]
  /\ e = "grant" => workspace.owner = "source"
  /\ e = "authorize" => ~workspace.target
  /\ e = "transfer" => workspace.target

Can(e) ==
  /\ e \in DOMAIN AcceptedIn => Allows(e)
  /\ e \in DOMAIN Stops => Stops[e] \in live
  /\ e \in DOMAIN Starts => Starts[e] \notin live
  /\ e = "dispatch" => "target" \in live

WorkspaceAfter(e) ==
  CASE e = "grant"     -> [workspace EXCEPT !.phase = "granted", !.target = FALSE]
    [] e = "begin"     -> [workspace EXCEPT !.phase = "begun"]
    [] e = "authorize" -> [workspace EXCEPT !.target = TRUE]
    [] e = "transfer"  -> [workspace EXCEPT !.phase = "transferred",
                                            !.owner = "target"]
    [] e \in {"finish", "release"} /\ workspace.phase # "none"
                       -> [workspace EXCEPT !.phase = "finished"]
    [] OTHER           -> workspace

Happen(e) ==
  /\ workspace' = WorkspaceAfter(e)
  /\ live' = (live \ {Stops[s] : s \in {e} \cap DOMAIN Stops})
               \cup {Starts[s] : s \in {e} \cap DOMAIN Starts}
  /\ typed' = IF e = "dispatch" THEN typed + 1 ELSE typed
  /\ signalled' = (signalled \/ e = "stop")

Fault ==
  /\ faults < MaxFaults
  /\ faults' = faults + 1

-----------------------------------------------------------------------------
(***************************************************************************)
(* What a controller records.                                              *)
(***************************************************************************)
Idle == [op |-> "none", at |-> "idle", held |-> "none"]

Goto(step) == ctl' = [ctl EXCEPT !.at = step]

Step(op, phase) ==
  ctl.at = "step" /\ ctl.op = op /\ row.phase = phase /\ row.intents = {}

Pause(reason) ==
  /\ row' = [row EXCEPT !.pause = reason]
  /\ ctl' = Idle

\* Mutant: the effect is tried before anything is recorded.
IntendUnrecorded(e) == Goto(e) /\ UNCHANGED row

\* Every effect but the source release is recorded before it is tried.
Intend(e) ==
  /\ row' = [row EXCEPT !.intents = @ \cup {e}]
  /\ Goto(e)

Reaches ==
  [stop |-> "source_stopped", bootstrap |-> "target_ready",
   transfer |-> "owner_transferred", resume |-> "runtime_registered",
   dispatch |-> "continuation_dispatched"]

Proofs == {"grant", "begin", "authorize", "bootstrap_stop"}

Settled(e) ==
  [row EXCEPT
     !.phase = IF e \in DOMAIN Reaches THEN Reaches[e] ELSE @,
     !.intents = @ \ (IF e = "stale_resume_stop" THEN {e, "resume"} ELSE {e}),
     !.proofs = @ \cup ({e} \cap Proofs)]

\* _pause_after_pretransfer_failure: stop the read-only bootstrap first.
PauseBeforeTransfer(reason) ==
  IF workspace.phase = "begun" /\ ~workspace.target
  THEN /\ row' = [row EXCEPT
            !.intents = @ \cup {"cleanup"},
            !.proofs = IF reason = "retry" THEN @ \cup {"retryable"} ELSE @]
       /\ Goto("cleanup")
  ELSE Pause(IF workspace.target THEN reason ELSE "failed")

-----------------------------------------------------------------------------
(***************************************************************************)
(* An effect that was proved, in its own answer or by reading back.        *)
(***************************************************************************)
Answered(e) ==
  CASE e = "cleanup" ->
         /\ row' = [Settled(e) EXCEPT !.pause =
              IF "retryable" \in row.proofs THEN "retry" ELSE "failed"]
         /\ ctl' = Idle
    [] e = "resume" -> Goto("register") /\ UNCHANGED row
    [] e = "release" -> Goto("registry") /\ UNCHANGED row
    [] ctl.op = "release" /\ e = "finish" ->
         /\ row' = [row EXCEPT !.pause = ctl.held]
         /\ Goto("registry")
    [] ctl.op = "forward" /\ e = "finish" ->
         /\ row' = [row EXCEPT !.intents = @ \cup {"finish"}]
         /\ ctl' = [Idle EXCEPT !.op = "reconcile", !.at = "step"]
    [] ctl.op = "forward" /\ e = "stale_resume_stop" ->
         /\ row' = Settled(e)
         /\ ctl' = [Idle EXCEPT !.op = "reconcile", !.at = "step"]
    [] OTHER ->
         /\ row' = Settled(e)
         /\ Goto(CASE e = "finish" -> "complete"
                   [] ctl.op = "release" /\ e = "bootstrap_stop" -> "restore"
                   [] e = "target_session_stop" /\ ctl.op = "release" -> "adopt"
                   [] OTHER -> "step")

Succeed(e) ==
  /\ ctl.at = e
  /\ Can(e)
  /\ Happen(e)
  /\ Answered(e)
  /\ UNCHANGED <<worker, late, faults, crashes>>

\* Pause reasons a failed effect leaves in reconcile.
FailureReasons(e) ==
  CASE e \in {"stop", "bootstrap_stop", "resume"} -> {"retry", "failed"}
    [] e \in {"dispatch", "finish"} -> {e, "failed"}
    [] OTHER -> {"failed"}

\* tmux refuses the keys before anything is typed, unless only Enter failed.
MayLand(e, reason) ==
  /\ e \notin {"grant", "authorize"}
  /\ e = "dispatch" /\ reason = "dispatch" => EnterMayFail

\* The effect was refused, or its answer was lost and it may have landed.
Fail(e) ==
  /\ ctl.at = e
  /\ \E reason \in CASE ctl.op = "setup" -> {"retry", "failed"}
                     [] ctl.held # "none" -> {ctl.held}
                     [] OTHER -> FailureReasons(e) :
       /\ \/ ~Can(e) /\ UNCHANGED <<outside, faults>>
          \/ Fault /\ UNCHANGED outside
          \/ Can(e) /\ Fault /\ MayLand(e, reason) /\ Happen(e)
       /\ IF e = "authorize" THEN PauseBeforeTransfer(reason) ELSE Pause(reason)
  /\ UNCHANGED <<worker, late, crashes>>

-----------------------------------------------------------------------------
(***************************************************************************)
(* reconcile: one effect of the phase, or the readback of an open intent.  *)
(***************************************************************************)
HoldProved == workspace.phase = "begun" /\ ~workspace.target

\* A check of the step's own fails: its reason may allow a retry.
CheckFails == Fault /\ \E reason \in {"retry", "failed"} : Pause(reason)

BeginSourceHold(op) ==
  /\ Step(op, "claimed") /\ "begin" \notin row.proofs
  /\ Intend(IF "grant" \in row.proofs THEN "begin" ELSE "grant")
  /\ UNCHANGED <<worker, outside, late, faults, crashes>>

\* handoff, retry_paused_preflight: a target is found and recorded.
RecordTarget ==
  /\ Step("setup", "claimed") /\ "begin" \in row.proofs
  /\ \/ /\ HoldProved
        /\ row' = [row EXCEPT !.proofs = @ \cup {"target_client"}]
        /\ ctl' = [ctl EXCEPT !.op = "reconcile"]
        /\ UNCHANGED faults
     \/ ~HoldProved /\ Pause("failed") /\ UNCHANGED faults
     \/ CheckFails
  /\ UNCHANGED <<worker, outside, late, crashes>>

StopSource ==
  /\ Step("reconcile", "claimed") /\ "begin" \in row.proofs
  /\ \/ /\ IF HoldProved /\ "target_client" \notin row.proofs THEN Pause("retry")
           ELSE IF HoldProved /\ "source" \in live THEN Intend("stop")
           ELSE Pause("failed")
        /\ UNCHANGED faults
     \/ CheckFails
  /\ UNCHANGED <<worker, outside, late, crashes>>

StartTarget ==
  /\ Step("reconcile", "source_stopped")
  /\ Intend("bootstrap")
  /\ UNCHANGED <<worker, outside, late, faults, crashes>>

PreparePm ==
  /\ Step("reconcile", "target_ready")
  /\ \/ /\ row' = [row EXCEPT !.phase = "pm_prepared"]
        /\ UNCHANGED <<ctl, faults>>
     \/ Fault /\ PauseBeforeTransfer("failed")
  /\ UNCHANGED <<worker, outside, late, crashes>>

TransferOwner ==
  /\ Step("reconcile", "pm_prepared")
  /\ \/ /\ IF "bootstrap" \in live
           THEN Intend(IF "authorize" \in row.proofs THEN "transfer"
                                                    ELSE "authorize")
           ELSE PauseBeforeTransfer("failed")
        /\ UNCHANGED faults
     \/ /\ Fault
        /\ \E reason \in {"retry", "failed"} : PauseBeforeTransfer(reason)
  /\ UNCHANGED <<worker, outside, late, crashes>>

ResumeTarget ==
  /\ Step("reconcile", "owner_transferred")
  /\ Intend(IF "bootstrap_stop" \in row.proofs THEN "resume" ELSE "bootstrap_stop")
  /\ UNCHANGED <<worker, outside, late, faults, crashes>>

\* The resumed session becomes the worker's runtime, then the phase moves.
RegisterTarget ==
  /\ \/ /\ ctl.at = "register"
        /\ worker' = [worker EXCEPT !.runtime = "target"]
        /\ Goto("registered")
        /\ UNCHANGED row
     \/ /\ ctl.at = "registered"
        /\ row' = Settled("resume")
        /\ Goto("step")
        /\ UNCHANGED worker
  /\ UNCHANGED <<outside, late, faults, crashes>>

Dispatch ==
  /\ Step("reconcile", "runtime_registered")
  /\ \/ Intend("dispatch") /\ UNCHANGED faults
     \/ Fault /\ Pause("failed")
  /\ UNCHANGED <<worker, outside, late, crashes>>

Finish ==
  /\ Step("reconcile", "continuation_dispatched")
  /\ Intend("finish")
  /\ UNCHANGED <<worker, outside, late, faults, crashes>>

Complete ==
  /\ ctl.at = "complete" /\ worker.runtime = "target"
  /\ row' = [row EXCEPT !.phase = "completed"]
  /\ worker' = [worker EXCEPT !.status = "running"]
  /\ ctl' = Idle
  /\ UNCHANGED <<outside, late, faults, crashes>>

\* The order in which open intents are read back, and the phases they are
\* read back in; the others cannot be settled.
ReadBack ==
  <<[intent |-> "cleanup", phases |-> {"target_ready", "pm_prepared"}],
    [intent |-> "grant", phases |-> {"claimed"}],
    [intent |-> "begin", phases |-> {"claimed"}],
    [intent |-> "stop", phases |-> {"claimed"}],
    [intent |-> "transfer", phases |-> {"pm_prepared"}],
    [intent |-> "authorize", phases |-> {"pm_prepared"}],
    [intent |-> "stale_resume_stop", phases |-> OpenPhases],
    [intent |-> "target_session_stop", phases |-> OpenPhases],
    [intent |-> "bootstrap_stop", phases |-> {"owner_transferred"}],
    [intent |-> "resume", phases |-> {"owner_transferred"}],
    [intent |-> "finish", phases |-> {"continuation_dispatched"}]>>

\* Mutant: an intent to stop counts as its proof.
ProvenUnread(e) ==
  CASE e \in DOMAIN Stops -> TRUE
    [] e = "resume"    -> "target" \in live
    [] e = "authorize" -> workspace.phase = "begun" /\ workspace.target
    [] e = "transfer"  -> workspace.phase = "transferred"
    [] e = "finish"    -> workspace.phase = "finished"
    [] OTHER           -> workspace.phase \in {"none", "granted", "begun"}

\* What the readback of an intent accepts as its proof.
Proven(e) ==
  CASE e \in DOMAIN Stops -> Stops[e] \notin live
    [] e = "resume"    -> "target" \in live
    [] e = "grant"     -> Allows(e)
    [] e = "begin"     -> workspace.phase = "begun"
    [] e = "authorize" -> workspace.phase = "begun" /\ workspace.target
    [] e = "transfer"  -> workspace.phase = "transferred"
    [] e = "finish"    -> workspace.phase = "finished"

Due ==
  {i \in DOMAIN ReadBack :
     ReadBack[i].intent \in row.intents /\ row.phase \in ReadBack[i].phases}

FirstDue(e) ==
  \E i \in Due : e = ReadBack[i].intent /\ \A j \in Due : i <= j

\* Only the grant is made again: its token makes that exact.
ReconcileIntent ==
  /\ ctl.at = "step" /\ ctl.op = "reconcile" /\ row.intents # {}
  /\ LET proven == {e \in row.intents : FirstDue(e) /\ Proven(e)}
     IN \/ \E e \in proven :
             /\ IF e = "grant" THEN Happen(e) ELSE UNCHANGED outside
             /\ Answered(e)
             /\ UNCHANGED faults
        \/ /\ IF proven = {} THEN UNCHANGED faults ELSE Fault
           /\ Pause("uncertain")
           /\ UNCHANGED outside
  /\ UNCHANGED <<worker, late, crashes>>

-----------------------------------------------------------------------------
(***************************************************************************)
(* retry_paused_preflight: what the daemon makes of a paused row.          *)
(***************************************************************************)
StopStarted == row.phase # "claimed" \/ "stop" \in row.intents

\* Mutant: whether the target still runs is not asked.
StrandedNever == FALSE

\* The registered target is gone: the continuation can reach nobody.
Stranded ==
  row.phase = "runtime_registered" /\ row.pause = "dispatch" /\ "target" \notin live

Paused == ctl = Idle /\ ~Ended /\ row.pause # "none"

Run(op, at) == ctl' = [op |-> op, at |-> at, held |-> row.pause]

Lift == row' = [row EXCEPT !.pause = "none"]

Reconcile ==
  /\ ctl = Idle /\ ~Ended /\ row.pause = "none"
  /\ Run("reconcile", "step")
  /\ UNCHANGED <<worker, row, outside, late, faults, crashes>>

RetrySetup ==
  /\ Paused /\ row.pause = "retry" /\ ~StopStarted /\ row.intents = {}
  /\ "source" \in live
  /\ Lift
  /\ ctl' = [Idle EXCEPT !.op = "setup", !.at = "step"]
  /\ UNCHANGED <<worker, outside, late, faults, crashes>>

\* The pause admits no retry, or the quota was reset or the source is gone.
ReleasePaused ==
  /\ Paused /\ row.pause # "uncertain" /\ ~StopStarted
  /\ Run("prestop", "release")
  /\ UNCHANGED <<worker, row, outside, late, faults, crashes>>

RetryForward ==
  /\ Paused /\ row.pause \in POST_STOP_RETRY_REASONS /\ StopStarted /\ ~Stranded
  /\ Lift
  /\ Run("forward", "forward")
  /\ UNCHANGED <<worker, outside, late, faults, crashes>>

\* _post_transfer_cleanup, with the pause lifted.
Forward ==
  /\ ctl.at = "forward"
  /\ LET settle(intents) ==
           /\ row' = [row EXCEPT !.intents = intents]
           /\ ctl' = [Idle EXCEPT !.op = "reconcile", !.at = "step"]
         resuming == row.phase = "owner_transferred" /\ "resume" \in row.intents
         finishing == row.phase = "continuation_dispatched" /\ ctl.held = "finish"
     IN CASE resuming ->
               \/ /\ settle(row.intents \
                       (IF "target" \in live THEN {"stale_resume_stop"}
                                        ELSE {"stale_resume_stop", "resume"}))
                  /\ UNCHANGED faults
               \/ Fault /\ Pause(ctl.held)
               \/ "target" \in live /\ Fault /\ Intend("stale_resume_stop")
          [] finishing ->
               \/ /\ IF workspace.phase = "finished"
                     THEN settle(row.intents \cup {"finish"})
                     ELSE Goto("finish") /\ UNCHANGED row
                  /\ UNCHANGED faults
               \/ Fault /\ Pause(ctl.held)
          [] OTHER ->
               /\ settle(IF ctl.held = "dispatch" THEN row.intents \ {"dispatch"}
                                                  ELSE row.intents)
               /\ UNCHANGED faults
  /\ UNCHANGED <<worker, outside, late, crashes>>

-----------------------------------------------------------------------------
(***************************************************************************)
(* _release_after_stop: back to the source, or after the transfer on to    *)
(* the target.                                                             *)
(***************************************************************************)
Landed == row.phase = "pm_prepared" /\ workspace.phase = "transferred"

\* The readback of a finished hold that never had its target authorised
\* fails, and with it every release.
Unreadable ==
  row.phase = "pm_prepared" /\ workspace.phase = "finished" /\ ~workspace.target

BootstrapRecorded ==
  row.phase \in TargetPhases \/ "bootstrap_stop" \in row.intents \cup row.proofs

\* The transfer landed although its answer was lost: go on after it.
AdvanceLanded ==
  /\ row' = [row EXCEPT !.phase = "owner_transferred", !.pause = "none",
                        !.intents = @ \ {"transfer"}]
  /\ UNCHANGED ctl

SettleLandedTransfer ==
  /\ Paused /\ row.pause = "uncertain" /\ Landed
  /\ AdvanceLanded
  /\ UNCHANGED <<worker, outside, late, faults, crashes>>

\* The daemon stops a bootstrap itself, lifting the pause to record it.
Preserve ==
  /\ Paused /\ row.pause # "uncertain" /\ StopStarted
  /\ row.pause = "failed" \/ Stranded
  /\ ~Unreadable
  /\ IF Landed THEN AdvanceLanded
     ELSE IF \/ "bootstrap" \in live
             \/ BootstrapRecorded /\ "bootstrap_stop" \notin row.proofs
     THEN Lift /\ Run("release", "unheld")
     ELSE Run("release", "settled") /\ UNCHANGED row
  /\ UNCHANGED <<worker, outside, late, faults, crashes>>

\* The operator's abort takes any pause, but stops no bootstrap.
Abort ==
  /\ Paused /\ ~Unreadable
  /\ IF Landed THEN AdvanceLanded
     ELSE /\ "bootstrap" \notin live
          /\ Run("release", "settled")
          /\ UNCHANGED row
  /\ UNCHANGED <<worker, outside, late, faults, crashes>>

SettleBootstrap ==
  /\ \/ /\ ctl.at = "unheld"
        /\ IF "bootstrap" \in live THEN Intend("bootstrap_stop")
           ELSE row' = Settled("bootstrap_stop") /\ Goto("restore")
     \/ /\ ctl.at = "restore"
        /\ row' = [row EXCEPT !.pause = ctl.held]
        /\ Goto("settled")
  /\ UNCHANGED <<worker, outside, late, faults, crashes>>

\* Mutant: the source release is recorded like every other effect.
ChooseSideIntending ==
  /\ ctl.at = "settled"
  /\ IF row.phase \in POST_TRANSFER_PHASES THEN Lift /\ Goto("to_target")
     ELSE Intend("release")
  /\ UNCHANGED <<worker, outside, late, faults, crashes>>

ChooseSide ==
  /\ ctl.at = "settled"
  /\ IF row.phase \in POST_TRANSFER_PHASES THEN Lift /\ Goto("to_target")
     ELSE Goto("release") /\ UNCHANGED row
  /\ UNCHANGED <<worker, outside, late, faults, crashes>>

\* A target that got no continuation is stopped and its runtime adopted; a
\* call that fails on the way restores the pause.
ReleaseToTarget ==
  /\ \/ /\ ctl.at = "to_target"
        /\ IF /\ "target" \in live /\ row.phase # "continuation_dispatched"
              /\ "dispatch" \notin row.intents
           THEN Intend("target_session_stop")
           ELSE /\ row' = [row EXCEPT !.intents = @ \ {"target_session_stop"}]
                /\ Goto("adopt")
        /\ UNCHANGED <<worker, faults>>
     \/ /\ ctl.at = "adopt"
        /\ worker.runtime = "target" \/ row.phase = "owner_transferred"
        /\ worker' = [worker EXCEPT !.runtime = "target"]
        /\ IF workspace.phase = "finished"
           THEN row' = [row EXCEPT !.pause = ctl.held] /\ Goto("registry")
           ELSE Goto("finish") /\ UNCHANGED row
        /\ UNCHANGED faults
     \/ ctl.at \in {"to_target", "adopt"} /\ Fault /\ Pause(ctl.held) /\ UNCHANGED worker
  /\ UNCHANGED <<outside, late, crashes>>

\* release_worker_handoff: the hold ends and the worker runs again.
ReleaseRegistry ==
  /\ ctl.at = "registry"
  /\ row' = [row EXCEPT !.phase = "released"]
  /\ worker' = [worker EXCEPT !.status = "running"]
  /\ ctl' = Idle
  /\ UNCHANGED <<outside, late, faults, crashes>>

-----------------------------------------------------------------------------
(***************************************************************************)
(* The environment.                                                        *)
(***************************************************************************)
\* The controller dies; the effect it was at has happened or not, and a
\* workspace-manager call it had started may still run.
Crash ==
  /\ ctl # Idle /\ crashes < MaxCrashes
  /\ crashes' = crashes + 1
  /\ ctl' = Idle
  /\ IF ctl.at \in WorkspaceCalls
     THEN late' = late \cup {ctl.at} /\ UNCHANGED outside
     ELSE /\ UNCHANGED late
          /\ \/ UNCHANGED outside
             \/ ctl.at \in Effects /\ Can(ctl.at) /\ Happen(ctl.at)
  /\ UNCHANGED <<worker, row, faults>>

Land(call) ==
  /\ call \in late /\ Can(call)
  /\ Happen(call)
  /\ late' = late \ {call}
  /\ UNCHANGED <<worker, row, ctl, faults, crashes>>

ProcessExits(session) ==
  /\ session \in live
  /\ live' = live \ {session}
  /\ UNCHANGED <<worker, row, workspace, ctl, late, typed, signalled, faults,
                 crashes>>

-----------------------------------------------------------------------------
Phase ==
  \/ \E op \in {"setup", "reconcile"} : BeginSourceHold(op)
  \/ RecordTarget \/ StopSource \/ StartTarget \/ PreparePm \/ TransferOwner
  \/ ResumeTarget \/ RegisterTarget \/ Dispatch \/ Finish \/ Complete
  \/ ReconcileIntent

Daemon ==
  \/ Reconcile \/ RetrySetup \/ ReleasePaused \/ RetryForward \/ Forward
  \/ SettleLandedTransfer \/ Preserve

Release ==
  SettleBootstrap \/ ChooseSide \/ ReleaseToTarget \/ ReleaseRegistry

Controller ==
  Phase \/ Daemon \/ Release \/ \E e \in Effects : Succeed(e) \/ Fail(e)

Next ==
  \/ Controller
  \/ Abort
  \/ Crash
  \/ \E call \in WorkspaceCalls : Land(call)
  \/ \E session \in Sessions : ProcessExits(session)

\* The daemon's loop runs every open hand-off again and again.
Fairness == WF_vars(Controller)

Spec == Init /\ [][Next]_vars /\ Fairness

-----------------------------------------------------------------------------
Rows ==
  [phase : OpenPhases \cup {"completed", "released"}, pause : Pauses,
   intents : SUBSET (Effects \ {"release"}),
   proofs : SUBSET (Proofs \cup {"target_client", "retryable"})]

Holds ==
  [phase : {"none", "granted", "begun", "transferred", "finished"},
   target : BOOLEAN, owner : {"source", "target"}]

Operations == {"none", "setup", "reconcile", "forward", "release", "prestop"}

Places ==
  Effects \cup {"idle", "step", "register", "registered", "complete", "forward",
               "unheld", "restore", "settled", "to_target", "adopt", "registry"}

Controllers == [op : Operations, at : Places, held : Pauses]

\* Every record stays within the phases, reasons, effects and steps of the code.
TypeOK ==
  /\ worker \in [status : {"handoff_pending", "running"},
                 runtime : {"source", "target"}]
  /\ row \in Rows /\ workspace \in Holds /\ ctl \in Controllers
  /\ live \subseteq Sessions /\ late \subseteq WorkspaceCalls
  /\ typed \in Nat /\ signalled \in BOOLEAN
  /\ faults \in 0..MaxFaults /\ crashes \in 0..MaxCrashes

\* Whoever can write the worktree owns its assignment: the source and the
\* target never run under the other's ownership, so never together.
WriterOwns ==
  \A session \in live \ {"bootstrap"} : session = workspace.owner

\* A hand-off that ended leaves a running worker whose runtime owns the
\* assignment, no open hold on the workspace and no read-only bootstrap.
EndedCleanly ==
  Ended =>
    /\ worker = [status |-> "running", runtime |-> workspace.owner]
    /\ workspace.phase \in {"none", "finished"}
    /\ "bootstrap" \notin live

\* A release that returns the worker without asking for the stop boundary
\* returns a source that nobody signalled (H5).
EarlyReleaseFindsSourceUntouched ==
  [][ctl.op = "prestop" /\ Ended' => ~signalled]_vars

\* The continuation is given to the target once, however often the dispatch
\* is retried.
DispatchedOnce == typed <= 1

\* The promise of the hand-off, read-only bootstrap aside: the owner moves
\* once and while nobody writes, and nothing moves after the worker returned,
\* late workspace-manager calls included.
Promise == INSTANCE Handover WITH
  running <- live \ {"bootstrap"},
  owner <- workspace.owner

HandoverKept == Promise!Spec

\* Every hand-off ends or is left to the operator, whatever fails.
Settles == <>[](Ended \/ row.pause = "uncertain" \/ Unreadable)
=============================================================================
