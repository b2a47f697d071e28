------------------------ MODULE WorkerHandoffProofs -------------------------
(***************************************************************************)
(* For any number of faults, lost answers and controller crashes: whoever  *)
(* runs in the worktree owns its assignment, and the protocol implements   *)
(* the promise of Handover.                                                *)
(*                                                                         *)
(* The inductive invariant ties the three records together: the row's      *)
(* phase (what the commander has proved), the hold and the owner (what the *)
(* workspace manager has done, late calls included) and the sessions.      *)
(***************************************************************************)
EXTENDS WorkerHandoff, TLAPS

Transferred == row.phase \in POST_TRANSFER_PHASES

\* The phases between the stop of the source and the transfer.
Stopped == row.phase \in {"source_stopped", "target_ready", "pm_prepared"}

\* The phase, or the operation, in which the controller reaches each step.
StepInPhase ==
  /\ ctl.at = "stop" => row.phase = "claimed"
  /\ ctl.at = "bootstrap" => row.phase = "source_stopped"
  /\ ctl.at = "transfer" => row.phase = "pm_prepared"
  /\ ctl.at \in {"resume", "register", "registered"} => row.phase = "owner_transferred"
  /\ ctl.at = "dispatch" => row.phase = "runtime_registered"
  /\ ctl.at \in {"finish", "to_target", "adopt", "target_session_stop"} => Transferred
  /\ ctl.at = "release" => ~Transferred
  /\ ctl.at = "forward" => ctl.op = "forward"
  /\ Ended => ctl.at = "idle"

\* Once a stop is proved the source is gone, for a transfer too that nobody
\* waits for any more; a recorded transfer is one that happened.
SourceGone ==
  /\ Stopped => "source" \notin live
  /\ "transfer" \in late => "source" \notin live
  /\ Transferred => workspace.owner = "target"

\* The hold says who owns the assignment.
HoldOwner ==
  /\ workspace.phase \in {"none", "granted", "begun"} => workspace.owner = "source"
  /\ workspace.phase = "transferred" => workspace.owner = "target"
  /\ workspace.phase = "finished" /\ workspace.owner = "target" => Transferred \/ Ended
  /\ "finish" \in late => Transferred \/ Ended

\* The registered runtime never runs ahead of the owner.
RuntimeFollows ==
  /\ worker.runtime = "target" =>
       workspace.owner = "target" /\ (Transferred \/ Ended)
  /\ row.phase \in {"runtime_registered", "continuation_dispatched"}
       => worker.runtime = "target"
  /\ ctl.at = "registered" => worker.runtime = "target"
  /\ ctl.at = "finish" /\ ctl.op = "release" => worker.runtime = "target"

\* The worker returns when its hold is closed and its runtime owns the worktree.
ReturnsClosed ==
  /\ worker.status = "running" <=> Ended
  /\ ctl.at = "complete" => workspace.phase = "finished"
  /\ Ended \/ ctl.at = "registry" =>
       /\ workspace.phase \in {"none", "finished"}
       /\ worker.runtime = workspace.owner

HandoffInv ==
  /\ TypeOK
  /\ StepInPhase
  /\ SourceGone
  /\ HoldOwner
  /\ RuntimeFollows
  /\ ReturnsClosed
  /\ WriterOwns

-----------------------------------------------------------------------------
(***************************************************************************)
(* What recording something does to the row and to the controller.         *)
(***************************************************************************)
\* The effects, one by one.
LEMMA EffectNames ==
  Effects = {"grant", "begin", "authorize", "transfer", "finish", "release",
             "stop", "cleanup", "bootstrap_stop", "stale_resume_stop",
             "target_session_stop", "bootstrap", "resume", "dispatch"}
BY DEF Effects, AcceptedIn, Stops, Starts

\* The open phases, one by one.
LEMMA PhaseNames ==
  OpenPhases = {"claimed", "source_stopped", "target_ready", "pm_prepared",
                "owner_transferred", "runtime_registered", "continuation_dispatched"}
BY DEF OpenPhases, TargetPhases, POST_TRANSFER_PHASES

\* The pause reasons, one by one.
LEMMA PauseNames ==
  Pauses = {"retry", "dispatch", "finish", "none", "failed", "uncertain"}
BY DEF Pauses, POST_STOP_RETRY_REASONS

\* Moving on changes the step of the controller and nothing else of it.
LEMMA GotoKeeps ==
  ASSUME TypeOK, NEW step \in Places, Goto(step)
  PROVE  ctl' \in Controllers /\ ctl'.at = step /\ ctl'.op = ctl.op
BY DEF TypeOK, Controllers, Goto

\* A controller without an operation is at no step.
LEMMA IdleController ==
  Idle \in Controllers /\ Idle.at = "idle" /\ Idle.op = "none"
BY PauseNames DEF Idle, Controllers, Operations, Places

\* A pause keeps the phase and ends the operation.
LEMMA PauseKeeps ==
  ASSUME TypeOK, NEW reason \in Pauses, Pause(reason)
  PROVE  /\ row' \in Rows /\ row'.phase = row.phase
         /\ ctl' \in Controllers /\ ctl'.at = "idle" /\ ctl'.op = "none"
BY IdleController DEF TypeOK, Rows, Pause

\* An intent keeps the phase; the controller goes on to the effect.
LEMMA IntendKeeps ==
  ASSUME TypeOK, NEW e \in Effects \ {"release"}, Intend(e)
  PROVE  /\ row' \in Rows /\ row'.phase = row.phase
         /\ ctl' \in Controllers /\ ctl'.at = e /\ ctl'.op = ctl.op
<1>1. e \in Places
  BY DEF Places
<1>2. ctl' \in Controllers /\ ctl'.at = e /\ ctl'.op = ctl.op
  BY <1>1, GotoKeeps DEF Intend
<1> QED  BY <1>2 DEF TypeOK, Rows, Intend

\* Lifting a pause keeps the phase.
LEMMA LiftKeeps ==
  ASSUME TypeOK, Lift
  PROVE  row' \in Rows /\ row'.phase = row.phase
BY PauseNames DEF TypeOK, Rows, Lift

\* An operation starts at its first step.
LEMMA RunKeeps ==
  ASSUME TypeOK, NEW op \in Operations, NEW at \in Places, Run(op, at)
  PROVE  ctl' \in Controllers /\ ctl'.at = at /\ ctl'.op = op
BY DEF TypeOK, Rows, Controllers, Run

\* A failure before the transfer keeps the phase, and stops the bootstrap or pauses.
LEMMA BeforeTransferKeeps ==
  ASSUME TypeOK, NEW reason \in Pauses, PauseBeforeTransfer(reason)
  PROVE  /\ row' \in Rows /\ row'.phase = row.phase
         /\ ctl' \in Controllers
         /\ ctl'.at \in {"idle", "cleanup"} /\ ctl'.op \in {"none", ctl.op}
<1>1. CASE workspace.phase = "begun" /\ ~workspace.target
  <2>1. "cleanup" \in Effects \ {"release"} /\ "cleanup" \in Places
    BY EffectNames DEF Places
  <2>2. ctl' \in Controllers /\ ctl'.at = "cleanup" /\ ctl'.op = ctl.op
    BY <1>1, <2>1, GotoKeeps DEF PauseBeforeTransfer
  <2>3. row' \in Rows /\ row'.phase = row.phase
    <3> DEFINE noted == IF reason = "retry" THEN row.proofs \cup {"retryable"}
                                           ELSE row.proofs
    <3>1. row' = [row EXCEPT !.intents = @ \cup {"cleanup"}, !.proofs = noted]
      BY <1>1 DEF PauseBeforeTransfer
    <3>2. noted \in SUBSET (Proofs \cup {"target_client", "retryable"})
      BY DEF TypeOK, Rows
    <3> QED  BY <2>1, <3>1, <3>2 DEF TypeOK, Rows
  <2> QED  BY <2>2, <2>3
<1>2. CASE ~(workspace.phase = "begun" /\ ~workspace.target)
  <2>1. (IF workspace.target THEN reason ELSE "failed") \in Pauses
    BY PauseNames
  <2>2. Pause(IF workspace.target THEN reason ELSE "failed")
    BY <1>2 DEF PauseBeforeTransfer
  <2> QED  BY <2>1, <2>2, PauseKeeps
<1> QED  BY <1>1, <1>2

\* The phase an effect reaches once its proof is recorded.
LEMMA SettledRow ==
  ASSUME TypeOK, NEW e \in Effects
  PROVE  /\ Settled(e) \in Rows
         /\ Settled(e).phase = (CASE e = "stop" -> "source_stopped"
                                  [] e = "bootstrap" -> "target_ready"
                                  [] e = "transfer" -> "owner_transferred"
                                  [] e = "resume" -> "runtime_registered"
                                  [] e = "dispatch" -> "continuation_dispatched"
                                  [] OTHER -> row.phase)
<1>1. DOMAIN Reaches = {"stop", "bootstrap", "transfer", "resume", "dispatch"}
  BY DEF Reaches
<1>2. Settled(e).phase = IF e \in DOMAIN Reaches THEN Reaches[e] ELSE row.phase
  BY DEF Settled, TypeOK, Rows
<1>3. (IF e \in DOMAIN Reaches THEN Reaches[e] ELSE row.phase) \in
        OpenPhases \cup {"completed", "released"}
  BY PhaseNames DEF Reaches, TypeOK, Rows
<1>4. Settled(e) \in Rows
  BY <1>3 DEF Settled, TypeOK, Rows
<1> QED  BY <1>1, <1>2, <1>4 DEF Reaches

-----------------------------------------------------------------------------
(***************************************************************************)
(* Steps that leave the world alone.                                       *)
(***************************************************************************)
\* Places that need more than their phase.
Arrives ==
  \/ ctl.at \in {"registered", "complete", "registry"}
  \/ ctl.at = "finish" /\ ctl.op = "release"

\* A step that leaves the world and the phase alone keeps the invariant.
LEMMA QuietStep ==
  ASSUME HandoffInv, UNCHANGED <<worker, outside, late>>,
         row' \in Rows, row'.phase = row.phase, ctl' \in Controllers,
         faults' \in 0..MaxFaults, crashes' \in 0..MaxCrashes,
         StepInPhase', ~Arrives'
  PROVE  HandoffInv'
BY DEF HandoffInv, TypeOK, outside, Arrives, SourceGone, HoldOwner, RuntimeFollows,
       ReturnsClosed, WriterOwns, Transferred, Stopped, Ended

\* A fault stays within its bound.
LEMMA FaultBound ==
  ASSUME TypeOK, Fault
  PROVE  faults' \in 0..MaxFaults
<1>1. faults + 1 \in Nat /\ faults + 1 <= MaxFaults
  BY HandoffAssumption DEF TypeOK, Fault
<1> QED  BY <1>1, HandoffAssumption DEF Fault

\* Before the target exists: hold the source, choose a target, stop the source.
LEMMA SourceSteps ==
  ASSUME HandoffInv,
         \/ BeginSourceHold("setup") \/ BeginSourceHold("reconcile")
         \/ RecordTarget \/ StopSource \/ StartTarget
  PROVE  HandoffInv'
<1>0. TypeOK /\ StepInPhase /\ row.phase \notin {"completed", "released"}
  BY DEF HandoffInv, BeginSourceHold, RecordTarget, StopSource, StartTarget, Step
<1>1. ASSUME NEW op \in {"setup", "reconcile"}, BeginSourceHold(op)  PROVE HandoffInv'
  <2> DEFINE e == IF "grant" \in row.proofs THEN "begin" ELSE "grant"
  <2>1. e \in Effects \ {"release"}
    BY EffectNames
  <2>2. Intend(e)
    BY <1>1 DEF BeginSourceHold
  <2>3. /\ row' \in Rows /\ row'.phase = row.phase
        /\ ctl' \in Controllers /\ ctl'.at = e /\ ctl'.op = ctl.op
    BY <1>0, <2>1, <2>2, IntendKeeps
  <2>4. row.phase = "claimed" /\ UNCHANGED <<worker, outside, late, faults, crashes>>
    BY <1>1 DEF BeginSourceHold, Step
  <2>5. StepInPhase' /\ ~Arrives'
    BY <2>3, <2>4 DEF StepInPhase, Arrives, Transferred, Ended, POST_TRANSFER_PHASES
  <2>6. faults' \in 0..MaxFaults /\ crashes' \in 0..MaxCrashes
    BY <1>0, <2>4 DEF TypeOK
  <2> QED  BY <2>3, <2>4, <2>5, <2>6, QuietStep
<1>2. CASE RecordTarget
  <2>1. row.phase = "claimed" /\ UNCHANGED <<worker, outside, late, crashes>>
    BY <1>2 DEF RecordTarget, Step
  <2>2. faults' \in 0..MaxFaults /\ crashes' \in 0..MaxCrashes
    BY <1>0, <1>2, FaultBound DEF RecordTarget, CheckFails, TypeOK
  <2>3. /\ row' \in Rows /\ row'.phase = row.phase /\ ctl' \in Controllers
        /\ ctl'.at \in {"step", "idle"}
    <3>1. CASE HoldProved
            /\ row' = [row EXCEPT !.proofs = @ \cup {"target_client"}]
            /\ ctl' = [ctl EXCEPT !.op = "reconcile"]
      BY <1>0, <1>2, <3>1 DEF RecordTarget, Step, TypeOK, Rows, Controllers, Operations
    <3>2. ASSUME NEW reason \in {"retry", "failed"}, Pause(reason)
          PROVE /\ row' \in Rows /\ row'.phase = row.phase
                /\ ctl' \in Controllers /\ ctl'.at = "idle"
      BY <1>0, <3>2, PauseKeeps, PauseNames
    <3> QED  BY <1>2, <3>1, <3>2 DEF RecordTarget, CheckFails
  <2>4. StepInPhase' /\ ~Arrives'
    BY <2>1, <2>3 DEF StepInPhase, Arrives, Transferred, Ended, POST_TRANSFER_PHASES
  <2> QED  BY <2>1, <2>2, <2>3, <2>4, QuietStep
<1>3. CASE StopSource
  <2>1. row.phase = "claimed" /\ UNCHANGED <<worker, outside, late, crashes>>
    BY <1>3 DEF StopSource, Step
  <2>2. faults' \in 0..MaxFaults /\ crashes' \in 0..MaxCrashes
    BY <1>0, <1>3, FaultBound DEF StopSource, CheckFails, TypeOK
  <2>3. /\ row' \in Rows /\ row'.phase = row.phase /\ ctl' \in Controllers
        /\ ctl'.at \in {"stop", "idle"}
    <3>1. CASE Intend("stop")
      BY <1>0, <3>1, IntendKeeps, EffectNames
    <3>2. ASSUME NEW reason \in {"retry", "failed"}, Pause(reason)
          PROVE /\ row' \in Rows /\ row'.phase = row.phase
                /\ ctl' \in Controllers /\ ctl'.at = "idle"
      BY <1>0, <3>2, PauseKeeps, PauseNames
    <3> QED  BY <1>3, <3>1, <3>2 DEF StopSource, CheckFails
  <2>4. StepInPhase' /\ ~Arrives'
    BY <2>1, <2>3 DEF StepInPhase, Arrives, Transferred, Ended, POST_TRANSFER_PHASES
  <2> QED  BY <2>1, <2>2, <2>3, <2>4, QuietStep
<1>4. CASE StartTarget
  <2>1. /\ row.phase = "source_stopped" /\ Intend("bootstrap")
        /\ UNCHANGED <<worker, outside, late, faults, crashes>>
    BY <1>4 DEF StartTarget, Step
  <2>2. /\ row' \in Rows /\ row'.phase = row.phase
        /\ ctl' \in Controllers /\ ctl'.at = "bootstrap"
    BY <1>0, <2>1, IntendKeeps, EffectNames
  <2>3. StepInPhase' /\ ~Arrives' /\ faults' \in 0..MaxFaults /\ crashes' \in 0..MaxCrashes
    BY <1>0, <2>1, <2>2 DEF StepInPhase, Arrives, Transferred, Ended,
          POST_TRANSFER_PHASES, TypeOK
  <2> QED  BY <2>1, <2>2, <2>3, QuietStep
<1> QED  BY <1>1, <1>2, <1>3, <1>4

\* From the bootstrap to the transfer.
LEMMA TransferSteps ==
  ASSUME HandoffInv, PreparePm \/ TransferOwner
  PROVE  HandoffInv'
<1>0. TypeOK /\ StepInPhase
  BY DEF HandoffInv
<1>1. ASSUME NEW reason \in {"retry", "failed"}, PauseBeforeTransfer(reason),
      Fault \/ UNCHANGED faults,
             row.phase \in {"target_ready", "pm_prepared"},
             UNCHANGED <<worker, outside, late, crashes>>
      PROVE  HandoffInv'
  <2>1. reason \in Pauses
    BY PauseNames
  <2>2. /\ row' \in Rows /\ row'.phase = row.phase
        /\ ctl' \in Controllers /\ ctl'.at \in {"idle", "cleanup"}
    BY <1>0, <1>1, <2>1, BeforeTransferKeeps
  <2>3. faults' \in 0..MaxFaults /\ crashes' \in 0..MaxCrashes
    BY <1>0, <1>1, FaultBound DEF TypeOK
  <2>4. StepInPhase' /\ ~Arrives'
    BY <1>1, <2>2 DEF StepInPhase, Arrives, Transferred, Ended, POST_TRANSFER_PHASES
  <2> QED  BY <1>1, <2>2, <2>3, <2>4, QuietStep
<1>2. CASE PreparePm
  <2>1. row.phase = "target_ready" /\ UNCHANGED <<worker, outside, late, crashes>>
    BY <1>2 DEF PreparePm, Step
  <2>2. CASE row' = [row EXCEPT !.phase = "pm_prepared"] /\ UNCHANGED <<ctl, faults>>
    <3>1. row' \in Rows /\ row'.phase = "pm_prepared" /\ ctl.at = "step"
      BY <1>0, <1>2, <2>2, PhaseNames DEF TypeOK, Rows, PreparePm, Step
    <3> QED
      BY <2>1, <2>2, <3>1 DEF HandoffInv, StepInPhase, SourceGone, HoldOwner,
            RuntimeFollows, ReturnsClosed, WriterOwns,
           Transferred, Stopped, Ended, POST_TRANSFER_PHASES, TypeOK, outside
  <2>3. CASE Fault /\ PauseBeforeTransfer("failed")
    BY <1>1, <2>1, <2>3
  <2> QED  BY <1>2, <2>2, <2>3 DEF PreparePm
<1>3. CASE TransferOwner
  <2>1. row.phase = "pm_prepared" /\ UNCHANGED <<worker, outside, late, crashes>>
    BY <1>3 DEF TransferOwner, Step
  <2>2. ASSUME NEW e \in {"authorize", "transfer"}, Intend(e), UNCHANGED faults
        PROVE  HandoffInv'
    <3>1. /\ row' \in Rows /\ row'.phase = row.phase
          /\ ctl' \in Controllers /\ ctl'.at = e
      BY <1>0, <2>2, IntendKeeps, EffectNames
    <3>2. /\ StepInPhase' /\ ~Arrives'
          /\ faults' \in 0..MaxFaults /\ crashes' \in 0..MaxCrashes
      BY <1>0, <2>1, <2>2, <3>1 DEF StepInPhase, Arrives, Transferred, Ended,
            POST_TRANSFER_PHASES, TypeOK
    <3> QED  BY <2>1, <3>1, <3>2, QuietStep
  <2>3. CASE Fault /\ \E reason \in {"retry", "failed"} : PauseBeforeTransfer(reason)
    BY <1>1, <2>1, <2>3
  <2>4. CASE PauseBeforeTransfer("failed") /\ UNCHANGED faults
    BY <1>1, <2>1, <2>4
  <2> QED  BY <1>3, <2>2, <2>3, <2>4 DEF TransferOwner
<1> QED  BY <1>2, <1>3

\* From the transfer to the end.
LEMMA TargetSteps ==
  ASSUME HandoffInv,
         ResumeTarget \/ RegisterTarget \/ Dispatch \/ Finish \/ Complete
  PROVE  HandoffInv'
<1>0. TypeOK /\ StepInPhase
  BY DEF HandoffInv
<1>1. ASSUME NEW e \in {"bootstrap_stop", "resume", "dispatch", "finish"}, Intend(e),
             UNCHANGED <<worker, outside, late, faults, crashes>>,
             ctl.op = "reconcile",
             e \in {"bootstrap_stop", "resume"} => row.phase = "owner_transferred",
             e = "dispatch" => row.phase = "runtime_registered",
             e = "finish" => row.phase = "continuation_dispatched",
             ~Ended
      PROVE  HandoffInv'
  <2>1. /\ row' \in Rows /\ row'.phase = row.phase
        /\ ctl' \in Controllers /\ ctl'.at = e /\ ctl'.op = "reconcile"
    BY <1>0, <1>1, IntendKeeps, EffectNames
  <2>2. /\ StepInPhase' /\ ~Arrives'
        /\ faults' \in 0..MaxFaults /\ crashes' \in 0..MaxCrashes
    BY <1>0, <1>1, <2>1 DEF StepInPhase, Arrives, Transferred, Ended,
          POST_TRANSFER_PHASES, TypeOK
  <2> QED  BY <1>1, <2>1, <2>2, QuietStep
<1>2. CASE ResumeTarget
  BY <1>1, <1>2 DEF ResumeTarget, Step, Ended
<1>3. CASE RegisterTarget
  <2>1. UNCHANGED <<outside, late, faults, crashes>> /\ row.phase = "owner_transferred"
    BY <1>0, <1>3 DEF RegisterTarget, StepInPhase
  <2>2. CASE /\ ctl.at = "register" /\ UNCHANGED row /\ Goto("registered")
             /\ worker' = [worker EXCEPT !.runtime = "target"]
    <3>1. ctl' \in Controllers /\ ctl'.at = "registered" /\ ctl'.op = ctl.op
      BY <1>0, <2>2, GotoKeeps DEF Places
    <3> QED
      BY <2>1, <2>2, <3>1 DEF HandoffInv, StepInPhase, SourceGone, HoldOwner,
            RuntimeFollows, ReturnsClosed, WriterOwns,
           Transferred, Stopped, Ended, POST_TRANSFER_PHASES, TypeOK, outside
  <2>3. CASE /\ ctl.at = "registered" /\ row' = Settled("resume") /\ Goto("step")
             /\ UNCHANGED worker
    <3>1. ctl' \in Controllers /\ ctl'.at = "step" /\ ctl'.op = ctl.op
      BY <1>0, <2>3, GotoKeeps DEF Places
    <3>2. row' \in Rows /\ row'.phase = "runtime_registered"
      BY <1>0, <2>3, SettledRow, EffectNames
    <3> QED
      BY <2>1, <2>3, <3>1, <3>2 DEF HandoffInv, StepInPhase, SourceGone, HoldOwner,
            RuntimeFollows, ReturnsClosed, WriterOwns,
           Transferred, Stopped, Ended, POST_TRANSFER_PHASES, TypeOK, outside
  <2> QED  BY <1>3, <2>2, <2>3 DEF RegisterTarget
<1>4. CASE Dispatch
  <2>1. row.phase = "runtime_registered" /\ UNCHANGED <<worker, outside, late, crashes>>
    BY <1>4 DEF Dispatch, Step
  <2>2. CASE Intend("dispatch") /\ UNCHANGED faults
    BY <1>1, <1>4, <2>1, <2>2 DEF Dispatch, Step, Ended
  <2>3. CASE Fault /\ Pause("failed")
    <3>1. /\ row' \in Rows /\ row'.phase = row.phase
          /\ ctl' \in Controllers /\ ctl'.at = "idle"
      BY <1>0, <2>3, PauseKeeps, PauseNames
    <3>2. faults' \in 0..MaxFaults /\ crashes' \in 0..MaxCrashes
      BY <1>0, <2>1, <2>3, FaultBound DEF TypeOK
    <3>3. StepInPhase' /\ ~Arrives'
      BY <2>1, <3>1 DEF StepInPhase, Arrives, Transferred, Ended, POST_TRANSFER_PHASES
    <3> QED  BY <2>1, <3>1, <3>2, <3>3, QuietStep
  <2> QED  BY <1>4, <2>2, <2>3 DEF Dispatch
<1>5. CASE Finish
  BY <1>1, <1>5 DEF Finish, Step, Ended
<1>6. CASE Complete
  <2>1. /\ row' \in Rows /\ row'.phase = "completed"
        /\ ctl' \in Controllers /\ ctl'.at = "idle" /\ ctl'.op = "none"
    BY <1>0, <1>6, IdleController DEF Complete, TypeOK, Rows
  <2> QED
    BY <1>6, <2>1 DEF Complete, HandoffInv, StepInPhase, SourceGone, HoldOwner,
          RuntimeFollows, ReturnsClosed, WriterOwns,
           Transferred, Stopped, Ended, POST_TRANSFER_PHASES, TypeOK, outside
<1> QED  BY <1>2, <1>3, <1>4, <1>5, <1>6

\* A transfer that landed unseen is taken over.
LEMMA LandedAdvances ==
  ASSUME HandoffInv, AdvanceLanded, Landed, ctl = Idle,
         UNCHANGED <<worker, outside, late, faults, crashes>>
  PROVE  HandoffInv'
<1>1. row' \in Rows /\ row'.phase = "owner_transferred"
  BY PhaseNames, PauseNames DEF HandoffInv, TypeOK, Rows, AdvanceLanded
<1> QED
  BY <1>1, IdleController DEF AdvanceLanded, Landed, HandoffInv, StepInPhase, SourceGone,
        HoldOwner, RuntimeFollows, ReturnsClosed, WriterOwns,
           Transferred, Stopped, Ended, POST_TRANSFER_PHASES, TypeOK, outside

\* What the daemon starts on a row that is open or paused.
LEMMA DaemonSteps ==
  ASSUME HandoffInv,
         \/ Reconcile \/ RetrySetup \/ ReleasePaused \/ RetryForward
         \/ SettleLandedTransfer \/ Preserve \/ Abort
  PROVE  HandoffInv'
<1>0. TypeOK /\ StepInPhase /\ ctl = Idle
  BY DEF HandoffInv, Reconcile, RetrySetup, ReleasePaused, RetryForward,
         SettleLandedTransfer, Preserve, Abort, Paused
<1>1. UNCHANGED <<worker, outside, late, faults, crashes>> /\ ~Ended
  BY DEF Reconcile, RetrySetup, ReleasePaused, RetryForward,
         SettleLandedTransfer, Preserve, Abort, Paused
<1>2. ASSUME row' \in Rows, row'.phase = row.phase, ctl' \in Controllers,
             ctl'.at \in {"step", "forward", "unheld", "settled", "release"},
             ctl'.at = "forward" => ctl'.op = "forward",
             ctl'.at = "release" => row.phase = "claimed"
      PROVE  HandoffInv'
  <2>1. /\ StepInPhase' /\ ~Arrives'
        /\ faults' \in 0..MaxFaults /\ crashes' \in 0..MaxCrashes
    BY <1>0, <1>1, <1>2 DEF StepInPhase, Arrives, Transferred, Ended,
          POST_TRANSFER_PHASES, TypeOK
  <2> QED  BY <1>1, <1>2, <2>1, QuietStep
<1>3. ASSUME NEW op \in Operations,
             \/ Run(op, "step") \/ Run(op, "unheld") \/ Run(op, "settled")
             \/ op = "forward" /\ Run(op, "forward"),
             Lift \/ UNCHANGED row
      PROVE  HandoffInv'
  <2>1. /\ ctl' \in Controllers
        /\ ctl'.at \in {"step", "forward", "unheld", "settled"}
        /\ ctl'.at = "forward" => ctl'.op = "forward"
    <3>1. {"step", "forward", "unheld", "settled"} \subseteq Places
      BY DEF Places
    <3> QED  BY <1>0, <1>3, <3>1, RunKeeps
  <2>2. row' \in Rows /\ row'.phase = row.phase
    BY <1>0, <1>3, LiftKeeps DEF TypeOK
  <2> QED  BY <1>2, <2>1, <2>2
<1>4. CASE Reconcile
  BY <1>3, <1>4 DEF Reconcile, Operations
<1>5. CASE RetrySetup
  <2>1. row' \in Rows /\ row'.phase = row.phase
    BY <1>0, <1>5, LiftKeeps DEF RetrySetup
  <2>2. ctl' \in Controllers /\ ctl'.at = "step"
    BY <1>5, IdleController DEF RetrySetup, Idle, Controllers, Operations, Places
  <2> QED  BY <1>2, <2>1, <2>2
<1>6. CASE ReleasePaused
  <2>1. row.phase = "claimed" /\ Run("prestop", "release") /\ UNCHANGED row
    BY <1>6 DEF ReleasePaused, StopStarted
  <2>2. ctl' \in Controllers /\ ctl'.at = "release"
    BY <1>0, <2>1, RunKeeps, EffectNames DEF Operations, Places
  <2>3. row' \in Rows
    BY <1>0, <2>1 DEF TypeOK
  <2> QED  BY <1>2, <2>1, <2>2, <2>3
<1>7. CASE RetryForward
  BY <1>3, <1>7 DEF RetryForward, Operations
<1>8. CASE SettleLandedTransfer
  BY <1>0, <1>8, LandedAdvances DEF SettleLandedTransfer
<1>9. CASE Preserve
  <2>1. CASE Landed
    BY <1>0, <1>1, <1>9, <2>1, LandedAdvances DEF Preserve
  <2>2. CASE ~Landed
    BY <1>3, <1>9, <2>2 DEF Preserve, Operations
  <2> QED  BY <2>1, <2>2
<1>10. CASE Abort
  <2>1. CASE Landed
    BY <1>0, <1>1, <1>10, <2>1, LandedAdvances DEF Abort
  <2>2. CASE ~Landed
    BY <1>3, <1>10, <2>2 DEF Abort, Operations
  <2> QED  BY <2>1, <2>2
<1> QED  BY <1>4, <1>5, <1>6, <1>7, <1>8, <1>9, <1>10

\* The retry after the source stop.
LEMMA ForwardStep ==
  ASSUME HandoffInv, Forward
  PROVE  HandoffInv'
<1>0. TypeOK /\ StepInPhase /\ ctl.at = "forward" /\ ctl.held \in Pauses
  BY DEF HandoffInv, Forward, TypeOK, Controllers
<1>1. UNCHANGED <<worker, outside, late, crashes>> /\ ~Ended
  BY <1>0 DEF Forward, StepInPhase
<1>2. ASSUME row' \in Rows, row'.phase = row.phase, ctl' \in Controllers,
      Fault \/ UNCHANGED faults,
             \/ ctl'.at \in {"idle", "step", "stale_resume_stop"}
             \/ ctl'.at = "finish" /\ Transferred /\ ctl.op # "release" /\ ctl'.op = ctl.op
      PROVE  HandoffInv'
  <2>1. faults' \in 0..MaxFaults /\ crashes' \in 0..MaxCrashes
    BY <1>0, <1>1, <1>2, FaultBound DEF TypeOK
  <2>2. StepInPhase' /\ ~Arrives'
    BY <1>1, <1>2 DEF StepInPhase, Arrives, Transferred, Ended, POST_TRANSFER_PHASES
  <2> QED  BY <1>1, <1>2, <2>1, <2>2, QuietStep
<1>3. ASSUME NEW intents \in SUBSET (Effects \ {"release"}), UNCHANGED faults,
             row' = [row EXCEPT !.intents = intents],
             ctl' = [Idle EXCEPT !.op = "reconcile", !.at = "step"]
      PROVE  HandoffInv'
  <2>1. row' \in Rows /\ row'.phase = row.phase
    BY <1>0, <1>3 DEF TypeOK, Rows
  <2>2. ctl' \in Controllers /\ ctl'.at = "step"
    BY <1>3, IdleController DEF Idle, Controllers, Operations, Places
  <2> QED  BY <1>2, <1>3, <2>1, <2>2
<1>4. ASSUME Pause(ctl.held), Fault
      PROVE  HandoffInv'
  BY <1>0, <1>2, <1>4, PauseKeeps
<1>5. ASSUME Intend("stale_resume_stop"), Fault
      PROVE  HandoffInv'
  BY <1>0, <1>2, <1>5, IntendKeeps, EffectNames
<1>6. row.intents \in SUBSET (Effects \ {"release"})
  BY <1>0 DEF TypeOK, Rows
<1>7. CASE row.phase = "owner_transferred" /\ "resume" \in row.intents
  <2>1. row.intents \ (IF "target" \in live THEN {"stale_resume_stop"}
                                           ELSE {"stale_resume_stop", "resume"})
          \in SUBSET (Effects \ {"release"})
    BY <1>6
  <2> QED  BY <1>3, <1>4, <1>5, <1>7, <2>1 DEF Forward
<1>8. CASE /\ ~(row.phase = "owner_transferred" /\ "resume" \in row.intents)
           /\ row.phase = "continuation_dispatched" /\ ctl.held = "finish"
  <2>1. row.intents \cup {"finish"} \in SUBSET (Effects \ {"release"})
    BY <1>6, EffectNames
  <2>2. ASSUME Goto("finish"), UNCHANGED <<row, faults>>
        PROVE  HandoffInv'
    <3>1. ctl' \in Controllers /\ ctl'.at = "finish" /\ ctl'.op = ctl.op
      BY <1>0, <2>2, GotoKeeps, EffectNames DEF Places
    <3>2. ctl.op = "forward" /\ row' \in Rows /\ row'.phase = row.phase /\ Transferred
      BY <1>0, <1>8, <2>2 DEF StepInPhase, TypeOK, Transferred, POST_TRANSFER_PHASES
    <3> QED  BY <1>2, <2>2, <3>1, <3>2
  <2> QED  BY <1>3, <1>4, <1>8, <2>1, <2>2 DEF Forward
<1>9. CASE /\ ~(row.phase = "owner_transferred" /\ "resume" \in row.intents)
           /\ ~(row.phase = "continuation_dispatched" /\ ctl.held = "finish")
  <2>1. (IF ctl.held = "dispatch" THEN row.intents \ {"dispatch"} ELSE row.intents)
          \in SUBSET (Effects \ {"release"})
    BY <1>6
  <2> QED  BY <1>3, <1>9, <2>1 DEF Forward
<1> QED  BY <1>7, <1>8, <1>9

\* The release on to the target: adopt its runtime once the owner is recorded.
LEMMA ToTargetStep ==
  ASSUME HandoffInv, ReleaseToTarget
  PROVE  HandoffInv'
<1>0. /\ TypeOK /\ StepInPhase /\ ctl.at \in {"to_target", "adopt"} /\ ctl.held \in Pauses
      /\ Transferred /\ ~Ended /\ workspace.owner = "target"
      /\ UNCHANGED <<outside, late, crashes>>
  BY DEF HandoffInv, ReleaseToTarget, TypeOK, Controllers, StepInPhase, SourceGone
<1>1. CASE ctl.at = "to_target" /\ UNCHANGED <<worker, faults>>
           /\ Intend("target_session_stop")
  <2>1. /\ row' \in Rows /\ row'.phase = row.phase
        /\ ctl' \in Controllers /\ ctl'.at = "target_session_stop"
    BY <1>0, <1>1, IntendKeeps, EffectNames
  <2>2. StepInPhase' /\ ~Arrives' /\ faults' \in 0..MaxFaults /\ crashes' \in 0..MaxCrashes
    BY <1>0, <1>1, <2>1 DEF StepInPhase, Arrives, Transferred, Ended,
          POST_TRANSFER_PHASES, TypeOK
  <2> QED  BY <1>0, <1>1, <2>1, <2>2, QuietStep
<1>2. CASE ctl.at = "to_target" /\ UNCHANGED <<worker, faults>> /\ Goto("adopt")
           /\ row' = [row EXCEPT !.intents = @ \ {"target_session_stop"}]
  <2>1. ctl' \in Controllers /\ ctl'.at = "adopt" /\ ctl'.op = ctl.op
    BY <1>0, <1>2, GotoKeeps DEF Places
  <2>2. row' \in Rows /\ row'.phase = row.phase
    BY <1>0, <1>2 DEF TypeOK, Rows
  <2>3. StepInPhase' /\ ~Arrives' /\ faults' \in 0..MaxFaults /\ crashes' \in 0..MaxCrashes
    BY <1>0, <1>2, <2>1, <2>2 DEF StepInPhase, Arrives, Transferred, Ended,
          POST_TRANSFER_PHASES, TypeOK
  <2> QED  BY <1>0, <1>2, <2>1, <2>2, <2>3, QuietStep
<1>3. CASE /\ worker' = [worker EXCEPT !.runtime = "target"] /\ UNCHANGED faults
           /\ \/ /\ workspace.phase = "finished" /\ Goto("registry")
                 /\ row' = [row EXCEPT !.pause = ctl.held]
              \/ Goto("finish") /\ UNCHANGED row
  <2>1. /\ ctl' \in Controllers
        /\ \/ ctl'.at = "finish"
           \/ ctl'.at = "registry" /\ workspace.phase = "finished"
    BY <1>0, <1>3, GotoKeeps, EffectNames DEF Places
  <2>2. row' \in Rows /\ row'.phase = row.phase
    BY <1>0, <1>3 DEF TypeOK, Rows
  <2> QED  BY <1>0, <1>3, <2>1, <2>2 DEF HandoffInv, StepInPhase, SourceGone, HoldOwner,
        RuntimeFollows, ReturnsClosed, WriterOwns,
           Transferred, Stopped, Ended, POST_TRANSFER_PHASES, TypeOK, outside
<1>4. CASE Fault /\ Pause(ctl.held) /\ UNCHANGED worker
  <2>1. /\ row' \in Rows /\ row'.phase = row.phase
        /\ ctl' \in Controllers /\ ctl'.at = "idle"
    BY <1>0, <1>4, PauseKeeps
  <2>2. faults' \in 0..MaxFaults /\ crashes' \in 0..MaxCrashes
    BY <1>0, <1>4, FaultBound DEF TypeOK
  <2>3. StepInPhase' /\ ~Arrives'
    BY <1>0, <2>1 DEF StepInPhase, Arrives, Transferred, Ended, POST_TRANSFER_PHASES
  <2> QED  BY <1>0, <1>4, <2>1, <2>2, <2>3, QuietStep
<1> QED  BY <1>1, <1>2, <1>3, <1>4 DEF ReleaseToTarget

\* The other steps of a release.
LEMMA ReleaseSteps ==
  ASSUME HandoffInv, SettleBootstrap \/ ChooseSide \/ ReleaseRegistry
  PROVE  HandoffInv'
<1>0. /\ TypeOK /\ StepInPhase /\ ~Ended /\ ctl.held \in Pauses
      /\ UNCHANGED <<outside, late, faults, crashes>>
  BY DEF HandoffInv, SettleBootstrap, ChooseSide, ReleaseRegistry, StepInPhase,
         TypeOK, Controllers
<1>1. ASSUME row' \in Rows, row'.phase = row.phase, ctl' \in Controllers, UNCHANGED worker,
             \/ ctl'.at \in {"bootstrap_stop", "restore", "settled"}
             \/ ctl'.at = "to_target" /\ Transferred
             \/ ctl'.at = "release" /\ ~Transferred
      PROVE  HandoffInv'
  <2>1. StepInPhase' /\ ~Arrives' /\ faults' \in 0..MaxFaults /\ crashes' \in 0..MaxCrashes
    BY <1>0, <1>1 DEF StepInPhase, Arrives, Transferred, Ended, POST_TRANSFER_PHASES, TypeOK
  <2> QED  BY <1>0, <1>1, <2>1, QuietStep
<1>2. {"restore", "settled", "to_target", "release"} \subseteq Places
  BY EffectNames DEF Places
<1>3. CASE SettleBootstrap
  <2>1. CASE Intend("bootstrap_stop")
    BY <1>0, <1>1, <1>3, <2>1, IntendKeeps, EffectNames DEF SettleBootstrap
  <2>2. CASE row' = Settled("bootstrap_stop") /\ Goto("restore")
    <3>1. row' \in Rows /\ row'.phase = row.phase
      BY <1>0, <2>2, SettledRow, EffectNames
    <3> QED  BY <1>0, <1>1, <1>2, <1>3, <2>2, <3>1, GotoKeeps DEF SettleBootstrap
  <2>3. CASE row' = [row EXCEPT !.pause = ctl.held] /\ Goto("settled")
    <3>1. row' \in Rows /\ row'.phase = row.phase
      BY <1>0, <2>3 DEF TypeOK, Rows
    <3> QED  BY <1>0, <1>1, <1>2, <1>3, <2>3, <3>1, GotoKeeps DEF SettleBootstrap
  <2> QED  BY <1>3, <2>1, <2>2, <2>3 DEF SettleBootstrap
<1>4. CASE ChooseSide
  <2>1. CASE Transferred
    BY <1>0, <1>1, <1>2, <1>4, <2>1, GotoKeeps, LiftKeeps DEF ChooseSide, Transferred
  <2>2. CASE ~Transferred
    BY <1>0, <1>1, <1>2, <1>4, <2>2, GotoKeeps DEF ChooseSide, Transferred, TypeOK
  <2> QED  BY <2>1, <2>2
<1>5. CASE ReleaseRegistry
  <2>1. /\ row' \in Rows /\ row'.phase = "released"
        /\ ctl' \in Controllers /\ ctl'.at = "idle" /\ ctl'.op = "none"
    BY <1>0, <1>5, IdleController DEF ReleaseRegistry, TypeOK, Rows
  <2> QED  BY <1>0, <1>5, <2>1 DEF ReleaseRegistry, HandoffInv, StepInPhase, SourceGone,
        HoldOwner, RuntimeFollows, ReturnsClosed, WriterOwns,
           Transferred, Stopped, Ended, POST_TRANSFER_PHASES, TypeOK, outside
<1> QED  BY <1>3, <1>4, <1>5

-----------------------------------------------------------------------------
(***************************************************************************)
(* Effects, by a controller that waits for them or by a late call.         *)
(***************************************************************************)
\* Who may have an effect happen in this state.
Started(e) ==
  \/ ctl.at = e
  \/ e \in late
  \/ e = "grant" /\ row.phase = "claimed"

\* What an effect does to the hold and to the sessions.
LEMMA HoldAfter ==
  ASSUME TypeOK, NEW e \in Effects, Can(e), Happen(e)
  PROVE  /\ workspace' \in Holds
         /\ e \notin DOMAIN AcceptedIn => workspace' = workspace
         /\ e # "transfer" => workspace'.owner = workspace.owner
         /\ e = "transfer" =>
              /\ workspace.phase = "begun"
              /\ workspace'.phase = "transferred" /\ workspace'.owner = "target"
         /\ e = "grant" => workspace.owner = "source" /\ workspace'.phase = "granted"
         /\ e = "begin" => workspace.phase = "granted" /\ workspace'.phase = "begun"
         /\ e = "authorize" => workspace.phase = "begun" /\ workspace'.phase = "begun"
         /\ e = "finish" => workspace.phase = "transferred" /\ workspace'.phase = "finished"
         /\ e = "release" =>
              /\ workspace.phase # "transferred"
              /\ workspace'.phase = IF workspace.phase = "none" THEN "none" ELSE "finished"
<1>1. DOMAIN AcceptedIn = {"grant", "begin", "authorize", "transfer", "finish", "release"}
  BY DEF AcceptedIn
<1>2. CASE e \notin DOMAIN AcceptedIn
  BY <1>1, <1>2 DEF Happen, WorkspaceAfter, TypeOK
<1>3. CASE e \in DOMAIN AcceptedIn
  <2>1. Allows(e) /\ workspace' = WorkspaceAfter(e)
    BY <1>3 DEF Can, Happen
  <2>2. CASE e = "grant"
    BY <1>1, <2>1, <2>2 DEF Allows, WorkspaceAfter, TypeOK, Holds
  <2>3. CASE e = "begin"
    BY <1>1, <2>1, <2>3 DEF Allows, AcceptedIn, WorkspaceAfter, TypeOK, Holds
  <2>4. CASE e = "authorize"
    BY <1>1, <2>1, <2>4 DEF Allows, AcceptedIn, WorkspaceAfter, TypeOK, Holds
  <2>5. CASE e = "transfer"
    BY <1>1, <2>1, <2>5 DEF Allows, AcceptedIn, WorkspaceAfter, TypeOK, Holds
  <2>6. CASE e = "finish"
    BY <1>1, <2>1, <2>6 DEF Allows, AcceptedIn, WorkspaceAfter, TypeOK, Holds
  <2>7. CASE e = "release"
    BY <1>1, <2>1, <2>7 DEF Allows, AcceptedIn, WorkspaceAfter, TypeOK, Holds
  <2> QED  BY <1>1, <1>3, <2>2, <2>3, <2>4, <2>5, <2>6, <2>7
<1> QED  BY <1>2, <1>3

\* An effect ends or starts at most one session, and only its own.
LEMMA SessionsAfter ==
  ASSUME TypeOK, NEW e \in Effects, Can(e), Happen(e)
  PROVE  /\ live' \subseteq Sessions
         /\ "source" \in live' => "source" \in live /\ e # "stop"
         /\ "target" \in live' => "target" \in live \/ e = "resume"
         /\ e = "resume" => "target" \notin live
         /\ typed' \in Nat /\ signalled' \in BOOLEAN
<1>1. live' \subseteq Sessions /\ ("source" \in live' => "source" \in live /\ e # "stop")
  <2>1. \A s \in DOMAIN Starts : Starts[s] \in {"bootstrap", "target"}
    BY DEF Starts
  <2>2. "stop" \in DOMAIN Stops /\ Stops["stop"] = "source"
    BY DEF Stops
  <2>3. /\ live' \subseteq live \cup {"bootstrap", "target"}
        /\ "source" \in live' => "source" \notin {Stops[s] : s \in {e} \cap DOMAIN Stops}
    BY <2>1 DEF Happen
  <2> QED  BY <2>2, <2>3 DEF Sessions, TypeOK
<1>2. "target" \in live' => "target" \in live \/ e = "resume"
  BY DEF Happen, Stops, Starts
<1>3. e = "resume" => "target" \notin live
  BY DEF Can, Starts
<1>4. typed + 1 \in Nat
  BY DEF TypeOK
<1> QED  BY <1>1, <1>2, <1>3, <1>4 DEF Happen, TypeOK

\* The parts of the invariant that speak of the world survive every effect,
\* whoever waits for it.
LEMMA EffectLands ==
  ASSUME HandoffInv, NEW e \in Effects, Can(e), Happen(e), Started(e)
  PROVE  /\ workspace' \in Holds /\ live' \subseteq Sessions
         /\ typed' \in Nat /\ signalled' \in BOOLEAN
         /\ Stopped => "source" \notin live'
         /\ "transfer" \in late => "source" \notin live'
         /\ Transferred => workspace'.owner = "target"
         /\ worker.runtime = "target" => workspace'.owner = "target"
         /\ workspace'.phase \in {"none", "granted", "begun"} => workspace'.owner = "source"
         /\ workspace'.phase = "transferred" => workspace'.owner = "target"
         /\ workspace'.phase = "finished" /\ workspace'.owner = "target" =>
              Transferred \/ Ended
         /\ \A session \in live' \ {"bootstrap"} : session = workspace'.owner
         /\ workspace.phase \in {"none", "finished"} /\ e # "grant" =>
              workspace'.phase = workspace.phase /\ workspace'.owner = workspace.owner
         /\ e = "stop" => "source" \notin live'
         /\ e = "transfer" => workspace'.owner = "target" /\ "source" \notin live'
         /\ e = "finish" => workspace'.phase = "finished" /\ workspace'.owner = "target"
         /\ e = "release" => workspace'.phase \in {"none", "finished"}
<1>0. TypeOK /\ StepInPhase /\ SourceGone /\ HoldOwner /\ RuntimeFollows /\ WriterOwns
  BY DEF HandoffInv
<1>1. /\ workspace.phase \in {"none", "granted", "begun", "transferred", "finished"}
      /\ workspace.owner \in {"source", "target"}
      /\ late \subseteq {"begin", "transfer", "finish", "release"}
  BY <1>0 DEF TypeOK, Holds, WorkspaceCalls
<1>2. DOMAIN AcceptedIn = {"grant", "begin", "authorize", "transfer", "finish", "release"}
  BY DEF AcceptedIn
<1>3. e = "transfer" => "source" \notin live
  BY <1>0 DEF Started, StepInPhase, SourceGone, Stopped
<1>4. e = "resume" => workspace.owner = "target"
  BY <1>0, <1>1 DEF Started, StepInPhase, SourceGone, Transferred, POST_TRANSFER_PHASES
<1>5. e = "finish" => Transferred \/ Ended
  BY <1>0 DEF Started, StepInPhase, HoldOwner
<1>6. e = "finish" => workspace.owner = "target"
  BY <1>0, HoldAfter DEF HoldOwner
<1>7. \A session \in live' \ {"bootstrap"} : session = workspace'.owner
  <2>1. "source" \in live' => workspace'.owner = "source"
    BY <1>0, <1>3, HoldAfter, SessionsAfter DEF WriterOwns
  <2>2. "target" \in live' => workspace'.owner = "target"
    BY <1>0, <1>1, <1>4, HoldAfter, SessionsAfter DEF WriterOwns
  <2> QED  BY <1>0, <2>1, <2>2, SessionsAfter DEF Sessions
<1>8. /\ Stopped => "source" \notin live'
      /\ "transfer" \in late => "source" \notin live'
  BY <1>0, SessionsAfter DEF SourceGone
<1>9. /\ Transferred => workspace'.owner = "target"
      /\ worker.runtime = "target" => workspace'.owner = "target"
  BY <1>0, HoldAfter DEF SourceGone, RuntimeFollows
<1>10. CASE e \notin DOMAIN AcceptedIn
  BY <1>0, <1>2, <1>3, <1>5, <1>7, <1>8, <1>9, <1>10, HoldAfter, SessionsAfter DEF HoldOwner
<1>11. CASE e \in DOMAIN AcceptedIn
  BY <1>0, <1>1, <1>2, <1>3, <1>5, <1>6, <1>7, <1>8, <1>9, <1>11, HoldAfter,
        SessionsAfter DEF HoldOwner
<1> QED  BY <1>10, <1>11

\* An effect that leaves the phase alone.
LEMMA EffectStep ==
  ASSUME HandoffInv, NEW e \in Effects, Can(e), Happen(e), Started(e),
         UNCHANGED worker, late' \subseteq late,
         row' \in Rows, row'.phase = row.phase, ctl' \in Controllers, StepInPhase',
         faults' \in 0..MaxFaults, crashes' \in 0..MaxCrashes,
         ~Arrives' \/ (UNCHANGED ctl /\ e \in WorkspaceCalls)
  PROVE  HandoffInv'
<1>1. e = "grant" => ~Ended
  BY DEF HandoffInv, TypeOK, Started, StepInPhase, Ended, WorkspaceCalls
<1>2. TypeOK'
  BY EffectLands DEF HandoffInv, TypeOK
<1>3. SourceGone' /\ WriterOwns'
  BY EffectLands DEF SourceGone, WriterOwns, Stopped, Transferred
<1>4. HoldOwner' /\ RuntimeFollows'
  BY EffectLands DEF HandoffInv, HoldOwner, RuntimeFollows, Transferred, Ended, Arrives
<1>5. ReturnsClosed'
  BY <1>1, EffectLands DEF HandoffInv, ReturnsClosed, Ended, Arrives, WorkspaceCalls
<1> QED  BY <1>2, <1>3, <1>4, <1>5 DEF HandoffInv

\* A call that outlived its controller.
LEMMA LandStep ==
  ASSUME HandoffInv, NEW call \in WorkspaceCalls, Land(call)
  PROVE  HandoffInv'
<1>1. call \in Effects
  BY EffectNames DEF WorkspaceCalls
<1>2. Can(call) /\ Happen(call) /\ Started(call) /\ late' \subseteq late
  BY DEF Land, Started
<1>3. UNCHANGED <<worker, row, ctl, faults, crashes>>
  BY DEF Land
<1>4. /\ row' \in Rows /\ ctl' \in Controllers /\ StepInPhase'
      /\ faults' \in 0..MaxFaults /\ crashes' \in 0..MaxCrashes
  BY <1>3 DEF HandoffInv, TypeOK, StepInPhase, Transferred, Ended
<1> QED  BY <1>1, <1>2, <1>3, <1>4, EffectStep

\* A controller dies before, after or during its effect.
LEMMA CrashStep ==
  ASSUME HandoffInv, Crash
  PROVE  HandoffInv'
<1>0. /\ ctl' = Idle /\ ctl' \in Controllers /\ UNCHANGED <<worker, row, faults>>
      /\ row' \in Rows /\ faults' \in 0..MaxFaults
  BY IdleController DEF HandoffInv, TypeOK, Crash
<1>1. crashes' \in 0..MaxCrashes
  <2>1. crashes + 1 \in Nat /\ crashes + 1 <= MaxCrashes
    BY HandoffAssumption DEF HandoffInv, TypeOK, Crash
  <2> QED  BY <2>1, HandoffAssumption DEF Crash
<1>2. StepInPhase' /\ ~Arrives'
  BY <1>0, IdleController DEF StepInPhase, Arrives, Transferred, Ended, POST_TRANSFER_PHASES
<1>3. CASE ctl.at \in WorkspaceCalls
  <2>1. late' = late \cup {ctl.at} /\ UNCHANGED outside
    BY <1>3 DEF Crash
  <2>2. ctl.at = "transfer" => "source" \notin live
    BY DEF HandoffInv, StepInPhase, SourceGone, Stopped
  <2>3. ctl.at = "finish" => Transferred
    BY DEF HandoffInv, StepInPhase
  <2> QED
    BY <1>0, <1>1, <1>2, <1>3, <2>1, <2>2, <2>3
       DEF HandoffInv, SourceGone, HoldOwner, RuntimeFollows, ReturnsClosed, WriterOwns,
           Transferred, Stopped, Ended, TypeOK, outside, Arrives
<1>4. CASE ctl.at \notin WorkspaceCalls /\ UNCHANGED outside
  BY <1>0, <1>1, <1>2, <1>4, QuietStep DEF Crash
<1>5. CASE /\ ctl.at \notin WorkspaceCalls
           /\ ctl.at \in Effects /\ Can(ctl.at) /\ Happen(ctl.at)
  BY <1>0, <1>1, <1>2, <1>5, EffectStep DEF Crash, Started
<1> QED  BY <1>3, <1>4, <1>5 DEF Crash

\* A session ends by itself.
LEMMA ExitStep ==
  ASSUME HandoffInv, NEW session \in Sessions, ProcessExits(session)
  PROVE  HandoffInv'
BY DEF ProcessExits, HandoffInv, StepInPhase, SourceGone, HoldOwner, RuntimeFollows,
       ReturnsClosed, WriterOwns, Transferred, Stopped, Ended, TypeOK

\* An effect that was refused, or whose answer was lost.
LEMMA FailStep ==
  ASSUME HandoffInv, NEW e \in Effects, Fail(e)
  PROVE  HandoffInv'
<1>0. /\ TypeOK /\ ctl.held \in Pauses /\ ctl.at = e /\ ~Ended
      /\ UNCHANGED <<worker, late, crashes>>
  BY EffectNames DEF HandoffInv, TypeOK, Controllers, StepInPhase, Fail
<1>1. PICK reason \in Pauses :
        /\ \/ UNCHANGED <<outside, faults>>
           \/ Fault /\ UNCHANGED outside
           \/ Can(e) /\ Fault /\ Happen(e)
        /\ PauseBeforeTransfer(reason) \/ Pause(reason)
  <2>1. FailureReasons(e) \subseteq Pauses
    BY <1>0, EffectNames, PauseNames DEF FailureReasons
  <2>2. {"retry", "failed"} \subseteq Pauses /\ {ctl.held} \subseteq Pauses
    BY <1>0, PauseNames
  <2> QED  BY <2>1, <2>2 DEF Fail
<1>2. /\ row' \in Rows /\ row'.phase = row.phase
      /\ ctl' \in Controllers /\ ctl'.at \in {"idle", "cleanup"}
  BY <1>0, <1>1, PauseKeeps, BeforeTransferKeeps
<1>3. faults' \in 0..MaxFaults /\ crashes' \in 0..MaxCrashes
  BY <1>0, <1>1, FaultBound DEF TypeOK
<1>4. StepInPhase' /\ ~Arrives'
  BY <1>0, <1>2 DEF StepInPhase, Arrives, Transferred, Ended, POST_TRANSFER_PHASES
<1>5. CASE UNCHANGED outside
  BY <1>0, <1>2, <1>3, <1>4, <1>5, QuietStep
<1>6. CASE Can(e) /\ Happen(e)
  BY <1>0, <1>2, <1>3, <1>4, <1>6, EffectStep DEF Started
<1> QED  BY <1>1, <1>5, <1>6

\* Where a proved effect leads.
LEMMA Answers ==
  ASSUME TypeOK, NEW e \in Effects, Answered(e)
  PROVE  /\ row' \in Rows /\ ctl' \in Controllers
         /\ row'.phase = (CASE e = "stop" -> "source_stopped"
                            [] e = "bootstrap" -> "target_ready"
                            [] e = "transfer" -> "owner_transferred"
                            [] e = "dispatch" -> "continuation_dispatched"
                            [] OTHER -> row.phase)
         /\ \/ e = "resume" /\ ctl'.at = "register"
            \/ e = "release" /\ ctl'.at = "registry"
            \/ e = "finish" /\ ctl.op = "release" /\ ctl'.at = "registry"
            \/ e = "finish" /\ ctl.op # "release" /\ ctl'.at \in {"complete", "step"}
            \/ e = "target_session_stop" /\ ctl.op = "release" /\ ctl'.at = "adopt"
            \/ ctl'.at \in {"idle", "step", "restore"}
<1>0. /\ Settled(e) \in Rows /\ row \in Rows /\ ctl \in Controllers /\ ctl.held \in Pauses
      /\ {"register", "registry", "complete", "restore", "adopt", "step"} \subseteq Places
  BY SettledRow DEF TypeOK, Controllers, Places
<1>1. [Idle EXCEPT !.op = "reconcile", !.at = "step"] \in Controllers
  BY IdleController DEF Idle, Controllers, Operations, Places
<1>2. CASE e = "cleanup"
  <2>1. /\ row' = [Settled(e) EXCEPT !.pause =
                IF "retryable" \in row.proofs THEN "retry" ELSE "failed"]
        /\ ctl' = Idle
    BY <1>2 DEF Answered
  <2>2. Settled(e).phase = row.phase
    BY <1>2, SettledRow
  <2>3. row' \in Rows /\ row'.phase = row.phase
    BY <1>0, <2>1, <2>2, PauseNames DEF Rows
  <2> QED  BY <1>2, <2>1, <2>3, IdleController
<1>3. CASE e \in {"resume", "release"}
  BY <1>0, <1>3, GotoKeeps DEF Answered
<1>4. CASE e = "finish" /\ ctl.op \in {"release", "forward"}
  <2>1. CASE ctl.op = "release"
    <3>1. row' = [row EXCEPT !.pause = ctl.held] /\ Goto("registry")
      BY <1>4, <2>1 DEF Answered
    <3>2. row' \in Rows /\ row'.phase = row.phase
      BY <1>0, <3>1 DEF Rows
    <3> QED  BY <1>0, <1>4, <2>1, <3>1, <3>2, GotoKeeps
  <2>2. CASE ctl.op = "forward"
    <3>1. /\ row' = [row EXCEPT !.intents = @ \cup {"finish"}]
          /\ ctl' = [Idle EXCEPT !.op = "reconcile", !.at = "step"]
      BY <1>4, <2>2 DEF Answered
    <3>2. row' \in Rows /\ row'.phase = row.phase
      BY <1>0, <3>1, EffectNames DEF Rows
    <3> QED  BY <1>1, <1>4, <2>2, <3>1, <3>2 DEF Idle
  <2> QED  BY <1>4, <2>1, <2>2
<1>5. CASE e = "stale_resume_stop" /\ ctl.op = "forward"
  <2>1. row' = Settled(e) /\ ctl' = [Idle EXCEPT !.op = "reconcile", !.at = "step"]
    BY <1>5 DEF Answered
  <2> QED  BY <1>0, <1>1, <1>5, <2>1, SettledRow DEF Idle
<1>6. CASE /\ e \notin {"cleanup", "resume", "release"}
           /\ ~(e = "finish" /\ ctl.op \in {"release", "forward"})
           /\ ~(e = "stale_resume_stop" /\ ctl.op = "forward")
  <2> DEFINE next ==
        CASE e = "finish" -> "complete"
          [] ctl.op = "release" /\ e = "bootstrap_stop" -> "restore"
          [] e = "target_session_stop" /\ ctl.op = "release" -> "adopt"
          [] OTHER -> "step"
  <2>1. row' = Settled(e) /\ Goto(next)
    BY <1>6 DEF Answered
  <2>2. next \in Places
    BY <1>0
  <2>3. ctl' \in Controllers /\ ctl'.at = next
    BY <2>1, <2>2, GotoKeeps
  <2> QED  BY <1>0, <1>6, <2>1, <2>3, SettledRow
<1> QED  BY <1>2, <1>3, <1>4, <1>5, <1>6

\* An effect whose proof came back.
LEMMA SucceedStep ==
  ASSUME HandoffInv, NEW e \in Effects, Succeed(e)
  PROVE  HandoffInv'
<1>0. /\ TypeOK /\ ctl.at = e /\ ~Ended /\ Started(e) /\ Can(e) /\ Happen(e) /\ Answered(e)
      /\ UNCHANGED <<worker, late, faults, crashes>>
  BY EffectNames DEF HandoffInv, StepInPhase, Succeed, Started
<1>1. /\ worker.runtime \in {"source", "target"}
      /\ workspace'.owner \in {"source", "target"}
  BY <1>0, EffectLands DEF TypeOK, Holds
<1>2. TypeOK'
  BY <1>0, Answers, EffectLands DEF TypeOK
<1>3. StepInPhase'
  BY <1>0, Answers DEF HandoffInv, StepInPhase, Arrives, Transferred, Ended,
        POST_TRANSFER_PHASES
<1>4. SourceGone' /\ WriterOwns'
  BY <1>0, Answers, EffectLands
     DEF HandoffInv, StepInPhase, SourceGone, WriterOwns, Stopped, Transferred,
         POST_TRANSFER_PHASES
<1>5. HoldOwner'
  BY <1>0, Answers, EffectLands
     DEF HandoffInv, StepInPhase, HoldOwner, Transferred, Ended, POST_TRANSFER_PHASES
<1>6. RuntimeFollows'
  BY <1>0, Answers, EffectLands
     DEF HandoffInv, StepInPhase, RuntimeFollows, Transferred, Ended, POST_TRANSFER_PHASES
<1>7. ReturnsClosed'
  BY <1>0, <1>1, Answers, EffectLands
     DEF HandoffInv, StepInPhase, RuntimeFollows, ReturnsClosed, Transferred, Ended,
         POST_TRANSFER_PHASES
<1> QED  BY <1>2, <1>3, <1>4, <1>5, <1>6, <1>7 DEF HandoffInv

\* The phases in which an open intent is read back.
LEMMA DueInPhase ==
  ASSUME NEW e, FirstDue(e)
  PROVE  /\ e \notin {"release", "bootstrap", "dispatch"}
         /\ e \in {"grant", "begin", "stop"} => row.phase = "claimed"
         /\ e = "transfer" => row.phase = "pm_prepared"
         /\ e \in {"bootstrap_stop", "resume"} => row.phase = "owner_transferred"
         /\ e = "finish" => row.phase = "continuation_dispatched"
         /\ e \in Effects /\ row.phase \in OpenPhases
<1>1. PICK i \in 1..11 : e = ReadBack[i].intent /\ row.phase \in ReadBack[i].phases
  BY DEF FirstDue, Due, ReadBack
<1> QED  BY <1>1, EffectNames, PhaseNames DEF ReadBack

\* The readback of an open intent.
LEMMA ReadBackStep ==
  ASSUME HandoffInv, ReconcileIntent
  PROVE  HandoffInv'
<1>0. /\ TypeOK /\ ctl.at = "step" /\ ctl.op = "reconcile" /\ ~Ended
      /\ UNCHANGED <<worker, late, crashes>>
  BY DEF HandoffInv, StepInPhase, ReconcileIntent
<1>1. CASE Pause("uncertain") /\ UNCHANGED outside /\ (Fault \/ UNCHANGED faults)
  <2>1. /\ row' \in Rows /\ row'.phase = row.phase
        /\ ctl' \in Controllers /\ ctl'.at = "idle"
    BY <1>0, <1>1, PauseKeeps, PauseNames
  <2>2. faults' \in 0..MaxFaults /\ crashes' \in 0..MaxCrashes
    BY <1>0, <1>1, FaultBound DEF TypeOK
  <2>3. StepInPhase' /\ ~Arrives'
    BY <1>0, <2>1 DEF StepInPhase, Arrives, Transferred, Ended, POST_TRANSFER_PHASES
  <2> QED  BY <1>0, <1>1, <2>1, <2>2, <2>3, QuietStep
<1>2. ASSUME NEW e \in row.intents, FirstDue(e), Proven(e), Answered(e), UNCHANGED faults,
             IF e = "grant" THEN Happen(e) ELSE UNCHANGED outside
      PROVE  HandoffInv'
  <2>1. e \in Effects /\ e \notin {"release", "bootstrap", "dispatch"}
    BY <1>2, DueInPhase
  <2>2. faults' \in 0..MaxFaults /\ crashes' \in 0..MaxCrashes
    BY <1>0, <1>2 DEF TypeOK
  <2>3. StepInPhase'
    BY <1>0, <1>2, <2>1, Answers, DueInPhase DEF StepInPhase, Arrives, Transferred, Ended,
          POST_TRANSFER_PHASES
  <2>4. CASE e = "grant"
    <3>1. Can(e)
      BY <1>2, <2>4 DEF Can, Proven, Stops, Starts
    <3>2. Happen(e) /\ Started(e)
      BY <1>2, <2>4, DueInPhase DEF Started
    <3>3. row' \in Rows /\ row'.phase = row.phase /\ ctl' \in Controllers /\ ~Arrives'
      BY <1>0, <1>2, <2>1, <2>4, Answers DEF Arrives
    <3> QED  BY <1>0, <2>1, <2>2, <2>3, <3>1, <3>2, <3>3, EffectStep
  <2>5. CASE e # "grant"
    <3>1. UNCHANGED outside
      BY <1>2, <2>5
    <3>2. CASE e = "stop"
      <4>1. "source" \notin live
        BY <1>2, <3>2 DEF Proven, Stops
      <4>2. row' \in Rows /\ row'.phase = "source_stopped" /\ ctl' \in Controllers /\ ~Arrives'
        BY <1>0, <1>2, <2>1, <3>2, Answers DEF Arrives
      <4>3. row.phase = "claimed"
        BY <1>2, <3>2, DueInPhase
      <4> QED
        BY <1>0, <2>2, <2>3, <3>1, <4>1, <4>2, <4>3 DEF Arrives, HandoffInv, StepInPhase,
              SourceGone, HoldOwner, RuntimeFollows, ReturnsClosed, WriterOwns,
           Transferred, Stopped, Ended, POST_TRANSFER_PHASES, TypeOK, outside
    <3>3. CASE e = "transfer"
      <4>1. workspace.phase = "transferred"
        BY <1>2, <3>3 DEF Proven, Stops
      <4>2. row' \in Rows /\ row'.phase = "owner_transferred" /\ ctl' \in Controllers /\ ~Arrives'
        BY <1>0, <1>2, <2>1, <3>3, Answers DEF Arrives
      <4>3. row.phase = "pm_prepared"
        BY <1>2, <3>3, DueInPhase
      <4> QED
        BY <1>0, <2>2, <2>3, <3>1, <4>1, <4>2, <4>3 DEF Arrives, HandoffInv, StepInPhase,
              SourceGone, HoldOwner, RuntimeFollows, ReturnsClosed, WriterOwns,
           Transferred, Stopped, Ended, POST_TRANSFER_PHASES, TypeOK, outside
    <3>4. CASE e = "finish"
      <4>1. workspace.phase = "finished"
        BY <1>2, <3>4 DEF Proven, Stops
      <4>2. /\ row' \in Rows /\ row'.phase = row.phase /\ ctl' \in Controllers
            /\ ctl'.at \in {"complete", "step", "idle", "restore"}
        BY <1>0, <1>2, <2>1, <3>4, Answers
      <4> QED
        BY <1>0, <2>2, <2>3, <3>1, <4>1, <4>2 DEF HandoffInv, StepInPhase, SourceGone,
              HoldOwner, RuntimeFollows, ReturnsClosed, WriterOwns,
           Transferred, Stopped, Ended, POST_TRANSFER_PHASES, TypeOK, outside
    <3>5. CASE e \notin {"stop", "transfer", "finish"}
      <4>1. row' \in Rows /\ row'.phase = row.phase /\ ctl' \in Controllers /\ ~Arrives'
        BY <1>0, <1>2, <2>1, <3>5, Answers DEF Arrives
      <4> QED  BY <1>0, <2>2, <2>3, <3>1, <4>1, QuietStep
    <3> QED  BY <3>2, <3>3, <3>4, <3>5
  <2> QED  BY <2>4, <2>5
<1> QED  BY <1>1, <1>2 DEF ReconcileIntent

-----------------------------------------------------------------------------
(***************************************************************************)
(* The theorems.                                                           *)
(***************************************************************************)
\* The invariant holds when the registry has claimed the worker.
LEMMA HandoffInit == Init => HandoffInv
<1> SUFFICES ASSUME Init PROVE HandoffInv
  OBVIOUS
<1>1. TypeOK
  <2>1. row \in Rows
    BY PhaseNames, PauseNames DEF Init, Rows
  <2>2. ctl \in Controllers
    BY PauseNames DEF Init, Controllers, Operations, Places
  <2>3. workspace \in Holds /\ live \subseteq Sessions
    BY DEF Init, Holds, Sessions
  <2>4. faults \in 0..MaxFaults /\ crashes \in 0..MaxCrashes /\ typed \in Nat
    BY HandoffAssumption DEF Init
  <2> QED  BY <2>1, <2>2, <2>3, <2>4 DEF Init, TypeOK
<1> QED
  BY <1>1 DEF Init, HandoffInv, StepInPhase, SourceGone, HoldOwner, RuntimeFollows,
        ReturnsClosed, WriterOwns,
           Transferred, Stopped, Ended, POST_TRANSFER_PHASES

\* Every step of controller, operator and environment keeps the invariant.
LEMMA HandoffStep == HandoffInv /\ [Next]_vars => HandoffInv'
<1> SUFFICES ASSUME HandoffInv, [Next]_vars PROVE HandoffInv'
  OBVIOUS
<1>1. CASE Phase
  BY <1>1, SourceSteps, TransferSteps, TargetSteps, ReadBackStep DEF Phase
<1>2. CASE Daemon
  BY <1>2, DaemonSteps, ForwardStep DEF Daemon
<1>3. CASE Release
  BY <1>3, ReleaseSteps, ToTargetStep DEF Release
<1>4. CASE \E e \in Effects : Succeed(e) \/ Fail(e)
  BY <1>4, SucceedStep, FailStep
<1>5. CASE Abort
  BY <1>5, DaemonSteps
<1>6. CASE Crash
  BY <1>6, CrashStep
<1>7. CASE \E call \in WorkspaceCalls : Land(call)
  BY <1>7, LandStep
<1>8. CASE \E session \in Sessions : ProcessExits(session)
  BY <1>8, ExitStep
<1>9. CASE UNCHANGED vars
  BY <1>9 DEF vars, HandoffInv, StepInPhase, SourceGone, HoldOwner, RuntimeFollows,
              ReturnsClosed, WriterOwns, Transferred, Stopped, Ended, TypeOK
<1> QED  BY <1>1, <1>2, <1>3, <1>4, <1>5, <1>6, <1>7, <1>8, <1>9 DEF Next, Controller

\* The invariant holds in every reachable state.
LEMMA HandoffInvariant == Spec => []HandoffInv
<1>1. Init => HandoffInv
  BY HandoffInit
<1>2. HandoffInv /\ [Next]_vars => HandoffInv'
  BY HandoffStep
<1> QED  BY <1>1, <1>2, PTL DEF Spec

\* Types hold for any number of faults and crashes.
THEOREM TypeCorrect == Spec => []TypeOK
<1>1. HandoffInv => TypeOK
  BY DEF HandoffInv
<1> QED  BY <1>1, HandoffInvariant, PTL

\* Whoever runs in the worktree owns its assignment, so the source and the
\* target never write it together: no stop, transfer or resume that was lost,
\* late, repeated or left by a dead controller brings the other one in.
THEOREM OwnerWrites == Spec => []WriterOwns
<1>1. HandoffInv => WriterOwns
  BY DEF HandoffInv
<1> QED  BY <1>1, HandoffInvariant, PTL

-----------------------------------------------------------------------------
(***************************************************************************)
(* The protocol implements Handover.                                       *)
(***************************************************************************)
PromiseStep == [Promise!Next]_(Promise!vars)

\* A step that moves neither sessions, owner nor worker.
LEMMA Stutters ==
  ASSUME UNCHANGED <<worker, outside>>
  PROVE  PromiseStep
BY DEF PromiseStep, Promise!vars, outside

\* A session other than the bootstrap that ends, or the bootstrap.
LEMMA SessionEnds ==
  ASSUME TypeOK, NEW session \in Sessions, session \in live,
         live' = live \ {session}, workspace'.owner = workspace.owner, UNCHANGED worker
  PROVE  PromiseStep
<1>1. CASE session = "bootstrap"
  BY <1>1 DEF PromiseStep, Promise!vars
<1>2. CASE session \in {"source", "target"}
  <2>1. Promise!Exit(session)
    BY <1>2 DEF Promise!Exit
  <2> QED  BY <1>2, <2>1 DEF PromiseStep, Promise!Next
<1> QED  BY <1>1, <1>2 DEF Sessions

\* An effect moves the owner while nobody writes, starts the new owner, ends a
\* session, or touches nothing the promise speaks of.
LEMMA EffectKeepsPromise ==
  ASSUME HandoffInv, NEW e \in Effects, Can(e), Happen(e), Started(e), UNCHANGED worker
  PROVE  PromiseStep
<1>0. /\ TypeOK /\ live \subseteq Sessions
      /\ worker.status \in {"handoff_pending", "running"}
      /\ workspace.phase \in {"none", "granted", "begun", "transferred", "finished"}
  BY DEF HandoffInv, TypeOK, Holds
<1>1. CASE e = "transfer"
  <2>1. workspace.owner = "source" /\ workspace'.owner = "target" /\ ~Ended
    BY <1>0, <1>1, HoldAfter DEF HandoffInv, HoldOwner, ReturnsClosed
  <2>2. "source" \notin live
    BY <1>1 DEF Started, HandoffInv, StepInPhase, SourceGone, Stopped
  <2>3. live \ {"bootstrap"} = {} /\ live' = live
    BY <1>0, <1>1, <2>1, <2>2 DEF HandoffInv, WriterOwns, Happen, Sessions, Stops, Starts
  <2>4. Promise!MoveOwner
    BY <1>0, <2>1, <2>3 DEF Promise!MoveOwner, Promise!Open, HandoffInv, ReturnsClosed
  <2> QED  BY <2>4 DEF PromiseStep, Promise!Next
<1>2. CASE e = "resume"
  <2>1. ctl.at = "resume" /\ "target" \notin live
    BY <1>0, <1>2 DEF Started, TypeOK, WorkspaceCalls, Can, Starts
  <2>2. Transferred /\ ~Ended
    BY <2>1 DEF HandoffInv, StepInPhase, Transferred, POST_TRANSFER_PHASES
  <2>3. workspace.owner = "target" /\ workspace' = workspace
    BY <1>2, <2>2, HoldAfter, <1>0 DEF HandoffInv, SourceGone, AcceptedIn
  <2>4. live \ {"bootstrap"} = {}
    BY <1>0, <2>1, <2>3 DEF HandoffInv, WriterOwns, Sessions
  <2>5. live' = live \cup {"target"}
    BY <1>2 DEF Happen, Stops, Starts
  <2>6. live' \ {"bootstrap"} = {"target"}
    BY <2>4, <2>5
  <2>7. Promise!StartTarget
    BY <1>0, <2>2, <2>3, <2>4, <2>6
       DEF Promise!StartTarget, Promise!Open, HandoffInv, ReturnsClosed
  <2> QED  BY <2>7 DEF PromiseStep, Promise!Next
<1>3. CASE e \in DOMAIN Stops
  <2>1. Stops[e] \in live /\ Stops[e] \in Sessions
    BY <1>0, <1>3 DEF Can
  <2>2. e \notin DOMAIN Starts /\ e \notin DOMAIN AcceptedIn
    BY <1>3 DEF Stops, Starts, AcceptedIn
  <2>3. live' = live \ {Stops[e]} /\ workspace' = workspace
    BY <1>0, <1>3, <2>2, HoldAfter DEF Happen
  <2> QED  BY <1>0, <2>1, <2>3, SessionEnds
<1>4. CASE e \notin DOMAIN Stops /\ e \notin {"transfer", "resume"}
  <2>1. live' \ {"bootstrap"} = live \ {"bootstrap"}
    <3>1. \A s \in {e} \cap DOMAIN Starts : Starts[s] = "bootstrap"
      BY <1>4 DEF Starts
    <3>2. {Stops[s] : s \in {e} \cap DOMAIN Stops} = {}
      BY <1>4
    <3> QED  BY <3>1, <3>2 DEF Happen
  <2>2. workspace'.owner = workspace.owner
    BY <1>0, <1>4, HoldAfter
  <2> QED  BY <2>1, <2>2 DEF PromiseStep, Promise!vars
<1> QED  BY <1>1, <1>2, <1>3, <1>4

\* The worker takes the target's runtime after the owner moved, and returns
\* with the runtime of its owner.
LEMMA WorkerKeepsPromise ==
  ASSUME HandoffInv, RegisterTarget \/ ReleaseToTarget \/ Complete \/ ReleaseRegistry
  PROVE  PromiseStep
<1>0. /\ UNCHANGED outside /\ ~Ended /\ worker.status \in {"handoff_pending", "running"}
      /\ worker.status = "handoff_pending"
      /\ workspace.owner' = workspace.owner
  BY DEF HandoffInv, StepInPhase, ReturnsClosed, TypeOK, RegisterTarget, ReleaseToTarget,
         Complete, ReleaseRegistry, outside
<1>1. CASE UNCHANGED worker
  BY <1>0, <1>1, Stutters
<1>2. CASE worker' = [worker EXCEPT !.runtime = "target"] /\ Transferred
  <2>1. workspace.owner = "target"
    BY <1>2 DEF HandoffInv, SourceGone
  <2>2. Promise!AdoptTarget
    BY <1>0, <1>2, <2>1 DEF Promise!AdoptTarget, Promise!Open, outside
  <2> QED  BY <2>2 DEF PromiseStep, Promise!Next
<1>3. CASE worker' = [worker EXCEPT !.status = "running"] /\ worker.runtime = workspace.owner
  <2>1. Promise!Return
    BY <1>0, <1>3 DEF Promise!Return, Promise!Open, outside
  <2> QED  BY <2>1 DEF PromiseStep, Promise!Next
<1>4. CASE RegisterTarget \/ ReleaseToTarget
  BY <1>1, <1>2, <1>4
     DEF RegisterTarget, ReleaseToTarget, HandoffInv, StepInPhase, Transferred,
         POST_TRANSFER_PHASES
<1>5. CASE Complete \/ ReleaseRegistry
  BY <1>3, <1>5
     DEF Complete, ReleaseRegistry, HandoffInv, RuntimeFollows, ReturnsClosed
<1> QED  BY <1>4, <1>5

\* Every step of the protocol is a step of Handover, or none.
LEMMA StepKeepsPromise == HandoffInv /\ [Next]_vars => PromiseStep
<1> SUFFICES ASSUME HandoffInv, [Next]_vars PROVE PromiseStep
  OBVIOUS
<1>1. CASE Phase
  <2>1. CASE RegisterTarget \/ Complete
    BY <2>1, WorkerKeepsPromise
  <2>2. CASE ReconcileIntent
    <3>1. CASE UNCHANGED outside
      BY <2>2, <3>1, Stutters DEF ReconcileIntent
    <3>2. CASE /\ Happen("grant") /\ FirstDue("grant") /\ Proven("grant")
      <4>1. Can("grant") /\ Started("grant") /\ "grant" \in Effects
        BY <3>2, DueInPhase, EffectNames DEF Can, Proven, Stops, Starts, Started
      <4> QED  BY <2>2, <3>2, <4>1, EffectKeepsPromise DEF ReconcileIntent
    <3> QED  BY <2>2, <3>1, <3>2 DEF ReconcileIntent
  <2> QED
    BY <1>1, <2>1, <2>2, Stutters
       DEF Phase, BeginSourceHold, RecordTarget, StopSource, StartTarget, PreparePm,
           TransferOwner, ResumeTarget, Dispatch, Finish
<1>2. CASE Daemon \/ Abort
  BY <1>2, Stutters
     DEF Daemon, Reconcile, RetrySetup, ReleasePaused, RetryForward, Forward,
         SettleLandedTransfer, Preserve, Abort
<1>3. CASE Release
  BY <1>3, Stutters, WorkerKeepsPromise DEF Release, SettleBootstrap, ChooseSide
<1>4. ASSUME NEW e \in Effects, Succeed(e) \/ Fail(e)
      PROVE  PromiseStep
  <2>1. CASE UNCHANGED outside
    BY <1>4, <2>1, Stutters DEF Succeed, Fail
  <2>2. CASE Can(e) /\ Happen(e)
    BY <1>4, <2>2, EffectKeepsPromise DEF Succeed, Fail, Started
  <2> QED  BY <1>4, <2>1, <2>2 DEF Succeed, Fail
<1>5. CASE Crash
  <2>1. CASE UNCHANGED outside
    BY <1>5, <2>1, Stutters DEF Crash
  <2>2. CASE ctl.at \in Effects /\ Can(ctl.at) /\ Happen(ctl.at)
    BY <1>5, <2>2, EffectKeepsPromise DEF Crash, Started
  <2> QED  BY <1>5, <2>1, <2>2 DEF Crash
<1>6. ASSUME NEW call \in WorkspaceCalls, Land(call)
      PROVE  PromiseStep
  <2>1. call \in Effects
    BY EffectNames DEF WorkspaceCalls
  <2> QED  BY <1>6, <2>1, EffectKeepsPromise DEF Land, Started
<1>7. ASSUME NEW session \in Sessions, ProcessExits(session)
      PROVE  PromiseStep
  BY <1>7, SessionEnds DEF ProcessExits, HandoffInv
<1>8. CASE UNCHANGED vars
  BY <1>8, Stutters DEF vars, outside
<1> QED  BY <1>1, <1>2, <1>3, <1>4, <1>5, <1>6, <1>7, <1>8 DEF Next, Controller

\* The commander's protocol implements the promise of Handover: the owner
\* moves once and while nobody writes, and nothing moves after the return.
THEOREM KeepsThePromise == Spec => HandoverKept
<1>1. Init => Promise!Init
  BY DEF Init, Promise!Init
<1>2. HandoffInv /\ [Next]_vars => [Promise!Next]_(Promise!vars)
  BY StepKeepsPromise DEF PromiseStep
<1> QED
  BY <1>1, <1>2, HandoffInvariant, PTL DEF Spec, HandoverKept, Promise!Spec

-----------------------------------------------------------------------------
(***************************************************************************)
(* How a hand-off ends, for any number of faults and crashes: no read-only *)
(* bootstrap is left behind, the hold is closed and the worker runs as the *)
(* owner of its worktree; the continuation is typed once, as long as tmux  *)
(* refuses the keys before it types them; and a release that does not ask  *)
(* for the stop boundary returns a source that nobody signalled.           *)
(*                                                                         *)
(* The bootstrap: a proof of its stop is recorded before anything resumes  *)
(* or returns, and after that proof nothing starts it again, because the   *)
(* only step that would, finds the unsettled intent of the first start.    *)
(* The continuation: once typed, its intent stays until it is settled, so  *)
(* that no controller finds the dispatch to do; only a refusal that the    *)
(* registry knows to have typed nothing takes the intent back.             *)
(* The source: the intent of its stop is recorded before the signal and    *)
(* is not taken back before the phase has moved.                           *)
(***************************************************************************)

Gone == "bootstrap" \notin live

\* The stop of the bootstrap is under way or done, or there is one to stop.
Stopping ==
  \/ "bootstrap_stop" \in row.intents \cup row.proofs
  \/ "bootstrap" \in live
  \/ ctl.at \in {"unheld", "restore", "bootstrap_stop"}

\* The steps on which the worker is about to return.
Returning == {"restore", "settled", "to_target", "target_session_stop", "adopt",
              "finish", "release", "registry", "complete"}

BootstrapInPhase ==
  /\ row.phase = "claimed" => ~Stopping
  /\ row.phase = "source_stopped" /\ Stopping => "bootstrap" \in row.intents
  /\ ctl.at = "bootstrap" =>
       "bootstrap_stop" \notin row.proofs /\ "bootstrap" \in row.intents

BootstrapGone ==
  /\ "bootstrap_stop" \in row.proofs => Gone
  /\ ctl.at \in Returning => Gone
  /\ Ended => Gone

ResumeFollows ==
  \/ "resume" \in row.intents
  \/ ctl.at \in {"resume", "register", "registered"}
  \/ row.phase \in {"runtime_registered", "continuation_dispatched"}
  => "bootstrap_stop" \in row.proofs

EndInv == BootstrapInPhase /\ BootstrapGone /\ ResumeFollows

\* Steps after which the bootstrap stands as before.
QuietPlaces == Places \ (Returning \cup {"unheld", "bootstrap_stop", "bootstrap",
                                         "resume", "register", "registered"})

-----------------------------------------------------------------------------
(***************************************************************************)
(* The bootstrap.                                                          *)
(***************************************************************************)
\* A step that starts nothing, stays in its phase, and records nothing of the
\* bootstrap or of the resume, keeps the invariant.
LEMMA QuietForBootstrap ==
  ASSUME EndInv, Gone => Gone', row'.phase = row.phase,
         "bootstrap_stop" \in row'.intents => "bootstrap_stop" \in row.intents,
         "resume" \in row'.intents => "resume" \in row.intents,
         "bootstrap" \in row.intents => "bootstrap" \in row'.intents,
         "bootstrap_stop" \in row'.proofs <=> "bootstrap_stop" \in row.proofs,
         \/ ctl'.at = ctl.at \/ ctl'.at \in QuietPlaces
         \/ ctl'.at \in Returning /\ ctl'.at # "restore" /\ Gone
  PROVE  EndInv'
BY DEF EndInv, BootstrapInPhase, BootstrapGone, ResumeFollows, Stopping, Gone, Ended,
       Returning, QuietPlaces

\* A pause, with or without the stop of the bootstrap before it.
LEMMA PauseForBootstrap ==
  ASSUME HandoffInv, EndInv, Gone => Gone', NEW reason,
         Pause(reason) \/ PauseBeforeTransfer(reason)
  PROVE  EndInv'
<1>1. row \in Rows /\ ctl \in Controllers
  BY DEF HandoffInv, TypeOK
<1>2. {"idle", "cleanup"} \subseteq QuietPlaces
  BY EffectNames DEF QuietPlaces, Places, Returning
<1>3. ASSUME NEW why, Pause(why)  PROVE EndInv'
  <2>1. row'.phase = row.phase /\ row'.intents = row.intents /\ row'.proofs = row.proofs
    BY <1>1, <1>3 DEF Pause, Rows
  <2>2. ctl'.at = "idle"
    BY <1>3 DEF Pause, Idle
  <2> QED  BY <1>2, <2>1, <2>2, QuietForBootstrap
<1>4. CASE PauseBeforeTransfer(reason) /\ workspace.phase = "begun" /\ ~workspace.target
  <2>1. /\ row' = [row EXCEPT !.intents = @ \cup {"cleanup"},
              !.proofs = IF reason = "retry" THEN @ \cup {"retryable"} ELSE @]
        /\ ctl' = [ctl EXCEPT !.at = "cleanup"]
    BY <1>4 DEF PauseBeforeTransfer, Goto
  <2>2. /\ row'.phase = row.phase /\ row'.intents = row.intents \cup {"cleanup"}
        /\ "bootstrap_stop" \in row'.proofs <=> "bootstrap_stop" \in row.proofs
        /\ ctl'.at = "cleanup"
    BY <1>1, <2>1 DEF Rows, Controllers
  <2> QED  BY <1>2, <2>2, QuietForBootstrap
<1> QED  BY <1>3, <1>4 DEF PauseBeforeTransfer

\* The steps of the phases.
LEMMA PhaseKeepsBootstrap ==
  ASSUME HandoffInv, EndInv,
         \/ BeginSourceHold("setup") \/ BeginSourceHold("reconcile")
         \/ RecordTarget \/ StopSource \/ StartTarget \/ PreparePm \/ TransferOwner
         \/ ResumeTarget \/ RegisterTarget \/ Dispatch \/ Finish \/ Complete
  PROVE  EndInv'
<1>0. /\ row \in Rows /\ ctl \in Controllers /\ live' = live /\ (Gone => Gone')
      /\ {"grant", "begin", "stop", "authorize", "transfer", "step", "dispatch"}
           \subseteq QuietPlaces
  BY EffectNames
     DEF HandoffInv, TypeOK, outside, Gone, QuietPlaces, Places, Returning, BeginSourceHold,
         RecordTarget, StopSource, StartTarget, PreparePm, TransferOwner, ResumeTarget,
         RegisterTarget, Dispatch, Finish, Complete
<1>1. ASSUME NEW e \in {"grant", "begin", "stop", "authorize", "transfer", "dispatch"},
             Intend(e)
      PROVE  EndInv'
  <2>1. /\ row'.phase = row.phase /\ row'.intents = row.intents \cup {e}
        /\ row'.proofs = row.proofs /\ ctl'.at = e
    BY <1>0, <1>1 DEF Intend, Goto, Rows, Controllers
  <2> QED  BY <1>0, <1>1, <2>1, QuietForBootstrap
<1>2. ASSUME NEW op \in {"setup", "reconcile"}, BeginSourceHold(op)  PROVE EndInv'
  BY <1>1, <1>2 DEF BeginSourceHold
<1>3. CASE RecordTarget
  <2>1. CASE /\ row' = [row EXCEPT !.proofs = @ \cup {"target_client"}]
             /\ ctl' = [ctl EXCEPT !.op = "reconcile"]
    <3>1. /\ row'.phase = row.phase /\ row'.intents = row.intents
          /\ row'.proofs = row.proofs \cup {"target_client"} /\ ctl'.at = ctl.at
      BY <1>0, <2>1 DEF Rows, Controllers
    <3> QED  BY <1>0, <3>1, QuietForBootstrap
  <2> QED  BY <1>0, <1>3, <2>1, PauseForBootstrap DEF RecordTarget, CheckFails
<1>4. CASE StopSource
  BY <1>0, <1>1, <1>4, PauseForBootstrap DEF StopSource, CheckFails
<1>5. CASE StartTarget
  <2>1. row.phase = "source_stopped" /\ row.intents = {} /\ ctl.at = "step"
    BY <1>5 DEF StartTarget, Step
  <2>2. /\ row'.phase = row.phase /\ row'.intents = {"bootstrap"}
        /\ row'.proofs = row.proofs /\ ctl'.at = "bootstrap"
    BY <1>0, <1>5, <2>1 DEF StartTarget, Intend, Goto, Rows, Controllers
  <2>3. ~Stopping
    BY <2>1 DEF EndInv, BootstrapInPhase
  <2> QED
    BY <1>0, <2>1, <2>2, <2>3
       DEF EndInv, BootstrapInPhase, BootstrapGone, ResumeFollows, Stopping, Gone, Ended,
           Returning
<1>6. CASE PreparePm
  <2>1. CASE row' = [row EXCEPT !.phase = "pm_prepared"] /\ UNCHANGED ctl
    <3>1. /\ row'.phase = "pm_prepared" /\ row'.intents = row.intents
          /\ row'.proofs = row.proofs
      BY <1>0, <2>1 DEF Rows
    <3> QED
      BY <1>0, <2>1, <3>1
         DEF EndInv, BootstrapInPhase, BootstrapGone, ResumeFollows, Stopping, Gone, Ended
  <2> QED  BY <1>0, <1>6, <2>1, PauseForBootstrap DEF PreparePm
<1>7. CASE TransferOwner
  BY <1>0, <1>1, <1>7, PauseForBootstrap DEF TransferOwner
<1>8. CASE ResumeTarget
  <2> DEFINE e == IF "bootstrap_stop" \in row.proofs THEN "resume" ELSE "bootstrap_stop"
  <2>1. /\ row.phase = "owner_transferred" /\ row'.phase = row.phase
        /\ row'.intents = row.intents \cup {e}
        /\ row'.proofs = row.proofs /\ ctl'.at = e
    BY <1>0, <1>8 DEF ResumeTarget, Step, Intend, Goto, Rows, Controllers
  <2> QED
    BY <1>0, <2>1
       DEF EndInv, BootstrapInPhase, BootstrapGone, ResumeFollows, Stopping, Gone, Ended,
           Returning
<1>9. CASE RegisterTarget
  <2>1. CASE ctl.at = "register" /\ Goto("registered") /\ UNCHANGED row
    <3>1. ctl'.at = "registered"
      BY <1>0, <2>1 DEF Goto, Controllers
    <3>2. row.phase = "owner_transferred"
      BY <2>1 DEF HandoffInv, StepInPhase
    <3> QED
      BY <1>0, <2>1, <3>1, <3>2
         DEF EndInv, BootstrapInPhase, BootstrapGone, ResumeFollows, Stopping, Gone, Ended,
             Returning
  <2>2. CASE ctl.at = "registered" /\ row' = Settled("resume") /\ Goto("step")
    <3>1. ctl'.at = "step" /\ row'.proofs = row.proofs /\ row'.intents = row.intents \ {"resume"}
      BY <1>0, <2>2 DEF Goto, Controllers, Settled, Proofs, Rows
    <3>2. row'.phase = "runtime_registered" /\ "bootstrap_stop" \in row.proofs
      BY <2>2, SettledRow, EffectNames DEF EndInv, ResumeFollows, HandoffInv
    <3> QED
      BY <1>0, <2>2, <3>1, <3>2
         DEF EndInv, BootstrapInPhase, BootstrapGone, ResumeFollows, Stopping, Gone, Ended,
             Returning
  <2> QED  BY <1>9, <2>1, <2>2 DEF RegisterTarget
<1>10. CASE Dispatch
  BY <1>0, <1>1, <1>10, PauseForBootstrap DEF Dispatch
<1>11. CASE Finish
  <2>1. /\ row.phase = "continuation_dispatched" /\ row'.phase = row.phase
        /\ row'.intents = row.intents \cup {"finish"}
        /\ row'.proofs = row.proofs /\ ctl'.at = "finish"
    BY <1>0, <1>11 DEF Finish, Step, Intend, Goto, Rows, Controllers
  <2>2. Gone
    BY <2>1 DEF EndInv, ResumeFollows, BootstrapGone
  <2> QED  BY <1>0, <2>1, <2>2, QuietForBootstrap DEF Returning
<1>12. CASE Complete
  <2>1. /\ row'.phase = "completed" /\ row'.intents = row.intents
        /\ row'.proofs = row.proofs /\ ctl'.at = "idle"
    BY <1>0, <1>12 DEF Complete, Rows, Idle
  <2>2. Gone /\ row.phase \notin {"completed", "released"}
    BY <1>12 DEF Complete, EndInv, BootstrapGone, Returning, HandoffInv, StepInPhase, Ended
  <2>3. "resume" \in row.intents => "bootstrap_stop" \in row.proofs
    BY DEF EndInv, ResumeFollows
  <2> QED
    BY <1>0, <2>1, <2>2, <2>3
       DEF EndInv, BootstrapInPhase, BootstrapGone, ResumeFollows, Stopping, Gone, Ended,
           Returning
<1> QED  BY <1>2, <1>3, <1>4, <1>5, <1>6, <1>7, <1>8, <1>9, <1>10, <1>11, <1>12

\* What the daemon starts, and the operator's abort.
LEMMA DaemonKeepsBootstrap ==
  ASSUME HandoffInv, EndInv,
         \/ Reconcile \/ RetrySetup \/ ReleasePaused \/ RetryForward
         \/ SettleLandedTransfer \/ Preserve \/ Abort
  PROVE  EndInv'
<1>0. /\ row \in Rows /\ ctl \in Controllers /\ live' = live /\ (Gone => Gone')
      /\ {"idle", "step", "forward"} \subseteq QuietPlaces
  BY EffectNames
     DEF HandoffInv, TypeOK, outside, Gone, QuietPlaces, Places, Returning, Reconcile,
         RetrySetup, ReleasePaused, RetryForward, SettleLandedTransfer, Preserve, Abort
<1>1. ASSUME Lift \/ UNCHANGED row
      PROVE  row'.phase = row.phase /\ row'.intents = row.intents /\ row'.proofs = row.proofs
  BY <1>0, <1>1 DEF Lift, Rows
<1>2. ASSUME Lift \/ UNCHANGED row, ctl'.at \in {"step", "forward"}
      PROVE  EndInv'
  BY <1>0, <1>1, <1>2, QuietForBootstrap
<1>3. ASSUME Lift \/ UNCHANGED row, ctl'.at \in {"release", "settled"}, Gone
      PROVE  EndInv'
  BY <1>0, <1>1, <1>3, QuietForBootstrap DEF Returning
<1>4. ASSUME Paused, row.phase = "pm_prepared", AdvanceLanded
      PROVE  EndInv'
  <2>1. /\ row'.phase = "owner_transferred" /\ row'.intents = row.intents \ {"transfer"}
        /\ row'.proofs = row.proofs /\ ctl'.at = ctl.at
    BY <1>0, <1>4 DEF AdvanceLanded, Rows
  <2> QED
    BY <1>0, <1>4, <2>1
       DEF EndInv, BootstrapInPhase, BootstrapGone, ResumeFollows, Stopping, Gone, Ended
<1>5. CASE Reconcile \/ RetryForward
  BY <1>2, <1>5 DEF Reconcile, RetryForward, Run
<1>6. CASE RetrySetup
  BY <1>2, <1>6 DEF RetrySetup, Idle
<1>7. CASE ReleasePaused
  <2>1. Gone
    BY <1>7 DEF ReleasePaused, StopStarted, EndInv, BootstrapInPhase, Stopping, Gone
  <2> QED  BY <1>3, <1>7, <2>1 DEF ReleasePaused, Run
<1>8. CASE SettleLandedTransfer
  BY <1>4, <1>8 DEF SettleLandedTransfer, Landed
<1>9. CASE Preserve
  <2>1. CASE Landed
    BY <1>4, <1>9, <2>1 DEF Preserve, Landed
  <2> DEFINE stops == \/ "bootstrap" \in live
                      \/ BootstrapRecorded /\ "bootstrap_stop" \notin row.proofs
  <2>2. CASE ~Landed /\ stops
    <3>0. Lift /\ Run("release", "unheld") /\ ctl = Idle
      BY <1>9, <2>2 DEF Preserve, Paused
    <3>1. row'.phase = row.phase /\ row'.intents = row.intents /\ row'.proofs = row.proofs
      BY <1>1, <3>0
    <3>2. ctl'.at = "unheld" /\ ctl.at = "idle"
      BY <3>0 DEF Run, Idle
    <3>3. "bootstrap" \in live => row.phase \in TargetPhases \/ Stopping
      BY DEF EndInv, BootstrapInPhase, Stopping, TargetPhases
    <3>4. BootstrapRecorded => row.phase \in TargetPhases \/ Stopping
      BY DEF BootstrapRecorded, Stopping
    <3>5. row.phase \in TargetPhases \/ Stopping
      BY <2>2, <3>3, <3>4
    <3> HIDE DEF stops
    <3> QED
      BY <1>0, <3>1, <3>2, <3>5
         DEF EndInv, BootstrapInPhase, BootstrapGone, ResumeFollows, Stopping, Gone, Ended,
             Returning, TargetPhases, POST_TRANSFER_PHASES
  <2>3. CASE ~Landed /\ ~stops
    <3>1. Run("release", "settled") /\ UNCHANGED row /\ "bootstrap" \notin live
      BY <1>9, <2>3 DEF Preserve
    <3> QED  BY <1>3, <3>1 DEF Run, Gone
  <2> QED  BY <2>1, <2>2, <2>3
<1>10. CASE Abort
  BY <1>3, <1>4, <1>10 DEF Abort, Landed, Run, Gone
<1> QED  BY <1>5, <1>6, <1>7, <1>8, <1>9, <1>10

\* The retry after the stop of the source.
LEMMA ForwardKeepsBootstrap ==
  ASSUME HandoffInv, EndInv, Forward
  PROVE  EndInv'
<1>0. /\ row \in Rows /\ ctl \in Controllers /\ (Gone => Gone')
      /\ {"step", "stale_resume_stop"} \subseteq QuietPlaces
  BY EffectNames
     DEF HandoffInv, TypeOK, outside, Gone, QuietPlaces, Places, Returning, Forward
<1>1. ASSUME NEW intents, row' = [row EXCEPT !.intents = intents],
             ctl'.at \in {"step", "stale_resume_stop"},
             intents \ {"finish", "stale_resume_stop"} \subseteq row.intents,
             row.intents \ {"stale_resume_stop", "resume", "dispatch"} \subseteq intents
      PROVE  EndInv'
  <2>1. row'.phase = row.phase /\ row'.intents = intents /\ row'.proofs = row.proofs
    BY <1>0, <1>1 DEF Rows
  <2> QED  BY <1>0, <1>1, <2>1, QuietForBootstrap
<1>2. ASSUME NEW intents, row' = [row EXCEPT !.intents = intents],
             ctl' = [Idle EXCEPT !.op = "reconcile", !.at = "step"],
             intents \ {"finish"} \subseteq row.intents,
             row.intents \ {"stale_resume_stop", "resume", "dispatch"} \subseteq intents
      PROVE  EndInv'
  BY <1>1, <1>2 DEF Idle
<1>3. CASE Intend("stale_resume_stop")
  BY <1>0, <1>1, <1>3 DEF Intend, Goto, Controllers
<1>4. CASE row.phase = "continuation_dispatched" /\ Goto("finish") /\ UNCHANGED row
  <2>1. Gone /\ ctl'.at = "finish"
    BY <1>0, <1>4 DEF EndInv, ResumeFollows, BootstrapGone, Goto, Controllers
  <2> QED  BY <1>0, <1>4, <2>1, QuietForBootstrap DEF Returning
<1>5. CASE Pause(ctl.held)
  BY <1>0, <1>5, PauseForBootstrap
<1>6. CASE row.phase = "owner_transferred" /\ "resume" \in row.intents
  <2>1. ASSUME row' = [row EXCEPT !.intents = row.intents \
                 (IF "target" \in live THEN {"stale_resume_stop"}
                                       ELSE {"stale_resume_stop", "resume"})],
               ctl' = [Idle EXCEPT !.op = "reconcile", !.at = "step"]
        PROVE  EndInv'
    BY <1>2, <2>1
  <2> QED  BY <1>3, <1>5, <1>6, <2>1 DEF Forward
<1>7. CASE /\ ~(row.phase = "owner_transferred" /\ "resume" \in row.intents)
           /\ row.phase = "continuation_dispatched" /\ ctl.held = "finish"
  <2>1. ASSUME row' = [row EXCEPT !.intents = row.intents \cup {"finish"}],
               ctl' = [Idle EXCEPT !.op = "reconcile", !.at = "step"]
        PROVE  EndInv'
    BY <1>2, <2>1
  <2> QED  BY <1>4, <1>5, <1>7, <2>1 DEF Forward
<1>8. CASE /\ ~(row.phase = "owner_transferred" /\ "resume" \in row.intents)
           /\ ~(row.phase = "continuation_dispatched" /\ ctl.held = "finish")
  <2>1. ASSUME row' = [row EXCEPT !.intents =
                 IF ctl.held = "dispatch" THEN row.intents \ {"dispatch"} ELSE row.intents],
               ctl' = [Idle EXCEPT !.op = "reconcile", !.at = "step"]
        PROVE  EndInv'
    BY <1>2, <2>1
  <2> QED  BY <1>8, <2>1 DEF Forward
<1> QED  BY <1>6, <1>7, <1>8

\* A release, from the stop of the bootstrap to the return of the worker.
LEMMA ReleaseKeepsBootstrap ==
  ASSUME HandoffInv, EndInv, SettleBootstrap \/ ChooseSide \/ ReleaseToTarget \/ ReleaseRegistry
  PROVE  EndInv'
<1>0. row \in Rows /\ ctl \in Controllers /\ live' = live /\ (Gone => Gone')
  BY DEF HandoffInv, TypeOK, outside, Gone, SettleBootstrap, ChooseSide, ReleaseToTarget,
         ReleaseRegistry
<1>1. ASSUME NEW place \in Returning \ {"restore"}, Gone,
             Goto(place), row'.phase = row.phase, row'.proofs = row.proofs,
             row'.intents \in {row.intents, row.intents \ {"target_session_stop"},
                               row.intents \cup {"target_session_stop"}}
      PROVE  EndInv'
  <2>1. ctl'.at = place
    BY <1>0, <1>1 DEF Goto, Controllers
  <2> QED  BY <1>0, <1>1, <2>1, QuietForBootstrap
<1>2. CASE SettleBootstrap
  <2>1. CASE ctl.at = "unheld" /\ Intend("bootstrap_stop")
    <3>1. /\ row'.phase = row.phase /\ row'.intents = row.intents \cup {"bootstrap_stop"}
          /\ row'.proofs = row.proofs /\ ctl'.at = "bootstrap_stop"
      BY <1>0, <2>1 DEF Intend, Goto, Rows, Controllers
    <3> QED
      BY <1>0, <2>1, <3>1
         DEF EndInv, BootstrapInPhase, BootstrapGone, ResumeFollows, Stopping, Gone, Ended,
             Returning
  <2>2. CASE ctl.at = "unheld" /\ "bootstrap" \notin live
             /\ row' = Settled("bootstrap_stop") /\ Goto("restore")
    <3>1. row'.proofs = row.proofs \cup {"bootstrap_stop"}
          /\ row'.intents = row.intents \ {"bootstrap_stop"} /\ ctl'.at = "restore"
      BY <1>0, <2>2 DEF Settled, Proofs, Goto, Rows, Controllers
    <3>2. row'.phase = row.phase
      BY <2>2, SettledRow, EffectNames DEF HandoffInv
    <3> QED
      BY <1>0, <2>2, <3>1, <3>2
         DEF EndInv, BootstrapInPhase, BootstrapGone, ResumeFollows, Stopping, Gone, Ended
  <2>3. CASE ctl.at = "restore" /\ row' = [row EXCEPT !.pause = ctl.held] /\ Goto("settled")
    <3>1. row'.phase = row.phase /\ row'.intents = row.intents /\ row'.proofs = row.proofs
      BY <1>0, <2>3 DEF Rows
    <3>2. Gone /\ "settled" \in Returning \ {"restore"}
      BY <2>3 DEF EndInv, BootstrapGone, Returning
    <3> QED  BY <1>1, <2>3, <3>1, <3>2
  <2> QED  BY <1>2, <2>1, <2>2, <2>3 DEF SettleBootstrap
<1>3. CASE ChooseSide
  <2>1. Gone /\ {"to_target", "release"} \subseteq Returning \ {"restore"}
    BY <1>3 DEF ChooseSide, EndInv, BootstrapGone, Returning
  <2>2. row'.phase = row.phase /\ row'.intents = row.intents /\ row'.proofs = row.proofs
    BY <1>0, <1>3 DEF ChooseSide, Lift, Rows
  <2> QED  BY <1>1, <1>3, <2>1, <2>2 DEF ChooseSide
<1>4. CASE ReleaseToTarget
  <2>1. Gone /\ {"target_session_stop", "adopt", "registry", "finish"}
                   \subseteq Returning \ {"restore"}
    BY <1>4 DEF ReleaseToTarget, EndInv, BootstrapGone, Returning
  <2>2. CASE Intend("target_session_stop")
    <3>1. /\ row'.phase = row.phase /\ row'.proofs = row.proofs
          /\ row'.intents = row.intents \cup {"target_session_stop"}
      BY <1>0, <2>2 DEF Intend, Rows
    <3> QED  BY <1>1, <2>1, <2>2, <3>1 DEF Intend
  <2>3. CASE row' = [row EXCEPT !.intents = @ \ {"target_session_stop"}] /\ Goto("adopt")
    <3>1. /\ row'.phase = row.phase /\ row'.proofs = row.proofs
          /\ row'.intents = row.intents \ {"target_session_stop"}
      BY <1>0, <2>3 DEF Rows
    <3> QED  BY <1>1, <2>1, <2>3, <3>1
  <2>4. CASE \/ row' = [row EXCEPT !.pause = ctl.held] /\ Goto("registry")
             \/ Goto("finish") /\ UNCHANGED row
    <3>1. row'.phase = row.phase /\ row'.intents = row.intents /\ row'.proofs = row.proofs
      BY <1>0, <2>4 DEF Rows
    <3> QED  BY <1>1, <2>1, <2>4, <3>1
  <2>5. CASE Pause(ctl.held)
    BY <1>0, <2>5, PauseForBootstrap
  <2> QED  BY <1>4, <2>2, <2>3, <2>4, <2>5 DEF ReleaseToTarget
<1>5. CASE ReleaseRegistry
  <2>1. /\ row'.phase = "released" /\ row'.intents = row.intents
        /\ row'.proofs = row.proofs /\ ctl'.at = "idle"
    BY <1>0, <1>5 DEF ReleaseRegistry, Rows, Idle
  <2>2. Gone
    BY <1>5 DEF ReleaseRegistry, EndInv, BootstrapGone, Returning
  <2> QED
    BY <1>0, <2>1, <2>2
       DEF EndInv, BootstrapInPhase, BootstrapGone, ResumeFollows, Stopping, Gone, Ended,
           Returning
<1> QED  BY <1>2, <1>3, <1>4, <1>5

\* What a proof that came back, or was read back, does to the row.
LEMMA AnswerForBootstrap ==
  ASSUME HandoffInv, EndInv, NEW e \in Effects, Answered(e),
         e # "bootstrap" => (Gone => Gone'),
         e = "bootstrap" => ctl.at = e,
         e = "stop" => row.phase = "claimed",
         e = "transfer" => row.phase = "pm_prepared",
         e = "dispatch" => row.phase = "runtime_registered",
         e \in {"finish", "release"} => Gone,
         e = "target_session_stop" => Gone \/ ctl.op # "release",
         e = "resume" => "bootstrap_stop" \in row.proofs,
         e = "bootstrap_stop" => Gone' /\ Stopping
  PROVE  EndInv'
<1>0. /\ row \in Rows /\ ctl \in Controllers
      /\ {"idle", "step"} \subseteq QuietPlaces
  BY EffectNames DEF HandoffInv, TypeOK, QuietPlaces, Places, Returning
<1> DEFINE settled == IF e = "stale_resume_stop" THEN {e, "resume"} ELSE {e}
<1>1. /\ Settled(e).intents = row.intents \ settled
      /\ Settled(e).proofs = row.proofs \cup ({e} \cap Proofs)
  BY <1>0 DEF Settled, Rows
<1>2. /\ row' \in Rows
      /\ row'.phase = (CASE e = "stop" -> "source_stopped"
                         [] e = "bootstrap" -> "target_ready"
                         [] e = "transfer" -> "owner_transferred"
                         [] e = "dispatch" -> "continuation_dispatched"
                         [] OTHER -> row.phase)
  BY Answers DEF HandoffInv
<1>3. CASE e = "cleanup"
  <2>1. /\ row'.intents = row.intents \ settled
        /\ row'.proofs = row.proofs \cup ({e} \cap Proofs)
    BY <1>0, <1>1, <1>3 DEF Answered, Settled, Rows
  <2>2. ctl'.at = "idle"
    BY <1>3 DEF Answered, Idle
  <2> QED  BY <1>0, <1>2, <1>3, <2>1, <2>2, QuietForBootstrap DEF Proofs
<1>4. CASE e \in {"resume", "release"}
  <2>1. row' = row /\ ctl'.at = IF e = "resume" THEN "register" ELSE "registry"
    BY <1>0, <1>4 DEF Answered, Goto, Controllers
  <2> QED
    BY <1>0, <1>4, <2>1
       DEF EndInv, BootstrapInPhase, BootstrapGone, ResumeFollows, Stopping, Gone, Ended,
           Returning
<1>5. CASE e = "finish" /\ ctl.op \in {"release", "forward"}
  <2>1. /\ row'.phase = row.phase /\ row'.intents \in {row.intents, row.intents \cup {"finish"}}
        /\ row'.proofs = row.proofs
    BY <1>0, <1>5 DEF Answered, Rows
  <2>2. ctl'.at \in {"registry", "step"}
    BY <1>0, <1>5 DEF Answered, Goto, Controllers, Idle
  <2> QED  BY <1>0, <1>5, <2>1, <2>2, QuietForBootstrap DEF Returning
<1>6. CASE e = "stale_resume_stop" /\ ctl.op = "forward"
  <2>1. row' = Settled(e) /\ ctl'.at = "step"
    BY <1>6 DEF Answered, Idle
  <2> QED  BY <1>0, <1>1, <1>2, <1>6, <2>1, QuietForBootstrap DEF Proofs
<1>7. CASE /\ e \notin {"cleanup", "resume", "release"}
           /\ ~(e = "finish" /\ ctl.op \in {"release", "forward"})
           /\ ~(e = "stale_resume_stop" /\ ctl.op = "forward")
  <2> DEFINE next ==
        CASE e = "finish" -> "complete"
          [] ctl.op = "release" /\ e = "bootstrap_stop" -> "restore"
          [] e = "target_session_stop" /\ ctl.op = "release" -> "adopt"
          [] OTHER -> "step"
  <2>1. row' = Settled(e) /\ Goto(next)
    BY <1>7 DEF Answered
  <2>2. ctl'.at = next
    BY <1>0, <2>1 DEF Goto, Controllers
  <2>3. row'.intents = row.intents \ settled /\ row'.proofs = row.proofs \cup ({e} \cap Proofs)
    BY <1>1, <2>1
  <2>4. CASE e = "bootstrap"
    <3>1. /\ row'.phase = "target_ready" /\ "bootstrap_stop" \notin row'.proofs
          /\ "resume" \notin row'.intents /\ ctl'.at = "step"
      BY <1>2, <2>2, <2>3, <2>4 DEF Proofs, EndInv, BootstrapInPhase, ResumeFollows
    <3> QED
      BY <3>1 DEF EndInv, BootstrapInPhase, BootstrapGone, ResumeFollows, Ended, Returning
  <2>5. CASE e = "bootstrap_stop"
    <3>1. /\ row'.phase = row.phase /\ row'.proofs = row.proofs \cup {"bootstrap_stop"}
          /\ row'.intents = row.intents \ {"bootstrap_stop"}
      BY <1>2, <2>3, <2>5 DEF Proofs
    <3>2. ctl'.at \in {"restore", "step"}
      BY <2>2, <2>5
    <3> QED
      BY <2>5, <3>1, <3>2
         DEF EndInv, BootstrapInPhase, BootstrapGone, ResumeFollows, Stopping, Gone, Ended
  <2>6. CASE e = "dispatch"
    <3>1. /\ row'.phase = "continuation_dispatched" /\ row'.proofs = row.proofs
          /\ row'.intents = row.intents \ {e} /\ ctl'.at = "step"
      BY <1>2, <2>2, <2>3, <2>6 DEF Proofs
    <3> QED
      BY <2>6, <3>1
         DEF EndInv, BootstrapInPhase, BootstrapGone, ResumeFollows, Stopping, Gone, Ended,
             Returning
  <2>7. CASE e \in {"stop", "transfer"}
    <3>1. /\ row'.phase \in {"source_stopped", "owner_transferred"} /\ row'.proofs = row.proofs
          /\ e = "transfer" => row'.phase = "owner_transferred"
          /\ row'.intents = row.intents \ {e} /\ ctl'.at = "step"
      BY <1>2, <2>2, <2>3, <2>7 DEF Proofs
    <3> QED
      BY <2>7, <3>1
         DEF EndInv, BootstrapInPhase, BootstrapGone, ResumeFollows, Stopping, Gone, Ended,
             Returning
  <2>8. CASE e \notin {"bootstrap", "bootstrap_stop", "dispatch", "stop", "transfer"}
    <3>1. /\ row'.phase = row.phase
          /\ "bootstrap_stop" \in row'.proofs <=> "bootstrap_stop" \in row.proofs
      BY <1>2, <2>3, <2>8
    <3>2. ctl'.at = "step" \/ (ctl'.at \in {"complete", "adopt"} /\ Gone)
      BY <2>2, <2>8
    <3> QED  BY <1>0, <1>7, <2>3, <2>8, <3>1, <3>2, QuietForBootstrap DEF Returning
  <2> QED  BY <2>4, <2>5, <2>6, <2>7, <2>8
<1> QED  BY <1>3, <1>4, <1>5, <1>6, <1>7

\* What an effect does to the bootstrap.
LEMMA BootstrapAfter ==
  ASSUME NEW e \in Effects, Happen(e)
  PROVE  /\ e # "bootstrap" => (Gone => Gone')
         /\ e = "bootstrap_stop" => Gone'
<1>1. /\ DOMAIN Stops = {"stop", "cleanup", "bootstrap_stop", "stale_resume_stop",
                         "target_session_stop"}
      /\ DOMAIN Starts = {"bootstrap", "resume"}
      /\ Stops["bootstrap_stop"] = "bootstrap" /\ Starts["resume"] = "target"
  BY DEF Stops, Starts
<1> QED  BY <1>1 DEF Happen, Gone

\* An effect whose proof came back.
LEMMA SucceedKeepsBootstrap ==
  ASSUME HandoffInv, EndInv, NEW e \in Effects, Succeed(e)
  PROVE  EndInv'
<1>1. ctl.at = e /\ Happen(e) /\ Answered(e)
  BY DEF Succeed
<1>2. /\ e = "stop" => row.phase = "claimed"
      /\ e = "transfer" => row.phase = "pm_prepared"
      /\ e = "dispatch" => row.phase = "runtime_registered"
  BY <1>1 DEF HandoffInv, StepInPhase
<1>3. /\ e \in {"finish", "release", "target_session_stop"} => Gone
      /\ e = "resume" => "bootstrap_stop" \in row.proofs
      /\ e = "bootstrap_stop" => Stopping
  BY <1>1 DEF EndInv, BootstrapGone, ResumeFollows, Stopping, Returning
<1> QED  BY <1>1, <1>2, <1>3, BootstrapAfter, AnswerForBootstrap

\* An effect that was refused, or whose answer was lost.
LEMMA LostKeepsBootstrap ==
  ASSUME HandoffInv, EndInv, NEW e \in Effects, ctl.at = e, Happen(e),
         row'.phase = row.phase, row'.intents \in {row.intents, row.intents \cup {"cleanup"}},
         "bootstrap_stop" \in row'.proofs <=> "bootstrap_stop" \in row.proofs,
         ctl'.at \in {"idle", "cleanup"}
  PROVE  EndInv'
<1>1. CASE e = "bootstrap"
  <2>1. row.phase = "source_stopped" /\ "bootstrap_stop" \notin row.proofs
        /\ "bootstrap" \in row.intents
    BY <1>1 DEF HandoffInv, StepInPhase, EndInv, BootstrapInPhase
  <2> QED
    BY <1>1, <2>1
       DEF EndInv, BootstrapInPhase, BootstrapGone, ResumeFollows, Stopping, Gone, Ended,
           Returning
<1>2. CASE e # "bootstrap"
  <2>1. {"idle", "cleanup"} \subseteq QuietPlaces
    BY EffectNames DEF QuietPlaces, Places, Returning
  <2> QED  BY <1>2, <2>1, BootstrapAfter, QuietForBootstrap
<1> QED  BY <1>1, <1>2

\* A failure pauses, whether the effect happened or not.
LEMMA FailKeepsBootstrap ==
  ASSUME HandoffInv, EndInv, NEW e \in Effects, Fail(e)
  PROVE  EndInv'
<1>0. row \in Rows /\ ctl \in Controllers /\ ctl.at = e
  BY DEF HandoffInv, TypeOK, Fail
<1>1. PICK reason : /\ UNCHANGED outside \/ Happen(e)
                    /\ PauseBeforeTransfer(reason) \/ Pause(reason)
  BY DEF Fail
<1>2. CASE UNCHANGED outside
  BY <1>1, <1>2, PauseForBootstrap DEF outside, Gone
<1>3. CASE Happen(e)
  <2>1. ASSUME NEW why, Pause(why)
        PROVE  /\ row'.phase = row.phase /\ row'.intents = row.intents
               /\ row'.proofs = row.proofs /\ ctl'.at = "idle"
    BY <1>0, <2>1 DEF Pause, Rows, Idle
  <2>2. ASSUME row' = [row EXCEPT
                 !.intents = @ \cup {"cleanup"},
                 !.proofs = IF reason = "retry" THEN @ \cup {"retryable"} ELSE @],
               ctl' = [ctl EXCEPT !.at = "cleanup"]
        PROVE  /\ row'.phase = row.phase /\ row'.intents = row.intents \cup {"cleanup"}
               /\ "bootstrap_stop" \in row'.proofs <=> "bootstrap_stop" \in row.proofs
               /\ ctl'.at = "cleanup"
    BY <1>0, <2>2 DEF Rows, Controllers
  <2>3. CASE Pause(reason)
    BY <1>0, <1>3, <2>1, <2>3, LostKeepsBootstrap
  <2>4. CASE PauseBeforeTransfer(reason)
    BY <1>0, <1>3, <2>1, <2>2, <2>4, LostKeepsBootstrap DEF PauseBeforeTransfer, Goto
  <2> QED  BY <1>1, <2>3, <2>4
<1> QED  BY <1>1, <1>2, <1>3

\* The readback of an open intent.
LEMMA ReadBackKeepsBootstrap ==
  ASSUME HandoffInv, EndInv, ReconcileIntent
  PROVE  EndInv'
<1>1. CASE Pause("uncertain") /\ UNCHANGED outside
  BY <1>1, PauseForBootstrap DEF outside, Gone
<1>2. ASSUME NEW e \in row.intents, FirstDue(e), Proven(e), Answered(e),
             IF e = "grant" THEN Happen(e) ELSE UNCHANGED outside, ctl.op = "reconcile"
      PROVE  EndInv'
  <2>1. /\ e \in Effects /\ e \notin {"release", "bootstrap", "dispatch"}
        /\ e = "stop" => row.phase = "claimed"
        /\ e = "transfer" => row.phase = "pm_prepared"
        /\ e = "finish" => row.phase = "continuation_dispatched"
    BY <1>2, DueInPhase
  <2>2. Gone => Gone'
    BY <1>2, <2>1, BootstrapAfter DEF outside, Gone
  <2>3. e = "finish" => Gone
    BY <2>1 DEF EndInv, ResumeFollows, BootstrapGone
  <2>4. e = "resume" => "bootstrap_stop" \in row.proofs
    BY <1>2 DEF EndInv, ResumeFollows
  <2>5. e = "bootstrap_stop" => Gone' /\ Stopping
    <3>1. "bootstrap_stop" \in DOMAIN Stops /\ Stops["bootstrap_stop"] = "bootstrap"
      BY DEF Stops
    <3> QED  BY <1>2, <3>1 DEF Proven, outside, Gone, Stopping
  <2> QED  BY <1>2, <2>1, <2>2, <2>3, <2>4, <2>5, AnswerForBootstrap
<1> QED  BY <1>1, <1>2 DEF ReconcileIntent

\* Crashes, late calls and exits.
LEMMA OutsideKeepsBootstrap ==
  ASSUME HandoffInv, EndInv,
         \/ Crash \/ \E call \in WorkspaceCalls : Land(call)
         \/ \E session \in Sessions : ProcessExits(session)
  PROVE  EndInv'
<1>0. ctl.at \in Effects => "idle" \in QuietPlaces
  BY EffectNames DEF QuietPlaces, Places, Returning
<1>1. "idle" \in QuietPlaces
  BY EffectNames DEF QuietPlaces, Places, Returning
<1>2. CASE Crash
  <2>1. UNCHANGED row /\ ctl'.at = "idle"
    BY <1>2 DEF Crash, Idle
  <2>2. CASE UNCHANGED outside
    BY <1>1, <2>1, <2>2, QuietForBootstrap DEF outside, Gone
  <2>3. CASE ctl.at \in Effects /\ Happen(ctl.at)
    BY <2>1, <2>3, LostKeepsBootstrap
  <2> QED  BY <1>2, <2>2, <2>3 DEF Crash
<1>3. ASSUME NEW call \in WorkspaceCalls, Land(call)  PROVE EndInv'
  <2>1. call \in Effects /\ call # "bootstrap"
    BY EffectNames DEF WorkspaceCalls
  <2>2. Happen(call) /\ UNCHANGED <<row, ctl>>
    BY <1>3 DEF Land
  <2> QED  BY <2>1, <2>2, BootstrapAfter, QuietForBootstrap
<1>4. ASSUME NEW session \in Sessions, ProcessExits(session)  PROVE EndInv'
  BY <1>4, QuietForBootstrap DEF ProcessExits, Gone
<1> QED  BY <1>2, <1>3, <1>4

\* The bootstrap at every step.
LEMMA EndStep == HandoffInv /\ EndInv /\ [Next]_vars => EndInv'
<1> SUFFICES ASSUME HandoffInv, EndInv, [Next]_vars PROVE EndInv'
  OBVIOUS
<1>1. CASE Phase
  BY <1>1, PhaseKeepsBootstrap, ReadBackKeepsBootstrap DEF Phase
<1>2. CASE Daemon \/ Abort
  BY <1>2, DaemonKeepsBootstrap, ForwardKeepsBootstrap DEF Daemon
<1>3. CASE Release
  BY <1>3, ReleaseKeepsBootstrap DEF Release
<1>4. CASE \E e \in Effects : Succeed(e) \/ Fail(e)
  BY <1>4, SucceedKeepsBootstrap, FailKeepsBootstrap
<1>5. CASE \/ Crash \/ \E call \in WorkspaceCalls : Land(call)
           \/ \E session \in Sessions : ProcessExits(session)
  BY <1>5, OutsideKeepsBootstrap
<1>6. CASE UNCHANGED vars
  BY <1>6, QuietForBootstrap DEF vars, Gone
<1> QED  BY <1>1, <1>2, <1>3, <1>4, <1>5, <1>6 DEF Next, Controller

\* A hand-off that ended leaves a running worker whose runtime owns the
\* worktree, a closed hold and no bootstrap, whatever failed, got lost or died
\* on the way, and whichever side it returned to.
THEOREM EndsCleanly == Spec => []EndedCleanly
<1>1. Init => EndInv
  BY DEF Init, EndInv, BootstrapInPhase, BootstrapGone, ResumeFollows, Stopping, Gone, Ended,
         Returning
<1>2. HandoffInv /\ EndInv => EndedCleanly
  <2> SUFFICES ASSUME HandoffInv, EndInv, Ended
               PROVE  /\ worker = [status |-> "running", runtime |-> workspace.owner]
                      /\ workspace.phase \in {"none", "finished"}
                      /\ "bootstrap" \notin live
    BY DEF EndedCleanly
  <2>1. worker.status = "running" /\ worker.runtime = workspace.owner
        /\ workspace.phase \in {"none", "finished"}
    BY DEF HandoffInv, ReturnsClosed
  <2>2. worker = [status |-> "running", runtime |-> workspace.owner]
    BY <2>1 DEF HandoffInv, TypeOK
  <2> QED  BY <2>1, <2>2 DEF EndInv, BootstrapGone, Gone
<1> QED  BY <1>1, <1>2, EndStep, HandoffInvariant, PTL DEF Spec

-----------------------------------------------------------------------------
(***************************************************************************)
(* The continuation.                                                       *)
(***************************************************************************)
\* While a phase is driven forward the pause is lifted, and only a retry or a
\* release remembers one.
PauseLifted ==
  /\ ctl.op \in {"setup", "reconcile", "forward"} => row.pause = "none"
  /\ ctl.op \in {"setup", "reconcile"} => ctl.held = "none"
  /\ ctl.op = "forward" => ctl.at \in {"forward", "stale_resume_stop", "finish"}
  /\ ctl.at = "dispatch" => ctl.op = "reconcile"

\* The pause that replays the dispatch says that nothing was typed; once typed,
\* the intent stays until the phase has moved.
TypedIsKnown ==
  /\ row.pause = "dispatch" \/ ctl.held = "dispatch" => typed = 0
  /\ typed # 0 => \/ row.phase = "runtime_registered" /\ "dispatch" \in row.intents
                  \/ row.phase = "continuation_dispatched" \/ Ended
  /\ ctl.at = "dispatch" => typed = 0 /\ "dispatch" \in row.intents
  /\ typed <= 1

ContinueInv == PauseLifted /\ TypedIsKnown

\* A step that does not forget what was typed.
Remembers ==
  typed' = typed /\ (typed # 0 =>
    \/ row'.phase = row.phase /\ ("dispatch" \in row.intents => "dispatch" \in row'.intents)
    \/ row'.phase \in {"continuation_dispatched", "completed", "released"})

\* The controller ends its operation.
LEMMA StopsForContinue ==
  ASSUME ContinueInv, Remembers, ctl' = Idle, row'.pause = "dispatch" => typed = 0
  PROVE  ContinueInv'
<1>1. ctl'.op = "none" /\ ctl'.at = "idle" /\ ctl'.held = "none"
  BY DEF Idle
<1> QED  BY <1>1 DEF ContinueInv, PauseLifted, TypedIsKnown, Remembers, Ended

\* The controller goes on in its operation, and restores the pause or does not.
LEMMA MovesForContinue ==
  ASSUME ctl \in Controllers, ContinueInv, Remembers, NEW place, Goto(place),
         place # "dispatch",
         ctl.op = "forward" =>
           place \in {"forward", "stale_resume_stop", "finish"} /\ row'.pause = row.pause,
         row'.pause \in {row.pause, "none", ctl.held}
  PROVE  ContinueInv'
<1>1. ctl'.op = ctl.op /\ ctl'.at = place /\ ctl'.held = ctl.held
  BY DEF Goto, Controllers
<1> QED  BY <1>1 DEF ContinueInv, PauseLifted, TypedIsKnown, Remembers, Ended

\* A phase is driven forward, with the pause lifted.
LEMMA TurnsForContinue ==
  ASSUME ContinueInv, Remembers, row'.pause = "none", NEW op \in {"setup", "reconcile"},
         ctl' = [Idle EXCEPT !.op = op, !.at = "step"]
  PROVE  ContinueInv'
<1>1. ctl'.op = op /\ ctl'.at = "step" /\ ctl'.held = "none"
  BY DEF Idle
<1> QED  BY <1>1 DEF ContinueInv, PauseLifted, TypedIsKnown, Remembers, Ended

\* A pause, with or without the stop of the bootstrap before it.
LEMMA PauseForContinue ==
  ASSUME HandoffInv, ContinueInv, typed' = typed, NEW reason,
         reason = "dispatch" => typed = 0,
         Pause(reason) \/ (PauseBeforeTransfer(reason) /\ ctl.op # "forward")
  PROVE  ContinueInv'
<1>1. row \in Rows /\ ctl \in Controllers
  BY DEF HandoffInv, TypeOK
<1>2. ASSUME NEW why, Pause(why), why = "dispatch" => typed = 0
      PROVE  ContinueInv'
  <2>1. /\ row'.phase = row.phase /\ row'.intents = row.intents /\ row'.pause = why
        /\ ctl' = Idle
    BY <1>1, <1>2 DEF Pause, Rows
  <2> QED  BY <1>2, <2>1, StopsForContinue DEF Remembers
<1>3. CASE PauseBeforeTransfer(reason) /\ workspace.phase = "begun" /\ ~workspace.target
           /\ ctl.op # "forward"
  <2>1. /\ row' = [row EXCEPT !.intents = @ \cup {"cleanup"},
              !.proofs = IF reason = "retry" THEN @ \cup {"retryable"} ELSE @]
        /\ Goto("cleanup")
    BY <1>3 DEF PauseBeforeTransfer
  <2>2. /\ row'.phase = row.phase /\ row'.intents = row.intents \cup {"cleanup"}
        /\ row'.pause = row.pause
    BY <1>1, <2>1 DEF Rows
  <2> QED  BY <1>1, <1>3, <2>1, <2>2, MovesForContinue DEF Remembers
<1>4. PauseBeforeTransfer(reason) =>
        \/ workspace.phase = "begun" /\ ~workspace.target
        \/ Pause(reason) \/ Pause("failed")
  BY DEF PauseBeforeTransfer
<1> QED  BY <1>2, <1>3, <1>4

\* An intent of anything but the dispatch.
LEMMA IntendForContinue ==
  ASSUME HandoffInv, ContinueInv, typed' = typed, NEW e, e # "dispatch", Intend(e),
         ctl.op = "forward" => e \in {"stale_resume_stop", "finish"}
  PROVE  ContinueInv'
<1>1. row \in Rows /\ ctl \in Controllers
  BY DEF HandoffInv, TypeOK
<1>2. /\ row'.phase = row.phase /\ row'.intents = row.intents \cup {e}
      /\ row'.pause = row.pause /\ Goto(e)
  BY <1>1 DEF Intend, Rows
<1> QED  BY <1>1, <1>2, MovesForContinue DEF Remembers

\* The steps of the phases: the dispatch starts where nothing was typed.
LEMMA PhaseKeepsContinue ==
  ASSUME HandoffInv, ContinueInv,
         \/ BeginSourceHold("setup") \/ BeginSourceHold("reconcile")
         \/ RecordTarget \/ StopSource \/ StartTarget \/ PreparePm \/ TransferOwner
         \/ ResumeTarget \/ RegisterTarget \/ Dispatch \/ Finish \/ Complete
  PROVE  ContinueInv'
<1>0. row \in Rows /\ ctl \in Controllers /\ typed' = typed
  BY DEF HandoffInv, TypeOK, outside, BeginSourceHold,
         RecordTarget, StopSource, StartTarget, PreparePm, TransferOwner, ResumeTarget,
         RegisterTarget, Dispatch, Finish, Complete
<1>1. ASSUME NEW op \in {"setup", "reconcile"}, BeginSourceHold(op)  PROVE ContinueInv'
  BY <1>0, <1>1, IntendForContinue DEF BeginSourceHold, Step
<1>2. CASE RecordTarget
  <2>1. CASE /\ ctl.op = "setup"
             /\ row' = [row EXCEPT !.proofs = @ \cup {"target_client"}]
             /\ ctl' = [ctl EXCEPT !.op = "reconcile"]
    <3>1. /\ row'.phase = row.phase /\ row'.intents = row.intents
          /\ row'.pause = row.pause /\ ctl'.at = ctl.at /\ ctl'.op = "reconcile"
          /\ ctl'.held = ctl.held
      BY <1>0, <2>1 DEF Rows, Controllers
    <3> QED  BY <1>0, <2>1, <3>1 DEF ContinueInv, PauseLifted, TypedIsKnown, Ended
  <2> QED  BY <1>0, <1>2, <2>1, PauseForContinue DEF RecordTarget, CheckFails, Step
<1>3. CASE StopSource
  BY <1>0, <1>3, IntendForContinue, PauseForContinue DEF StopSource, CheckFails, Step
<1>4. CASE StartTarget \/ ResumeTarget \/ Finish
  BY <1>0, <1>4, IntendForContinue DEF StartTarget, ResumeTarget, Finish, Step
<1>5. CASE PreparePm
  <2>1. CASE row.phase = "target_ready" /\ row' = [row EXCEPT !.phase = "pm_prepared"]
             /\ UNCHANGED ctl
    <3>1. /\ row'.phase = "pm_prepared" /\ row'.intents = row.intents
          /\ row'.pause = row.pause
      BY <1>0, <2>1 DEF Rows
    <3> QED  BY <1>0, <2>1, <3>1 DEF ContinueInv, PauseLifted, TypedIsKnown, Ended
  <2> QED  BY <1>0, <1>5, <2>1, PauseForContinue DEF PreparePm, Step
<1>6. CASE TransferOwner
  BY <1>0, <1>6, IntendForContinue, PauseForContinue DEF TransferOwner, Step
<1>7. CASE RegisterTarget
  <2>1. CASE ctl.at = "register" /\ Goto("registered") /\ UNCHANGED row
    <3>1. ctl.op # "forward"
      BY <2>1 DEF ContinueInv, PauseLifted
    <3> QED  BY <1>0, <2>1, <3>1, MovesForContinue DEF Remembers
  <2>2. CASE ctl.at = "registered" /\ row' = Settled("resume") /\ Goto("step")
    <3>1. ctl.op # "forward" /\ typed = 0
      BY <2>2 DEF ContinueInv, PauseLifted, TypedIsKnown, Ended, HandoffInv, StepInPhase
    <3>2. row'.pause = row.pause
      BY <1>0, <2>2 DEF Settled, Rows
    <3> QED  BY <1>0, <2>2, <3>1, <3>2, MovesForContinue DEF Remembers
  <2> QED  BY <1>7, <2>1, <2>2 DEF RegisterTarget
<1>8. CASE Dispatch
  <2>1. CASE Intend("dispatch") /\ ctl.op = "reconcile"
             /\ row.phase = "runtime_registered" /\ row.intents = {}
    <3>1. /\ row'.phase = row.phase /\ row'.intents = {"dispatch"} /\ row'.pause = row.pause
          /\ ctl'.at = "dispatch" /\ ctl'.op = ctl.op /\ ctl'.held = ctl.held
      BY <1>0, <2>1 DEF Intend, Goto, Rows, Controllers
    <3> QED  BY <1>0, <2>1, <3>1 DEF ContinueInv, PauseLifted, TypedIsKnown, Ended
  <2> QED  BY <1>0, <1>8, <2>1, PauseForContinue DEF Dispatch, Step
<1>9. CASE Complete
  <2>1. row'.phase = "completed" /\ row'.pause = row.pause /\ ctl' = Idle
    BY <1>0, <1>9 DEF Complete, Rows
  <2> QED  BY <1>0, <2>1, StopsForContinue DEF Remembers, ContinueInv, TypedIsKnown
<1> QED  BY <1>1, <1>2, <1>3, <1>4, <1>5, <1>6, <1>7, <1>8, <1>9

\* What the daemon, or the operator, makes of a row nobody works on.
LEMMA DaemonKeepsContinue ==
  ASSUME HandoffInv, ContinueInv,
         \/ Reconcile \/ RetrySetup \/ ReleasePaused \/ RetryForward
         \/ SettleLandedTransfer \/ Preserve \/ Abort
  PROVE  ContinueInv'
<1>0. row \in Rows /\ ctl \in Controllers /\ typed' = typed
  BY DEF HandoffInv, TypeOK, outside, Reconcile, RetrySetup, ReleasePaused, RetryForward,
         SettleLandedTransfer, Preserve, Abort
<1>1. ASSUME Lift
      PROVE  row'.phase = row.phase /\ row'.intents = row.intents /\ row'.pause = "none"
  BY <1>0, <1>1 DEF Lift, Rows
<1>2. ASSUME NEW op, NEW at, Run(op, at), at # "dispatch", Lift \/ UNCHANGED row,
             op \in {"prestop", "release"} \/ (op = "forward" /\ at = "forward" /\ Lift)
      PROVE  ContinueInv'
  <2>1. ctl'.op = op /\ ctl'.at = at /\ ctl'.held = row.pause
    BY <1>2 DEF Run
  <2>2. /\ row'.phase = row.phase /\ row'.intents = row.intents
        /\ row'.pause = "none" \/ (row'.pause = row.pause /\ op # "forward")
    BY <1>1, <1>2
  <2> QED  BY <1>0, <1>2, <2>1, <2>2 DEF ContinueInv, PauseLifted, TypedIsKnown, Ended
<1>3. ASSUME Paused, row.phase = "pm_prepared", AdvanceLanded
      PROVE  ContinueInv'
  <2>1. row'.phase = "owner_transferred" /\ row'.pause = "none" /\ ctl' = Idle
    BY <1>0, <1>3 DEF AdvanceLanded, Rows, Paused
  <2>2. typed = 0
    BY <1>3 DEF ContinueInv, TypedIsKnown, Ended
  <2> QED  BY <1>0, <2>1, <2>2, StopsForContinue DEF Remembers
<1>4. CASE Reconcile
  <2>1. /\ row.pause = "none" /\ row' = row
        /\ ctl'.op = "reconcile" /\ ctl'.at = "step" /\ ctl'.held = "none"
    BY <1>4 DEF Reconcile, Run
  <2> QED  BY <1>0, <2>1 DEF ContinueInv, PauseLifted, TypedIsKnown, Ended
<1>5. CASE RetrySetup
  BY <1>0, <1>1, <1>5, TurnsForContinue DEF RetrySetup, Remembers
<1>6. CASE ReleasePaused
  BY <1>2, <1>6 DEF ReleasePaused
<1>7. CASE RetryForward
  BY <1>2, <1>7 DEF RetryForward
<1>8. CASE SettleLandedTransfer
  BY <1>3, <1>8 DEF SettleLandedTransfer, Landed
<1>9. CASE Preserve
  <2>1. CASE Landed
    BY <1>3, <1>9, <2>1 DEF Preserve, Landed
  <2>2. CASE ~Landed
    BY <1>2, <1>9, <2>2 DEF Preserve
  <2> QED  BY <2>1, <2>2
<1>10. CASE Abort
  BY <1>2, <1>3, <1>10 DEF Abort, Landed
<1> QED  BY <1>4, <1>5, <1>6, <1>7, <1>8, <1>9, <1>10

\* The retry after the stop: it takes the intent of a dispatch back only with
\* the pause that says nothing was typed.
LEMMA ForwardKeepsContinue ==
  ASSUME HandoffInv, ContinueInv, Forward
  PROVE  ContinueInv'
<1>0. /\ row \in Rows /\ ctl \in Controllers /\ typed' = typed
      /\ ctl.op = "forward" /\ row.pause = "none"
  BY DEF HandoffInv, TypeOK, StepInPhase, ContinueInv, PauseLifted, outside, Forward
<1>1. ASSUME NEW intents, row' = [row EXCEPT !.intents = intents],
             ctl' = [Idle EXCEPT !.op = "reconcile", !.at = "step"],
             typed = 0 \/ ("dispatch" \in row.intents => "dispatch" \in intents)
      PROVE  ContinueInv'
  <2>1. row'.phase = row.phase /\ row'.intents = intents /\ row'.pause = row.pause
    BY <1>0, <1>1 DEF Rows
  <2> QED  BY <1>0, <1>1, <2>1, TurnsForContinue DEF Remembers
<1>2. CASE Intend("stale_resume_stop")
  BY <1>0, <1>2, IntendForContinue
<1>3. CASE Goto("finish") /\ UNCHANGED row
  BY <1>0, <1>3, MovesForContinue DEF Remembers
<1>4. CASE Pause(ctl.held)
  BY <1>0, <1>4, PauseForContinue DEF ContinueInv, TypedIsKnown
<1>5. CASE row.phase = "owner_transferred" /\ "resume" \in row.intents
  <2>1. ASSUME row' = [row EXCEPT !.intents = row.intents \
                 (IF "target" \in live THEN {"stale_resume_stop"}
                                       ELSE {"stale_resume_stop", "resume"})],
               ctl' = [Idle EXCEPT !.op = "reconcile", !.at = "step"]
        PROVE  ContinueInv'
    BY <1>1, <2>1
  <2> QED  BY <1>2, <1>4, <1>5, <2>1 DEF Forward
<1>6. CASE /\ ~(row.phase = "owner_transferred" /\ "resume" \in row.intents)
           /\ row.phase = "continuation_dispatched" /\ ctl.held = "finish"
  <2>1. ASSUME row' = [row EXCEPT !.intents = row.intents \cup {"finish"}],
               ctl' = [Idle EXCEPT !.op = "reconcile", !.at = "step"]
        PROVE  ContinueInv'
    BY <1>1, <2>1
  <2> QED  BY <1>3, <1>4, <1>6, <2>1 DEF Forward
<1>7. CASE /\ ~(row.phase = "owner_transferred" /\ "resume" \in row.intents)
           /\ ~(row.phase = "continuation_dispatched" /\ ctl.held = "finish")
  <2>1. ASSUME row' = [row EXCEPT !.intents =
                 IF ctl.held = "dispatch" THEN row.intents \ {"dispatch"} ELSE row.intents],
               ctl' = [Idle EXCEPT !.op = "reconcile", !.at = "step"]
        PROVE  ContinueInv'
    BY <1>1, <2>1 DEF ContinueInv, TypedIsKnown
  <2> QED  BY <1>7, <2>1 DEF Forward
<1> QED  BY <1>5, <1>6, <1>7

\* A release, from the stop of the bootstrap to the return of the worker.
LEMMA ReleaseKeepsContinue ==
  ASSUME HandoffInv, ContinueInv,
         SettleBootstrap \/ ChooseSide \/ ReleaseToTarget \/ ReleaseRegistry
  PROVE  ContinueInv'
<1>0. /\ row \in Rows /\ ctl \in Controllers /\ typed' = typed
      /\ ctl.at \in {"unheld", "restore", "settled", "to_target", "adopt", "registry"}
      /\ ctl.op # "forward"
  BY DEF HandoffInv, TypeOK, outside, SettleBootstrap, ChooseSide, ReleaseToTarget,
         ReleaseRegistry, ContinueInv, PauseLifted
<1>1. ASSUME NEW place, Goto(place), place # "dispatch", row'.phase = row.phase,
             "dispatch" \in row.intents => "dispatch" \in row'.intents,
             row'.pause \in {row.pause, "none", ctl.held}
      PROVE  ContinueInv'
  BY <1>0, <1>1, MovesForContinue DEF Remembers
<1>2. CASE SettleBootstrap
  <2>1. CASE Intend("bootstrap_stop")
    BY <1>0, <2>1, IntendForContinue
  <2>2. CASE row' = Settled("bootstrap_stop") /\ Goto("restore")
    <3>1. row'.intents = row.intents \ {"bootstrap_stop"} /\ row'.pause = row.pause
      BY <1>0, <2>2 DEF Settled, Rows
    <3>2. row'.phase = row.phase
      BY <2>2, SettledRow, EffectNames DEF HandoffInv
    <3> QED  BY <1>1, <2>2, <3>1, <3>2
  <2>3. CASE row' = [row EXCEPT !.pause = ctl.held] /\ Goto("settled")
    <3>1. row'.phase = row.phase /\ row'.intents = row.intents /\ row'.pause = ctl.held
      BY <1>0, <2>3 DEF Rows
    <3> QED  BY <1>1, <2>3, <3>1
  <2> QED  BY <1>2, <2>1, <2>2, <2>3 DEF SettleBootstrap
<1>3. CASE ChooseSide
  <2>1. /\ row'.phase = row.phase /\ row'.intents = row.intents
        /\ row'.pause \in {row.pause, "none"}
    BY <1>0, <1>3 DEF ChooseSide, Lift, Rows
  <2> QED  BY <1>1, <1>3, <2>1 DEF ChooseSide
<1>4. CASE ReleaseToTarget
  <2>1. CASE Intend("target_session_stop")
    BY <1>0, <2>1, IntendForContinue
  <2>2. CASE row' = [row EXCEPT !.intents = @ \ {"target_session_stop"}] /\ Goto("adopt")
    <3>1. /\ row'.phase = row.phase /\ row'.intents = row.intents \ {"target_session_stop"}
          /\ row'.pause = row.pause
      BY <1>0, <2>2 DEF Rows
    <3> QED  BY <1>1, <2>2, <3>1
  <2>3. CASE \/ row' = [row EXCEPT !.pause = ctl.held] /\ Goto("registry")
             \/ Goto("finish") /\ UNCHANGED row
    <3>1. /\ row'.phase = row.phase /\ row'.intents = row.intents
          /\ row'.pause \in {row.pause, ctl.held}
      BY <1>0, <2>3 DEF Rows
    <3> QED  BY <1>1, <2>3, <3>1
  <2>4. CASE Pause(ctl.held)
    BY <1>0, <2>4, PauseForContinue DEF ContinueInv, TypedIsKnown
  <2> QED  BY <1>4, <2>1, <2>2, <2>3, <2>4 DEF ReleaseToTarget
<1>5. CASE ReleaseRegistry
  <2>1. row'.phase = "released" /\ row'.pause = row.pause /\ ctl' = Idle
    BY <1>0, <1>5 DEF ReleaseRegistry, Rows
  <2> QED  BY <1>0, <2>1, StopsForContinue DEF Remembers, ContinueInv, TypedIsKnown
<1> QED  BY <1>2, <1>3, <1>4, <1>5

\* A proof that came back, or was read back, of anything but the dispatch.
LEMMA AnswerForContinue ==
  ASSUME HandoffInv, ContinueInv, NEW e \in Effects \ {"dispatch"}, Answered(e),
         typed' = typed,
         e = "stop" => row.phase = "claimed",
         e = "bootstrap" => row.phase = "source_stopped",
         e = "transfer" => row.phase = "pm_prepared",
         ctl.op = "forward" => e \in {"stale_resume_stop", "finish"}
  PROVE  ContinueInv'
<1>0. row \in Rows /\ ctl \in Controllers
  BY DEF HandoffInv, TypeOK
<1>1. /\ Settled(e).pause = row.pause
      /\ "dispatch" \in row.intents => "dispatch" \in Settled(e).intents
  BY <1>0 DEF Settled, Rows
<1>2. typed # 0 => row'.phase = row.phase
  BY Answers DEF HandoffInv, ContinueInv, TypedIsKnown, Ended
<1>3. CASE e = "cleanup"
  <2>1. /\ row'.pause # "dispatch" /\ ctl' = Idle
        /\ "dispatch" \in row.intents => "dispatch" \in row'.intents
    BY <1>0, <1>1, <1>3, SettledRow DEF Answered, Rows, HandoffInv
  <2> QED  BY <1>2, <2>1, StopsForContinue DEF Remembers
<1>4. CASE e \in {"resume", "release"}
  <2>1. UNCHANGED row /\ (Goto("register") \/ Goto("registry"))
    BY <1>4 DEF Answered
  <2> QED  BY <1>0, <1>4, <2>1, MovesForContinue DEF Remembers
<1>5. CASE e = "finish" /\ ctl.op = "release"
  <2>1. row' = [row EXCEPT !.pause = ctl.held] /\ Goto("registry")
    BY <1>5 DEF Answered
  <2>2. row'.phase = row.phase /\ row'.intents = row.intents /\ row'.pause = ctl.held
    BY <1>0, <2>1 DEF Rows
  <2> QED  BY <1>0, <1>5, <2>1, <2>2, MovesForContinue DEF Remembers
<1>6. CASE e \in {"finish", "stale_resume_stop"} /\ ctl.op = "forward"
  <2>1. /\ \/ row' = [row EXCEPT !.intents = @ \cup {"finish"}]
           \/ row' = Settled(e)
        /\ ctl' = [Idle EXCEPT !.op = "reconcile", !.at = "step"]
    BY <1>6 DEF Answered
  <2>2. /\ row'.pause = row.pause
        /\ "dispatch" \in row.intents => "dispatch" \in row'.intents
    BY <1>0, <1>1, <2>1 DEF Rows
  <2>3. row.pause = "none"
    BY <1>6 DEF ContinueInv, PauseLifted
  <2> QED  BY <1>2, <2>1, <2>2, <2>3, TurnsForContinue DEF Remembers
<1>7. CASE /\ e \notin {"cleanup", "resume", "release"}
           /\ ~(e = "finish" /\ ctl.op \in {"release", "forward"})
           /\ ~(e = "stale_resume_stop" /\ ctl.op = "forward")
  <2> DEFINE next ==
        CASE e = "finish" -> "complete"
          [] ctl.op = "release" /\ e = "bootstrap_stop" -> "restore"
          [] e = "target_session_stop" /\ ctl.op = "release" -> "adopt"
          [] OTHER -> "step"
  <2>1. row' = Settled(e) /\ Goto(next) /\ ctl.op # "forward"
    BY <1>7 DEF Answered
  <2>2. next # "dispatch"
    OBVIOUS
  <2> HIDE DEF next
  <2> QED  BY <1>0, <1>1, <1>2, <2>1, <2>2, MovesForContinue DEF Remembers
<1> QED  BY <1>3, <1>4, <1>5, <1>6, <1>7

\* Nothing but the dispatch types.
LEMMA TypedAfter ==
  ASSUME HandoffInv, NEW e \in Effects, Happen(e)
  PROVE  typed' = IF e = "dispatch" THEN typed + 1 ELSE typed
BY DEF Happen

\* An effect whose proof came back.
LEMMA SucceedKeepsContinue ==
  ASSUME HandoffInv, ContinueInv, NEW e \in Effects, Succeed(e)
  PROVE  ContinueInv'
<1>1. ctl.at = e /\ Happen(e) /\ Answered(e)
  BY DEF Succeed
<1>2. CASE e = "dispatch"
  <2>1. /\ row.phase = "runtime_registered" /\ typed = 0 /\ ctl.op = "reconcile"
        /\ row.pause = "none" /\ ctl.held = "none"
    BY <1>1, <1>2 DEF ContinueInv, PauseLifted, TypedIsKnown, HandoffInv, StepInPhase
  <2>2. row \in Rows /\ ctl \in Controllers /\ typed' = 1
    BY <1>1, <1>2, <2>1 DEF HandoffInv, TypeOK, Happen
  <2>3. row' = Settled(e) /\ Goto("step")
    BY <1>1, <1>2, <2>1 DEF Answered
  <2>4. ctl'.at = "step" /\ ctl'.op = "reconcile" /\ ctl'.held = "none" /\ row'.pause = "none"
    BY <2>1, <2>2, <2>3 DEF Goto, Controllers, Settled, Rows
  <2>5. row'.phase = "continuation_dispatched"
    BY <1>2, <2>3, SettledRow DEF HandoffInv
  <2> QED  BY <2>2, <2>4, <2>5 DEF ContinueInv, PauseLifted, TypedIsKnown
<1>3. CASE e # "dispatch"
  <2>1. /\ e = "stop" => row.phase = "claimed"
        /\ e = "bootstrap" => row.phase = "source_stopped"
        /\ e = "transfer" => row.phase = "pm_prepared"
    BY <1>1 DEF HandoffInv, StepInPhase
  <2>2. ctl.op = "forward" => e \in {"stale_resume_stop", "finish"}
    <3>1. e # "forward"
      BY EffectNames
    <3> QED  BY <1>1, <3>1 DEF ContinueInv, PauseLifted
  <2> QED  BY <1>1, <1>3, <2>1, <2>2, TypedAfter, AnswerForContinue
<1> QED  BY <1>2, <1>3

\* A dispatch that was typed although its answer was lost leaves its intent,
\* and no pause that would replay it.
LEMMA LostForContinue ==
  ASSUME HandoffInv, ContinueInv, ctl.at = "dispatch", Happen("dispatch"),
         ctl' = Idle, row'.phase = row.phase, row'.intents = row.intents,
         row'.pause # "dispatch"
  PROVE  ContinueInv'
<1>1. ctl'.op = "none" /\ ctl'.at = "idle" /\ ctl'.held = "none"
  BY DEF Idle
<1>2. typed' = 1 /\ row.phase = "runtime_registered" /\ "dispatch" \in row.intents
  BY EffectNames, TypedAfter DEF ContinueInv, TypedIsKnown, HandoffInv, StepInPhase
<1> QED  BY <1>1, <1>2 DEF ContinueInv, PauseLifted, TypedIsKnown

\* A failure pauses; one of a dispatch that was typed gives another reason than
\* the one that replays it.
LEMMA FailKeepsContinue ==
  ASSUME ~EnterMayFail, HandoffInv, ContinueInv, NEW e \in Effects, Fail(e)
  PROVE  ContinueInv'
<1>0. row \in Rows /\ ctl \in Controllers /\ ctl.at = e
  BY DEF HandoffInv, TypeOK, Fail
<1>1. PICK reason \in CASE ctl.op = "setup" -> {"retry", "failed"}
                        [] ctl.held # "none" -> {ctl.held}
                        [] OTHER -> FailureReasons(e) :
        /\ UNCHANGED outside \/ (MayLand(e, reason) /\ Happen(e))
        /\ IF e = "authorize" THEN PauseBeforeTransfer(reason) ELSE Pause(reason)
  BY DEF Fail
<1>2. reason = "dispatch" => typed = 0
  <2>1. reason = "dispatch" => ctl.held = "dispatch" \/ e = "dispatch"
    BY <1>1 DEF FailureReasons
  <2> QED  BY <1>0, <2>1 DEF ContinueInv, TypedIsKnown
<1>3. e = "authorize" => ctl.op # "forward"
  BY <1>0 DEF ContinueInv, PauseLifted
<1>4. CASE typed' = typed
  BY <1>1, <1>2, <1>3, <1>4, PauseForContinue
<1>5. CASE e = "dispatch" /\ Happen(e) /\ MayLand(e, reason)
  <2>1. reason # "dispatch" /\ Pause(reason)
    BY <1>1, <1>5 DEF MayLand
  <2>2. /\ row'.phase = row.phase /\ row'.intents = row.intents /\ row'.pause = reason
        /\ ctl' = Idle
    BY <1>0, <2>1 DEF Pause, Rows
  <2> QED  BY <1>0, <1>5, <2>1, <2>2, LostForContinue
<1> QED  BY <1>1, <1>4, <1>5, TypedAfter DEF outside

\* The readback of an open intent: a dispatch is never read back.
LEMMA ReadBackKeepsContinue ==
  ASSUME HandoffInv, ContinueInv, ReconcileIntent
  PROVE  ContinueInv'
<1>1. CASE Pause("uncertain") /\ UNCHANGED outside
  BY <1>1, PauseForContinue DEF outside
<1>2. ASSUME NEW e \in row.intents, FirstDue(e), Answered(e),
             IF e = "grant" THEN Happen(e) ELSE UNCHANGED outside, ctl.op = "reconcile"
      PROVE  ContinueInv'
  <2>1. /\ e \in Effects \ {"dispatch"} /\ e # "bootstrap"
        /\ e = "stop" => row.phase = "claimed"
        /\ e = "transfer" => row.phase = "pm_prepared"
    BY <1>2, DueInPhase
  <2>2. typed' = typed
    BY <1>2, <2>1, TypedAfter DEF outside
  <2> QED  BY <1>2, <2>1, <2>2, AnswerForContinue
<1> QED  BY <1>1, <1>2 DEF ReconcileIntent

\* Crashes, late calls and exits.
LEMMA OutsideKeepsContinue ==
  ASSUME HandoffInv, ContinueInv,
         \/ Crash \/ \E call \in WorkspaceCalls : Land(call)
         \/ \E session \in Sessions : ProcessExits(session)
  PROVE  ContinueInv'
<1>1. CASE Crash
  <2>1. UNCHANGED row /\ ctl' = Idle
    BY <1>1 DEF Crash
  <2>2. CASE typed' = typed
    BY <2>1, <2>2, StopsForContinue DEF Remembers, ContinueInv, TypedIsKnown
  <2>3. CASE ctl.at = "dispatch" /\ Happen(ctl.at)
    <3>1. row.pause # "dispatch"
      BY <2>3 DEF ContinueInv, PauseLifted
    <3> QED  BY <2>1, <2>3, <3>1, LostForContinue
  <2> QED  BY <1>1, <2>2, <2>3, TypedAfter DEF Crash, outside
<1>2. ASSUME NEW call \in WorkspaceCalls, Land(call)  PROVE ContinueInv'
  <2>1. typed' = typed /\ UNCHANGED <<row, ctl>>
    BY <1>2, EffectNames, TypedAfter DEF Land, WorkspaceCalls
  <2> QED  BY <2>1 DEF ContinueInv, PauseLifted, TypedIsKnown, Ended
<1>3. ASSUME NEW session \in Sessions, ProcessExits(session)  PROVE ContinueInv'
  BY <1>3 DEF ProcessExits, ContinueInv, PauseLifted, TypedIsKnown, Ended
<1> QED  BY <1>1, <1>2, <1>3

\* The continuation at every step.
LEMMA ContinueStep ==
  ASSUME ~EnterMayFail
  PROVE  HandoffInv /\ ContinueInv /\ [Next]_vars => ContinueInv'
<1> SUFFICES ASSUME HandoffInv, ContinueInv, [Next]_vars PROVE ContinueInv'
  OBVIOUS
<1>1. CASE Phase
  BY <1>1, PhaseKeepsContinue, ReadBackKeepsContinue DEF Phase
<1>2. CASE Daemon \/ Abort
  BY <1>2, DaemonKeepsContinue, ForwardKeepsContinue DEF Daemon
<1>3. CASE Release
  BY <1>3, ReleaseKeepsContinue DEF Release
<1>4. CASE \E e \in Effects : Succeed(e) \/ Fail(e)
  BY <1>4, SucceedKeepsContinue, FailKeepsContinue
<1>5. CASE \/ Crash \/ \E call \in WorkspaceCalls : Land(call)
           \/ \E session \in Sessions : ProcessExits(session)
  BY <1>5, OutsideKeepsContinue
<1>6. CASE UNCHANGED vars
  BY <1>6 DEF vars, ContinueInv, PauseLifted, TypedIsKnown, Ended
<1> QED  BY <1>1, <1>2, <1>3, <1>4, <1>5, <1>6 DEF Next, Controller

\* The continuation is typed at most once, however often a controller dies
\* with it or the dispatch is retried, where tmux refuses the keys before it
\* types them.
THEOREM ContinuesOnce ==
  ASSUME ~EnterMayFail
  PROVE  Spec => []DispatchedOnce
<1>1. Init => ContinueInv
  BY DEF Init, ContinueInv, PauseLifted, TypedIsKnown, Ended
<1>2. ContinueInv => DispatchedOnce
  BY DEF ContinueInv, TypedIsKnown, DispatchedOnce
<1> QED  BY <1>1, <1>2, ContinueStep, HandoffInvariant, PTL DEF Spec

-----------------------------------------------------------------------------
(***************************************************************************)
(* The source.                                                             *)
(***************************************************************************)
\* A source that was signalled left the intent of its stop, or the phase that
\* follows; a release that asks neither is under way on one that was not.
SourceInv ==
  /\ signalled => row.phase # "claimed" \/ "stop" \in row.intents
  /\ ctl.at = "stop" => "stop" \in row.intents
  /\ ctl.op = "prestop" => ~signalled /\ ctl.at \in {"release", "registry"}

\* A step that signals nothing and does not forget the intent of the stop.
KeepsStop ==
  /\ signalled' = signalled
  /\ row.phase # "claimed" => row'.phase # "claimed"
  /\ "stop" \in row.intents => "stop" \in row'.intents \/ row'.phase # "claimed"

\* A step that keeps the intent of the stop, and starts no early release, keeps
\* the invariant.
LEMMA QuietForSource ==
  ASSUME SourceInv, KeepsStop,
         ctl'.at = "stop" => "stop" \in row'.intents,
         ctl'.op = "prestop" => ctl.op = "prestop" /\ ctl'.at \in {"release", "registry"}
  PROVE  SourceInv'
BY DEF SourceInv, KeepsStop

\* A pause, with or without the stop of the bootstrap before it.
LEMMA PauseForSource ==
  ASSUME HandoffInv, SourceInv, signalled' = signalled, NEW reason,
         Pause(reason) \/ (PauseBeforeTransfer(reason) /\ ctl.op # "prestop")
  PROVE  SourceInv'
<1>1. row \in Rows /\ ctl \in Controllers
  BY DEF HandoffInv, TypeOK
<1>2. ASSUME NEW why, Pause(why)  PROVE SourceInv'
  <2>1. /\ row'.phase = row.phase /\ row'.intents = row.intents
        /\ ctl'.at = "idle" /\ ctl'.op = "none"
    BY <1>1, <1>2 DEF Pause, Rows, Idle
  <2> QED  BY <2>1, QuietForSource DEF KeepsStop
<1>3. CASE PauseBeforeTransfer(reason) /\ workspace.phase = "begun" /\ ~workspace.target
           /\ ctl.op # "prestop"
  <2>1. /\ row' = [row EXCEPT !.intents = @ \cup {"cleanup"},
              !.proofs = IF reason = "retry" THEN @ \cup {"retryable"} ELSE @]
        /\ ctl' = [ctl EXCEPT !.at = "cleanup"]
    BY <1>3 DEF PauseBeforeTransfer, Goto
  <2>2. /\ row'.phase = row.phase /\ row'.intents = row.intents \cup {"cleanup"}
        /\ ctl'.at = "cleanup" /\ ctl'.op = ctl.op
    BY <1>1, <2>1 DEF Rows, Controllers
  <2> QED  BY <1>3, <2>2, QuietForSource DEF KeepsStop
<1> QED  BY <1>2, <1>3 DEF PauseBeforeTransfer

\* The steps of the phases.
LEMMA PhaseKeepsSource ==
  ASSUME HandoffInv, SourceInv,
         \/ BeginSourceHold("setup") \/ BeginSourceHold("reconcile")
         \/ RecordTarget \/ StopSource \/ StartTarget \/ PreparePm \/ TransferOwner
         \/ ResumeTarget \/ RegisterTarget \/ Dispatch \/ Finish \/ Complete
  PROVE  SourceInv'
<1>0. /\ row \in Rows /\ ctl \in Controllers /\ signalled' = signalled
      /\ ctl.op # "prestop"
  BY DEF HandoffInv, TypeOK, outside, BeginSourceHold,
         RecordTarget, StopSource, StartTarget, PreparePm, TransferOwner, ResumeTarget,
         RegisterTarget, Dispatch, Finish, Complete, Step, SourceInv
<1>1. ASSUME NEW e, Intend(e)  PROVE SourceInv'
  <2>1. /\ row'.phase = row.phase /\ row'.intents = row.intents \cup {e}
        /\ ctl'.at = e /\ ctl'.op = ctl.op
    BY <1>0, <1>1 DEF Intend, Goto, Rows, Controllers
  <2> QED  BY <1>0, <2>1, QuietForSource DEF KeepsStop
<1>2. CASE BeginSourceHold("setup") \/ BeginSourceHold("reconcile")
  BY <1>1, <1>2 DEF BeginSourceHold
<1>3. CASE RecordTarget
  <2>1. CASE /\ row' = [row EXCEPT !.proofs = @ \cup {"target_client"}]
             /\ ctl' = [ctl EXCEPT !.op = "reconcile"]
    <3>1. /\ row'.phase = row.phase /\ row'.intents = row.intents
          /\ ctl'.at = ctl.at /\ ctl'.op = "reconcile"
      BY <1>0, <2>1 DEF Rows, Controllers
    <3> QED  BY <1>0, <3>1, QuietForSource DEF KeepsStop, SourceInv
  <2> QED  BY <1>0, <1>3, <2>1, PauseForSource DEF RecordTarget, CheckFails
<1>4. CASE StopSource \/ StartTarget \/ TransferOwner \/ ResumeTarget \/ Dispatch \/ Finish
  BY <1>0, <1>1, <1>4, PauseForSource
     DEF StopSource, StartTarget, TransferOwner, ResumeTarget, Dispatch, Finish, CheckFails
<1>5. CASE PreparePm
  <2>1. CASE row' = [row EXCEPT !.phase = "pm_prepared"] /\ UNCHANGED ctl
    <3>1. row'.phase = "pm_prepared" /\ row'.intents = row.intents
      BY <1>0, <2>1 DEF Rows
    <3> QED  BY <1>0, <2>1, <3>1, QuietForSource DEF KeepsStop, SourceInv
  <2> QED  BY <1>0, <1>5, <2>1, PauseForSource DEF PreparePm
<1>6. CASE RegisterTarget
  <2>1. CASE Goto("registered") /\ UNCHANGED row
    <3>1. ctl'.at = "registered" /\ ctl'.op = ctl.op
      BY <1>0, <2>1 DEF Goto, Controllers
    <3> QED  BY <1>0, <2>1, <3>1, QuietForSource DEF KeepsStop
  <2>2. CASE row' = Settled("resume") /\ Goto("step")
    <3>1. ctl'.at = "step" /\ ctl'.op = ctl.op
      BY <1>0, <2>2 DEF Goto, Controllers
    <3>2. row'.phase = "runtime_registered"
      BY <2>2, SettledRow, EffectNames DEF HandoffInv
    <3> QED  BY <1>0, <3>1, <3>2, QuietForSource DEF KeepsStop
  <2> QED  BY <1>6, <2>1, <2>2 DEF RegisterTarget
<1>7. CASE Complete
  <2>1. row'.phase = "completed" /\ ctl'.at = "idle" /\ ctl'.op = "none"
    BY <1>0, <1>7 DEF Complete, Rows, Idle
  <2> QED  BY <1>0, <2>1, QuietForSource DEF KeepsStop
<1> QED  BY <1>2, <1>3, <1>4, <1>5, <1>6, <1>7

\* What the daemon, or the operator, makes of a row nobody works on: only a row
\* whose stop never started is released at once.
LEMMA DaemonKeepsSource ==
  ASSUME HandoffInv, SourceInv,
         \/ Reconcile \/ RetrySetup \/ ReleasePaused \/ RetryForward \/ Forward
         \/ SettleLandedTransfer \/ Preserve \/ Abort
  PROVE  SourceInv'
<1>0. row \in Rows /\ ctl \in Controllers /\ signalled' = signalled
  BY DEF HandoffInv, TypeOK, outside, Reconcile, RetrySetup, ReleasePaused, RetryForward,
         Forward, SettleLandedTransfer, Preserve, Abort
<1>1. ASSUME Lift  PROVE row'.phase = row.phase /\ row'.intents = row.intents
  BY <1>0, <1>1 DEF Lift, Rows
<1>2. ASSUME NEW op, NEW at, Run(op, at), at # "stop", op # "prestop", Lift \/ UNCHANGED row
      PROVE  SourceInv'
  <2>1. ctl'.op = op /\ ctl'.at = at
    BY <1>2 DEF Run
  <2> QED  BY <1>0, <1>1, <1>2, <2>1, QuietForSource DEF KeepsStop
<1>3. ASSUME Landed, AdvanceLanded  PROVE SourceInv'
  <2>1. row'.phase = "owner_transferred" /\ UNCHANGED ctl
    BY <1>0, <1>3 DEF AdvanceLanded, Rows
  <2>2. ctl.at # "stop"
    BY <1>3 DEF Landed, HandoffInv, StepInPhase
  <2> QED  BY <1>0, <2>1, <2>2, QuietForSource DEF KeepsStop, SourceInv
<1>4. CASE Reconcile \/ RetryForward
  BY <1>2, <1>4 DEF Reconcile, RetryForward
<1>5. CASE RetrySetup
  <2>1. ctl'.at = "step" /\ ctl'.op = "setup"
    BY <1>5 DEF RetrySetup, Idle
  <2> QED  BY <1>0, <1>1, <1>5, <2>1, QuietForSource DEF RetrySetup, KeepsStop
<1>6. CASE ReleasePaused
  <2>1. UNCHANGED row /\ ctl'.at = "release"
    BY <1>6 DEF ReleasePaused, Run
  <2>2. ~signalled
    BY <1>6 DEF ReleasePaused, StopStarted, SourceInv
  <2> QED  BY <1>0, <2>1, <2>2 DEF SourceInv
<1>7. CASE SettleLandedTransfer \/ Preserve \/ Abort
  BY <1>2, <1>3, <1>7 DEF SettleLandedTransfer, Preserve, Abort
<1>8. CASE Forward
  <2>0. ctl.op = "forward"
    BY <1>8 DEF Forward, HandoffInv, StepInPhase
  <2>1. ASSUME NEW intents, row' = [row EXCEPT !.intents = intents],
               ctl' = [Idle EXCEPT !.op = "reconcile", !.at = "step"],
               "stop" \in row.intents => "stop" \in intents
        PROVE  SourceInv'
    <3>1. /\ row'.phase = row.phase /\ row'.intents = intents
          /\ ctl'.at = "step" /\ ctl'.op = "reconcile"
      BY <1>0, <2>1 DEF Rows, Idle
    <3> QED  BY <1>0, <2>1, <3>1, QuietForSource DEF KeepsStop
  <2>2. CASE Intend("stale_resume_stop")
    <3>1. /\ row'.phase = row.phase /\ row'.intents = row.intents \cup {"stale_resume_stop"}
          /\ ctl'.at = "stale_resume_stop" /\ ctl'.op = ctl.op
      BY <1>0, <2>2 DEF Intend, Goto, Rows, Controllers
    <3> QED  BY <1>0, <2>0, <3>1, QuietForSource DEF KeepsStop
  <2>3. CASE Goto("finish") /\ UNCHANGED row
    <3>1. ctl'.at = "finish" /\ ctl'.op = ctl.op
      BY <1>0, <2>3 DEF Goto, Controllers
    <3> QED  BY <1>0, <2>0, <2>3, <3>1, QuietForSource DEF KeepsStop
  <2>4. CASE Pause(ctl.held)
    BY <1>0, <2>4, PauseForSource
  <2>5. ASSUME NEW intents \in
                 {row.intents \ {"stale_resume_stop"},
                  row.intents \ {"stale_resume_stop", "resume"},
                  row.intents \cup {"finish"}, row.intents \ {"dispatch"}, row.intents},
               row' = [row EXCEPT !.intents = intents],
               ctl' = [Idle EXCEPT !.op = "reconcile", !.at = "step"]
        PROVE  SourceInv'
    BY <2>1, <2>5
  <2> QED  BY <1>8, <2>2, <2>3, <2>4, <2>5 DEF Forward
<1> QED  BY <1>4, <1>5, <1>6, <1>7, <1>8

\* A release, from the stop of the bootstrap to the return of the worker.
LEMMA ReleaseKeepsSource ==
  ASSUME HandoffInv, SourceInv,
         SettleBootstrap \/ ChooseSide \/ ReleaseToTarget \/ ReleaseRegistry
  PROVE  SourceInv'
<1>0. row \in Rows /\ ctl \in Controllers /\ signalled' = signalled
  BY DEF HandoffInv, TypeOK, outside, SettleBootstrap, ChooseSide, ReleaseToTarget,
         ReleaseRegistry
<1>1. ASSUME NEW place, Goto(place), place # "stop", ctl.op # "prestop",
             row'.phase = row.phase, "stop" \in row.intents => "stop" \in row'.intents
      PROVE  SourceInv'
  <2>1. ctl'.at = place /\ ctl'.op = ctl.op
    BY <1>0, <1>1 DEF Goto, Controllers
  <2> QED  BY <1>0, <1>1, <2>1, QuietForSource DEF KeepsStop
<1>2. CASE SettleBootstrap \/ ChooseSide \/ ReleaseToTarget
  <2>1. ctl.op # "prestop"
    BY <1>2 DEF SettleBootstrap, ChooseSide, ReleaseToTarget, SourceInv
  <2>2. ASSUME NEW e \in {"bootstrap_stop", "target_session_stop"}, Intend(e)
        PROVE  SourceInv'
    <3>1. row'.phase = row.phase /\ row'.intents = row.intents \cup {e} /\ Goto(e)
      BY <1>0, <2>2 DEF Intend, Rows
    <3> QED  BY <1>1, <2>1, <2>2, <3>1
  <2>3. CASE row' = Settled("bootstrap_stop") /\ Goto("restore")
    <3>1. row'.intents = row.intents \ {"bootstrap_stop"}
      BY <1>0, <2>3 DEF Settled, Rows
    <3>2. row'.phase = row.phase
      BY <2>3, SettledRow, EffectNames DEF HandoffInv
    <3> QED  BY <1>1, <2>1, <2>3, <3>1, <3>2
  <2>4. ASSUME NEW place \in {"settled", "registry", "to_target", "release", "adopt", "finish"},
               Goto(place),
               \/ row' = [row EXCEPT !.pause = ctl.held] \/ Lift \/ UNCHANGED row
               \/ row' = [row EXCEPT !.intents = @ \ {"target_session_stop"}]
        PROVE  SourceInv'
    <3>1. row'.phase = row.phase /\ ("stop" \in row.intents => "stop" \in row'.intents)
      BY <1>0, <2>4 DEF Lift, Rows
    <3> QED  BY <1>1, <2>1, <2>4, <3>1
  <2>5. CASE Pause(ctl.held)
    BY <1>0, <2>5, PauseForSource
  <2>6. CASE SettleBootstrap
    BY <2>2, <2>3, <2>4, <2>6 DEF SettleBootstrap
  <2>7. CASE ChooseSide
    BY <2>4, <2>7 DEF ChooseSide
  <2>8. CASE ReleaseToTarget
    BY <2>2, <2>4, <2>5, <2>8 DEF ReleaseToTarget
  <2> QED  BY <1>2, <2>6, <2>7, <2>8
<1>3. CASE ReleaseRegistry
  <2>1. row'.phase = "released" /\ ctl'.at = "idle" /\ ctl'.op = "none"
    BY <1>0, <1>3 DEF ReleaseRegistry, Rows, Idle
  <2> QED  BY <1>0, <2>1, QuietForSource DEF KeepsStop
<1> QED  BY <1>2, <1>3

\* A proof that came back, or was read back.
LEMMA AnswerForSource ==
  ASSUME HandoffInv, SourceInv, NEW e \in Effects, Answered(e),
         signalled' = signalled \/ e = "stop",
         ctl.op = "prestop" => e = "release" /\ signalled' = signalled
  PROVE  SourceInv'
<1>0. row \in Rows /\ ctl \in Controllers
  BY DEF HandoffInv, TypeOK
<1>1. /\ row'.phase = (CASE e = "stop" -> "source_stopped"
                         [] e = "bootstrap" -> "target_ready"
                         [] e = "transfer" -> "owner_transferred"
                         [] e = "dispatch" -> "continuation_dispatched"
                         [] OTHER -> row.phase)
      /\ ctl'.at # "stop"
  BY Answers DEF HandoffInv
<1>2. "stop" \in row.intents /\ e # "stop" => "stop" \in row'.intents
  <2>1. "stop" \in row.intents /\ e # "stop" => "stop" \in Settled(e).intents
    BY <1>0 DEF Settled, Rows
  <2>2. Settled(e) \in Rows
    BY SettledRow DEF HandoffInv
  <2> QED  BY <1>0, <2>1, <2>2 DEF Answered, Rows
<1>3. ctl'.op = "prestop" => ctl.op = "prestop" /\ ctl'.at = "registry"
  <2>1. ASSUME NEW step, Goto(step)  PROVE ctl'.op = ctl.op /\ ctl'.at = step
    BY <1>0, <2>1 DEF Goto, Controllers
  <2>2. CASE ctl.op = "prestop"
    <3>1. Goto("registry")
      BY <2>2 DEF Answered
    <3> QED  BY <2>1, <2>2, <3>1
  <2>3. CASE ctl.op # "prestop"
    <3>1. \/ ctl' = Idle \/ (\E step : Goto(step))
          \/ ctl' = [Idle EXCEPT !.op = "reconcile", !.at = "step"]
      BY DEF Answered
    <3>2. ctl' = Idle => ctl'.op = "none"
      BY DEF Idle
    <3>3. ctl' = [Idle EXCEPT !.op = "reconcile", !.at = "step"] => ctl'.op = "reconcile"
      BY DEF Idle
    <3> QED  BY <2>1, <2>3, <3>1, <3>2, <3>3
  <2> QED  BY <2>2, <2>3
<1> QED  BY <1>1, <1>2, <1>3 DEF SourceInv

\* Effects: one that came back, one that failed or was lost, one read back.
LEMMA EffectKeepsSource ==
  ASSUME HandoffInv, SourceInv, (\E e \in Effects : Succeed(e) \/ Fail(e)) \/ ReconcileIntent
  PROVE  SourceInv'
<1>0. row \in Rows /\ ctl \in Controllers /\ signalled \in BOOLEAN
  BY DEF HandoffInv, TypeOK
<1>1. ASSUME NEW e \in Effects, Happen(e)
      PROVE  signalled' = signalled \/ e = "stop"
  BY <1>0, <1>1 DEF Happen
<1>2. ASSUME NEW e \in Effects, Succeed(e)  PROVE SourceInv'
  <2>1. ctl.at = e /\ Happen(e) /\ Answered(e)
    BY <1>2 DEF Succeed
  <2>2. ctl.op = "prestop" => e = "release"
    <3>1. e # "registry"
      BY EffectNames
    <3> QED  BY <2>1, <3>1 DEF SourceInv
  <2> QED  BY <1>1, <2>1, <2>2, AnswerForSource
<1>3. ASSUME NEW e \in Effects, Fail(e)  PROVE SourceInv'
  <2>1. PICK reason : /\ UNCHANGED outside \/ Happen(e)
                      /\ IF e = "authorize" THEN PauseBeforeTransfer(reason) ELSE Pause(reason)
    BY <1>3 DEF Fail
  <2>2. ctl.at = e
    BY <1>3 DEF Fail
  <2>3. CASE signalled' = signalled
    BY <2>1, <2>2, <2>3, PauseForSource DEF SourceInv
  <2>4. CASE e = "stop"
    <3>1. row'.intents = row.intents /\ ctl'.at = "idle" /\ ctl'.op = "none"
      BY <1>0, <2>1, <2>4 DEF Pause, Rows, Idle
    <3> QED  BY <2>2, <2>4, <3>1 DEF SourceInv
  <2> QED  BY <1>1, <2>1, <2>3, <2>4 DEF outside
<1>4. CASE ReconcileIntent
  <2>1. CASE Pause("uncertain") /\ UNCHANGED outside
    BY <2>1, PauseForSource DEF outside
  <2>2. ASSUME NEW e \in row.intents, FirstDue(e), Answered(e),
               IF e = "grant" THEN Happen(e) ELSE UNCHANGED outside, ctl.op = "reconcile"
        PROVE  SourceInv'
    <3>1. e \in Effects
      BY <1>0, <2>2 DEF Rows
    <3>2. signalled' = signalled
      BY <1>1, <2>2, <3>1 DEF outside
    <3> QED  BY <2>2, <3>1, <3>2, AnswerForSource
  <2> QED  BY <1>4, <2>1, <2>2 DEF ReconcileIntent
<1> QED  BY <1>2, <1>3, <1>4

\* Crashes, late calls and exits.
LEMMA OutsideKeepsSource ==
  ASSUME HandoffInv, SourceInv,
         \/ Crash \/ \E call \in WorkspaceCalls : Land(call)
         \/ \E session \in Sessions : ProcessExits(session)
  PROVE  SourceInv'
<1>0. signalled \in BOOLEAN
  BY DEF HandoffInv, TypeOK
<1>1. CASE Crash
  <2>1. UNCHANGED row /\ ctl'.at = "idle" /\ ctl'.op = "none"
    BY <1>1 DEF Crash, Idle
  <2>2. CASE signalled' = signalled
    BY <2>1, <2>2, QuietForSource DEF KeepsStop
  <2>3. CASE ctl.at = "stop"
    BY <2>1, <2>3 DEF SourceInv
  <2>4. ctl.at \in Effects /\ Happen(ctl.at) => signalled' = signalled \/ ctl.at = "stop"
    BY <1>0 DEF Happen
  <2> QED  BY <1>1, <2>2, <2>3, <2>4 DEF Crash, outside
<1>2. ASSUME NEW call \in WorkspaceCalls, Land(call)  PROVE SourceInv'
  <2>1. signalled' = signalled /\ UNCHANGED <<row, ctl>>
    BY <1>0, <1>2 DEF Land, Happen, WorkspaceCalls
  <2> QED  BY <2>1 DEF SourceInv
<1>3. ASSUME NEW session \in Sessions, ProcessExits(session)  PROVE SourceInv'
  BY <1>3 DEF ProcessExits, SourceInv
<1> QED  BY <1>1, <1>2, <1>3

\* The source at every step.
LEMMA SourceStep == HandoffInv /\ SourceInv /\ [Next]_vars => SourceInv'
<1> SUFFICES ASSUME HandoffInv, SourceInv, [Next]_vars PROVE SourceInv'
  OBVIOUS
<1>1. CASE Phase
  BY <1>1, PhaseKeepsSource, EffectKeepsSource DEF Phase
<1>2. CASE Daemon \/ Abort
  BY <1>2, DaemonKeepsSource DEF Daemon
<1>3. CASE Release
  BY <1>3, ReleaseKeepsSource DEF Release
<1>4. CASE \E e \in Effects : Succeed(e) \/ Fail(e)
  BY <1>4, EffectKeepsSource
<1>5. CASE \/ Crash \/ \E call \in WorkspaceCalls : Land(call)
           \/ \E session \in Sessions : ProcessExits(session)
  BY <1>5, OutsideKeepsSource
<1>6. CASE UNCHANGED vars
  BY <1>6 DEF vars, SourceInv
<1> QED  BY <1>1, <1>2, <1>3, <1>4, <1>5, <1>6 DEF Next, Controller

\* A release that does not ask for the stop boundary returns a source that
\* nobody signalled, for any number of faults and of controllers that die.
THEOREM ReleasesUntouched == Spec => EarlyReleaseFindsSourceUntouched
<1>1. Init => SourceInv
  BY DEF Init, SourceInv
<1>2. SourceInv => (ctl.op = "prestop" /\ Ended' => ~signalled)
  BY DEF SourceInv
<1> QED
  BY <1>1, <1>2, SourceStep, HandoffInvariant, PTL DEF Spec, EarlyReleaseFindsSourceUntouched
=============================================================================
