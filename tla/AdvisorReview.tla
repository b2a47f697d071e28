--------------------------- MODULE AdvisorReview ---------------------------
(***************************************************************************)
(* run_codex_advisor_review (state-manager/src/tools/advisor-review.ts):   *)
(* one call runs a preflight and then one reviewer, each a process group   *)
(* of its own with bounded time and output, and answers with a verdict.    *)
(*                                                                         *)
(* Time is counted in poll intervals since a process was spawned, and a    *)
(* timer that is due runs before time goes on: the event loop keeps up.    *)
(* The members of the group exit, fork, write and let go of the pipes as   *)
(* they like; signals are requests to them.  One call stands for all, as   *)
(* calls share nothing.                                                    *)
(***************************************************************************)
EXTENDS Integers, FiniteSets

CONSTANTS
  Leader,             \* the process that is spawned
  Helpers,            \* the processes it may leave in its group
  PreflightTimeout,   \* bounds of time, and the grace given after a signal
  ReviewTimeout,
  Grace,
  Tiers,              \* ranks of the reviewer families, lowest first
  None                \* no time, no exit code, no error, no reviewer

Members == Helpers \cup {Leader}
Top == CHOOSE t \in Tiers : \A u \in Tiers : u <= t

ASSUME AdvisorAssumption ==
  /\ Leader \notin Helpers
  /\ PreflightTimeout \in Nat /\ ReviewTimeout \in Nat /\ Grace \in Nat
  /\ Tiers \subseteq Nat /\ Tiers # {}
  /\ \E t \in Tiers : \A u \in Tiers : u <= t
  /\ None \notin Nat
  /\ None \notin {"zero", "other", "signal"}
  /\ None \notin {"spawn", "SIGTERM failed", "SIGKILL failed", "survived SIGKILL"}

VARIABLES
  at,        \* where the call is; "gone" when the server has exited
  request,   \* the requester's tier, and the tier of review asked for
  reviewer,  \* the tier of the reviewer chosen
  cwd,       \* the private directory of the review
  child,     \* the process group under way
  broker,    \* what runFixedProcess has read and which timers it has set
  ended,     \* the result of the last process
  verdict    \* the answer, or what it will be

vars == <<at, request, reviewer, cwd, child, broker, ended, verdict>>
call == <<request, reviewer, cwd>>

-----------------------------------------------------------------------------
NoChild == [alive |-> {}, holding |-> {}, said |-> "nothing", code |-> None]
NewChild == [NoChild EXCEPT !.alive = {Leader}, !.holding = {Leader}]

\* The state runFixedProcess keeps of a process.
NewBroker == [age |-> 0, heard |-> "nothing", timedOut |-> FALSE,
              stopAt |-> None, killAt |-> None, polledAt |-> 0]

Running == at \in {"preflight", "review"}
Limit == IF at = "preflight" THEN PreflightTimeout ELSE ReviewTimeout
Overflow(b) == b.heard = "flood"
Terminating(b) == b.stopAt # None

\* The checks of the arguments, the session, the runtime, the platform and
\* the launcher that come before any process.
Refusals == {"input-refused", "caller-refused", "runtime-refused", "executable-not-found"}

Init ==
  /\ at = "idle" /\ request \in [tier : Tiers, review : {"same", "one-up"}]
  /\ reviewer = None /\ cwd = "none"
  /\ child = NoChild /\ broker = NewBroker
  /\ ended = None /\ verdict = "none"

-----------------------------------------------------------------------------
(* What becomes of a result.                                                *)

\* parseLastAgentMessage, and the preflight's "healthy" payload
Reported(r) == r.heard = "report"

HealthyPreflight(r) == r.exit = "zero" /\ Reported(r)

Verdict(r) ==
  CASE r.timedOut              -> "reviewer-timeout"
    [] ~r.timedOut /\ r.overflow -> "reviewer-output-too-large"
    [] ~r.timedOut /\ ~r.overflow /\ r.error # None -> "reviewer-spawn-failed"
    [] ~r.timedOut /\ ~r.overflow /\ r.error = None ->
         IF r.exit # "zero" THEN "reviewer-nonzero"
         ELSE IF Reported(r) THEN "success" ELSE "reviewer-output-invalid"

Answer(reason) == at' = "answered" /\ verdict' = reason

\* What the call does once its process has settled.
Continue(r) ==
  IF at = "review" THEN at' = "clean" /\ verdict' = Verdict(r)
  ELSE IF HealthyPreflight(r) THEN at' = "reviewer" /\ UNCHANGED verdict
  ELSE Answer("codex-runtime-incomplete")

\* finish: the timers are cleared with it, and what it leaves is history.
Finish(b, exit, error) ==
  LET r == [exit |-> exit, error |-> error, heard |-> b.heard,
            timedOut |-> b.timedOut, overflow |-> Overflow(b), left |-> child.alive]
  IN /\ ended' = r /\ broker' = NewBroker /\ Continue(r)
     /\ UNCHANGED <<call, child>>

-----------------------------------------------------------------------------
(* The call.                                                                *)

Refuse ==
  /\ at = "idle" /\ \E reason \in Refusals : Answer(reason)
  /\ UNCHANGED <<call, child, broker, ended>>

\* The spawn of a process: it may throw, or answer with an error event.
Spawn(place) ==
  \/ /\ at' = place /\ child' = NewChild /\ broker' = NewBroker /\ ended' = None
     /\ UNCHANGED verdict
  \/ LET r == [exit |-> None, error |-> "spawn", heard |-> "nothing",
               timedOut |-> FALSE, overflow |-> FALSE, left |-> {}]
     IN /\ ended' = r /\ UNCHANGED <<child, broker>>
        /\ IF place = "review" THEN at' = "clean" /\ verdict' = Verdict(r)
           ELSE Answer("codex-runtime-incomplete")

Preflight == at = "idle" /\ Spawn("preflight") /\ UNCHANGED call

\* resolveCodexReviewer: the lowest installed tier from one above the
\* requester's, or the top, on; there may be none.
Candidates(tier, installed) ==
  {t \in installed : t > tier \/ t = Top}
Resolved(tier, installed) ==
  {t \in Candidates(tier, installed) : \A u \in Candidates(tier, installed) : t <= u}

ChooseReviewer ==
  /\ at = "reviewer"
  /\ \E installed \in SUBSET Tiers :
       LET chosen == IF request.review = "same" THEN {request.tier}
                     ELSE Resolved(request.tier, installed)
       IN IF chosen = {}
          THEN Answer("codex-reviewer-model-unavailable") /\ UNCHANGED reviewer
          ELSE reviewer' \in chosen /\ at' = "mkdtemp" /\ UNCHANGED verdict
  /\ UNCHANGED <<request, cwd, child, broker, ended>>

MakeDirectory ==
  /\ at = "mkdtemp"
  /\ \/ cwd' = "there" /\ at' = "spawn" /\ UNCHANGED verdict
     \/ Answer("advisor-broker-failed") /\ UNCHANGED cwd
  /\ UNCHANGED <<request, reviewer, child, broker, ended>>

Review == at = "spawn" /\ Spawn("review") /\ UNCHANGED call

RemoveDirectory ==
  /\ at = "clean" /\ at' = "answered"
  /\ \/ cwd' = "removed" /\ UNCHANGED verdict
     \/ verdict' = "advisor-cleanup-failed" /\ UNCHANGED cwd
  /\ UNCHANGED <<request, reviewer, child, broker, ended>>

-----------------------------------------------------------------------------
(* runFixedProcess: timers and events.                                      *)

\* A signal reaches the group unless the group is gone or refuses it.
SignalOr(sent, b, error) ==
  \/ /\ child.alive # {} /\ broker' = sent
     /\ UNCHANGED <<at, call, child, ended, verdict>>
  \/ Finish(b, None, error)

\* terminate: once, whoever asks.
Terminate(b) ==
  IF Terminating(b)
  THEN broker' = b /\ UNCHANGED <<at, call, child, ended, verdict>>
  ELSE SignalOr([b EXCEPT !.stopAt = b.age, !.polledAt = b.age], b, "SIGTERM failed")

TimeOutIsDue == ~broker.timedOut /\ broker.age >= Limit
TimeOut ==
  /\ Running /\ TimeOutIsDue
  /\ Terminate([broker EXCEPT !.timedOut = TRUE])

PollIsDue == Terminating(broker) /\ broker.age > broker.polledAt
Poll ==
  /\ Running /\ PollIsDue
  /\ IF child.alive = {} THEN Finish(broker, None, None)
     ELSE /\ broker' = [broker EXCEPT !.polledAt = broker.age]
          /\ UNCHANGED <<at, call, child, ended, verdict>>

\* Mutant: every poll sets the timer again.
ForceAfterPoll == broker.polledAt + Grace

\* When the group is to be killed.
ForceAt == broker.stopAt + Grace

ForceIsDue ==
  Terminating(broker) /\ broker.killAt = None /\ broker.age >= ForceAt
Kill ==
  /\ Running /\ ForceIsDue
  /\ SignalOr([broker EXCEPT !.killAt = broker.age], broker, "SIGKILL failed")

VerifyIsDue == broker.killAt # None /\ broker.age >= broker.killAt + Grace
VerifyGone ==
  /\ Running /\ VerifyIsDue
  /\ Finish(broker, None, IF child.alive = {} THEN None ELSE "survived SIGKILL")

\* Output is kept up to a limit; what goes beyond it terminates.
ReadOutput ==
  LET b == [broker EXCEPT !.heard = child.said]
  IN /\ Running /\ ~Overflow(broker) /\ broker.heard # child.said
     /\ IF Overflow(b) THEN Terminate(b)
        ELSE broker' = b /\ UNCHANGED <<at, call, child, ended, verdict>>

Drained == Overflow(broker) \/ broker.heard = child.said

\* Mutant: the close of a process that is being terminated counts too.
CloseAnyway ==
  /\ Running /\ child.code # None /\ child.holding = {} /\ Drained
  /\ Finish(broker, IF child.code = "signal" THEN None ELSE child.code, None)

\* The close event: the leader has exited and nobody holds the pipes.
Close ==
  /\ Running /\ ~Terminating(broker)
  /\ child.code # None /\ child.holding = {} /\ Drained
  /\ Finish(broker, IF child.code = "signal" THEN None ELSE child.code, None)

Tick ==
  /\ Running /\ ~(TimeOutIsDue \/ PollIsDue \/ ForceIsDue \/ VerifyIsDue)
  /\ broker' = [broker EXCEPT !.age = @ + 1]
  /\ UNCHANGED <<at, call, child, ended, verdict>>

-----------------------------------------------------------------------------
(* The process group and the server.                                        *)

ChildStep(new) == child' = new /\ UNCHANGED <<at, call, broker, ended, verdict>>

Exit(p) ==
  /\ p \in child.alive
  /\ \E code \in IF p = Leader THEN {"zero", "other", "signal"} ELSE {child.code} :
       ChildStep([child EXCEPT !.alive = @ \ {p}, !.holding = @ \ {p}, !.code = code])

\* A helper inherits the pipes, or is started without them.
Fork(p) ==
  /\ p \in Helpers \ child.alive
  /\ child.alive # {}
  /\ \/ ChildStep([child EXCEPT !.alive = @ \cup {p}])
     \/ child.holding # {} /\ ChildStep([child EXCEPT !.alive = @ \cup {p}, !.holding = @ \cup {p}])

LetGo(p) == p \in child.holding /\ ChildStep([child EXCEPT !.holding = @ \ {p}])

Say ==
  /\ child.holding # {} /\ child.said # "flood"
  /\ \E more \in {"report", "flood"} :
       more # child.said /\ ChildStep([child EXCEPT !.said = more])

\* The client has closed stdin, or the parent is gone: process.exit, with no
\* thought of the group, which is detached, nor of the directory.
ServerExit ==
  /\ at \notin {"answered", "gone"} /\ at' = "gone"
  /\ UNCHANGED <<call, child, broker, ended, verdict>>

-----------------------------------------------------------------------------
Call ==
  \/ Refuse \/ Preflight \/ ChooseReviewer \/ MakeDirectory \/ Review
  \/ RemoveDirectory

Process == TimeOut \/ Poll \/ Kill \/ VerifyGone \/ ReadOutput \/ Close \/ Tick

Group == Running /\ (Say \/ \E p \in Members : Exit(p) \/ Fork(p) \/ LetGo(p))

Next == Call \/ Process \/ Group \/ ServerExit

Spec == Init /\ [][Next]_vars

-----------------------------------------------------------------------------
OrNone(set) == {None} \cup set
Children == [alive : SUBSET Members, holding : SUBSET Members,
             said : {"nothing", "report", "flood"},
             code : OrNone({"zero", "other", "signal"})]
Brokers == [age : Nat, heard : {"nothing", "report", "flood"}, timedOut : BOOLEAN,
            stopAt : OrNone(Nat), killAt : OrNone(Nat), polledAt : Nat]
Results == [exit : OrNone({"zero", "other"}),
            error : OrNone({"spawn", "SIGTERM failed", "SIGKILL failed", "survived SIGKILL"}),
            heard : {"nothing", "report", "flood"}, timedOut : BOOLEAN,
            overflow : BOOLEAN, left : SUBSET Members]

TypeOK ==
  /\ at \in {"idle", "preflight", "reviewer", "mkdtemp", "spawn", "review", "clean",
             "answered", "gone"}
  /\ request \in [tier : Tiers, review : {"same", "one-up"}]
  /\ reviewer \in OrNone(Tiers)
  /\ cwd \in {"none", "there", "removed"}
  /\ child \in Children /\ broker \in Brokers
  /\ ended \in OrNone(Results)

-----------------------------------------------------------------------------
\* A process never occupies the call for longer than its timeout and two
\* graces, whatever its group does and whichever bound it breaks: it may hold
\* the pipes open, ignore SIGTERM, fork while it is polled, or overflow just
\* before its time is out (runFixedProcess: terminate, poll, kill, verify).
AnsweredInTime == Running => broker.age <= Limit + 2 * Grace

\* The result is not better than what happened.  A process that was stopped
\* for its time or its output leaves no member of its group behind, unless
\* the error says that a signal failed or did not help; and a review counts as
\* a success only if its leader exited with zero by itself, within time, its
\* whole output was read, and the reviewer is not below the requester.
ResultIsTruthful ==
  ended # None =>
    /\ ended.left # {} /\ (ended.timedOut \/ ended.overflow) => ended.error # None
    /\ verdict = "success" =>
         /\ child.code = "zero" /\ ended.heard = child.said
         /\ ~ended.timedOut /\ ended.error = None
         /\ reviewer >= request.tier
=============================================================================
