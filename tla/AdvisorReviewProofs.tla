------------------------ MODULE AdvisorReviewProofs ------------------------
(***************************************************************************)
(* For any number of helpers, any timeouts and any grace, the call of the  *)
(* advisor is answered in time and its result is truthful.                 *)
(*                                                                         *)
(* In time: the age of a process is bounded by its timeout until it is     *)
(* terminated, by one grace from then until it is killed, and by a second  *)
(* one from then on; each of the timers is set before the one before it    *)
(* has run out.  Truthful: a process that is not being terminated has      *)
(* broken no bound, so a close that counts is one of a sound process.      *)
(***************************************************************************)
EXTENDS AdvisorReview, TLAPS

\* Where the timers of the process under way stand.
Timely ==
  Running =>
    IF Terminating(broker)
    THEN /\ broker.stopAt <= Limit
         /\ IF broker.killAt = None THEN broker.age <= broker.stopAt + Grace
            ELSE /\ broker.killAt <= broker.stopAt + Grace
                 /\ broker.age <= broker.killAt + Grace
    ELSE broker.age <= Limit /\ broker.killAt = None

\* A bound that is broken has terminated the process.
Bounded == Running /\ ~Terminating(broker) => ~broker.timedOut /\ ~Overflow(broker)

\* What a result says, and what a success stands for.
Owned(r) == r.left # {} /\ (r.timedOut \/ r.overflow) => r.error # None
Sound ==
  /\ child.code = "zero" /\ ended.heard = child.said
  /\ ~ended.timedOut /\ ended.error = None
  /\ reviewer \in Tiers /\ reviewer >= request.tier

Truthful ==
  /\ ended # None => Owned(ended)
  /\ verdict = "success" => at \in {"clean", "answered", "gone"} /\ Sound
  /\ at \in {"mkdtemp", "spawn", "review"} =>
       reviewer \in Tiers /\ reviewer >= request.tier

AdvisorInv == TypeOK /\ Timely /\ Bounded /\ Truthful

-----------------------------------------------------------------------------
\* The highest tier is one.
LEMMA TopIsHighest == Top \in Tiers /\ \A u \in Tiers : u <= Top
BY AdvisorAssumption DEF Top

\* A reviewer that is chosen is not below the requester.
LEMMA ChosenIsNotBelow ==
  ASSUME TypeOK, ChooseReviewer, at' = "mkdtemp"
  PROVE  reviewer' \in Tiers /\ reviewer' >= request.tier
<1>1. request.tier \in Tiers /\ Tiers \subseteq Nat /\ request.tier \in Nat
  BY AdvisorAssumption DEF TypeOK
<1>2. PICK installed \in SUBSET Tiers :
        \/ reviewer' = request.tier
        \/ reviewer' \in Resolved(request.tier, installed)
  BY DEF ChooseReviewer, Answer
<1>3. CASE reviewer' = request.tier
  BY <1>1, <1>3
<1>4. CASE reviewer' \in Resolved(request.tier, installed)
  <2>1. reviewer' \in Tiers /\ (reviewer' > request.tier \/ reviewer' = Top)
    BY <1>2, <1>4 DEF Resolved, Candidates
  <2>2. request.tier \in Nat /\ reviewer' \in Nat /\ request.tier <= Top
    BY <1>1, <2>1, TopIsHighest
  <2> QED  BY <2>1, <2>2
<1> QED  BY <1>2, <1>3, <1>4

\* What settles a process ends it for the call.
LEMMA FinishStops ==
  ASSUME Running, NEW b, NEW exit, NEW error, Finish(b, exit, error)
  PROVE  ~Running'
BY DEF Finish, Continue, Answer, Running

-----------------------------------------------------------------------------
\* Types are preserved by what settles a process.
LEMMA FinishTypes ==
  ASSUME TypeOK, NEW b \in Brokers,
         NEW exit \in {None, "zero", "other"},
         NEW error \in {None, "SIGTERM failed", "SIGKILL failed", "survived SIGKILL"},
         Finish(b, exit, error)
  PROVE  TypeOK'
<1>1. [exit |-> exit, error |-> error, heard |-> b.heard, timedOut |-> b.timedOut,
       overflow |-> Overflow(b), left |-> child.alive] \in Results
  BY DEF Results, TypeOK, Brokers, Children, OrNone, Overflow
<1>2. ended' \in Results /\ broker' = NewBroker
  BY <1>1 DEF Finish
<1>3. NewBroker \in Brokers
  BY DEF NewBroker, Brokers, OrNone
<1>4. at' \in {"clean", "reviewer", "answered"} \/ at' = at
  BY DEF Finish, Continue, Answer
<1>5. UNCHANGED <<request, reviewer, cwd, child>>
  BY DEF Finish, call
<1> QED  BY <1>2, <1>3, <1>4, <1>5 DEF TypeOK, OrNone

\* A signal leaves the types alone.
LEMMA SignalTypes ==
  ASSUME TypeOK, NEW sent \in Brokers, NEW b \in Brokers,
         NEW error \in {"SIGTERM failed", "SIGKILL failed"}, SignalOr(sent, b, error)
  PROVE  TypeOK'
<1>1. CASE Finish(b, None, error)
  BY <1>1, FinishTypes
<1>2. CASE broker' = sent /\ UNCHANGED <<at, call, child, ended, verdict>>
  BY <1>2 DEF TypeOK, call
<1> QED  BY <1>1, <1>2 DEF SignalOr

\* So does the termination.
LEMMA TerminateTypes ==
  ASSUME TypeOK, NEW b \in Brokers, Terminate(b)
  PROVE  TypeOK'
<1>1. [b EXCEPT !.stopAt = b.age, !.polledAt = b.age] \in Brokers
  BY DEF Brokers, OrNone
<1>2. CASE Terminating(b)
  BY <1>2 DEF Terminate, TypeOK, call
<1>3. CASE ~Terminating(b)
  BY <1>1, <1>3, SignalTypes DEF Terminate
<1> QED  BY <1>2, <1>3

\* Types are preserved by the spawn of a process.
LEMMA SpawnTypes ==
  ASSUME TypeOK, UNCHANGED call, NEW place \in {"preflight", "review"}, Spawn(place)
  PROVE  TypeOK'
<1>1. NewBroker \in Brokers /\ NewChild \in Children
  BY DEF NewBroker, Brokers, NewChild, NoChild, Children, Members, OrNone
<1>2. [exit |-> None, error |-> "spawn", heard |-> "nothing",
       timedOut |-> FALSE, overflow |-> FALSE, left |-> {}] \in Results
  BY DEF Results, OrNone
<1>3. /\ broker' \in Brokers /\ child' \in Children /\ ended' \in OrNone(Results)
      /\ at' \in {place, "clean", "answered"}
  BY <1>1, <1>2 DEF Spawn, Answer, TypeOK, OrNone
<1> QED  BY <1>3 DEF TypeOK, call

\* Types are preserved by every step.
LEMMA TypeStep == TypeOK /\ [Next]_vars => TypeOK'
<1> SUFFICES ASSUME TypeOK, [Next]_vars PROVE TypeOK'
  OBVIOUS
<1>1. CASE Refuse
  BY <1>1 DEF Refuse, Answer, TypeOK, call
<1>2. CASE Preflight
  BY <1>2, SpawnTypes DEF Preflight
<1>3. CASE ChooseReviewer
  <2>1. at' = "mkdtemp" \/ (at' = "answered" /\ UNCHANGED reviewer)
    BY <1>3 DEF ChooseReviewer, Answer
  <2>2. reviewer' \in OrNone(Tiers)
    BY <1>3, <2>1, ChosenIsNotBelow DEF TypeOK, OrNone
  <2> QED  BY <1>3, <2>1, <2>2 DEF ChooseReviewer, TypeOK
<1>4. CASE MakeDirectory
  BY <1>4 DEF MakeDirectory, Answer, TypeOK
<1>5. CASE Review
  BY <1>5, SpawnTypes DEF Review
<1>6. CASE RemoveDirectory
  BY <1>6 DEF RemoveDirectory, TypeOK
<1>7. CASE TimeOut
  <2>1. [broker EXCEPT !.timedOut = TRUE] \in Brokers
    BY DEF TypeOK, Brokers
  <2> QED  BY <1>7, <2>1, TerminateTypes DEF TimeOut
<1>8. CASE Poll
  <2>1. [broker EXCEPT !.polledAt = broker.age] \in Brokers
    BY DEF TypeOK, Brokers
  <2>2. CASE child.alive = {}
    BY <1>8, <2>2, FinishTypes DEF Poll, TypeOK
  <2>3. CASE child.alive # {}
    BY <1>8, <2>1, <2>3 DEF Poll, TypeOK, call
  <2> QED  BY <2>2, <2>3
<1>9. CASE Kill
  <2>1. [broker EXCEPT !.killAt = broker.age] \in Brokers
    BY DEF TypeOK, Brokers, OrNone
  <2> QED  BY <1>9, <2>1, SignalTypes DEF Kill, TypeOK
<1>10. CASE VerifyGone
  BY <1>10, FinishTypes DEF VerifyGone, TypeOK
<1>11. CASE ReadOutput
  <2> DEFINE b == [broker EXCEPT !.heard = child.said]
  <2>1. b \in Brokers
    BY DEF TypeOK, Brokers, Children
  <2>2. CASE Overflow(b)
    BY <1>11, <2>1, <2>2, TerminateTypes DEF ReadOutput
  <2>3. CASE ~Overflow(b)
    BY <1>11, <2>1, <2>3 DEF ReadOutput, TypeOK, call
  <2> QED  BY <2>2, <2>3
<1>12. CASE Close
  <2>1. child.code \in {"zero", "other", "signal"}
    BY <1>12 DEF Close, TypeOK, Children, OrNone
  <2>2. (IF child.code = "signal" THEN None ELSE child.code) \in {None, "zero", "other"}
    BY <2>1
  <2> QED  BY <1>12, <2>2, FinishTypes DEF Close, TypeOK
<1>13. CASE Tick
  <2>1. [broker EXCEPT !.age = @ + 1] \in Brokers
    BY DEF TypeOK, Brokers
  <2> QED  BY <1>13, <2>1 DEF Tick, TypeOK, call
<1>14. CASE Group
  <2>1. CASE Say
    BY <2>1 DEF Say, ChildStep, TypeOK, Children, call
  <2>2. ASSUME NEW p \in Members, Exit(p) PROVE TypeOK'
    BY <2>2 DEF Exit, ChildStep, TypeOK, Children, OrNone, call
  <2>3. ASSUME NEW p \in Members, Fork(p) PROVE TypeOK'
    <3>1. [child EXCEPT !.alive = @ \cup {p}] \in Children
      BY <2>3 DEF TypeOK, Children
    <3>2. [child EXCEPT !.alive = @ \cup {p}, !.holding = @ \cup {p}] \in Children
      BY <2>3 DEF TypeOK, Children
    <3> QED  BY <2>3, <3>1, <3>2 DEF Fork, ChildStep, TypeOK, call
  <2>4. ASSUME NEW p \in Members, LetGo(p) PROVE TypeOK'
    BY <2>4 DEF LetGo, ChildStep, TypeOK, Children, call
  <2> QED  BY <1>14, <2>1, <2>2, <2>3, <2>4 DEF Group
<1>15. CASE ServerExit
  BY <1>15 DEF ServerExit, TypeOK, call
<1>16. CASE UNCHANGED vars
  BY <1>16 DEF TypeOK, vars
<1> QED
  BY <1>1, <1>2, <1>3, <1>4, <1>5, <1>6, <1>7, <1>8, <1>9, <1>10, <1>11, <1>12,
     <1>13, <1>14, <1>15, <1>16 DEF Next, Call, Process

-----------------------------------------------------------------------------
\* The timers that are set next are set in time.
LEMMA TerminateTimes ==
  ASSUME TypeOK, Timely, Running, NEW b \in Brokers, Terminate(b),
         b.age = broker.age, b.stopAt = broker.stopAt, b.killAt = broker.killAt
  PROVE  Timely'
<1>0. Limit \in Nat /\ Grace \in Nat /\ broker \in Brokers
  BY AdvisorAssumption DEF Limit, TypeOK
<1>1. CASE Terminating(b)
  <2>1. broker' = b /\ at' = at
    BY <1>1 DEF Terminate
  <2>2. Limit' = Limit
    BY <2>1 DEF Limit
  <2> QED  BY <1>1, <2>1, <2>2 DEF Timely, Terminating
<1>2. CASE ~Terminating(b) /\ Finish(b, None, "SIGTERM failed")
  BY <1>2, FinishStops DEF Timely
<1>3. CASE /\ ~Terminating(b) /\ at' = at
           /\ broker' = [b EXCEPT !.stopAt = b.age, !.polledAt = b.age]
  <2>1. /\ broker'.stopAt = broker.age /\ broker'.age = broker.age
        /\ broker'.killAt = None /\ broker.age <= Limit
    BY <1>2, <1>3 DEF Brokers, Timely, Terminating
  <2>2. broker.age \in Nat /\ Limit' = Limit
    BY <1>0, <1>3 DEF Brokers, Limit
  <2>3. broker'.stopAt <= Limit' /\ broker'.age <= broker'.stopAt + Grace
    BY <1>0, <2>1, <2>2
  <2> QED  BY <1>0, <2>1, <2>2, <2>3, AdvisorAssumption DEF Timely, Terminating
<1> QED  BY <1>1, <1>2, <1>3 DEF Terminate, SignalOr

\* A process that is spawned has all of its time before it.
LEMMA SpawnTimes ==
  ASSUME NEW place \in {"preflight", "review"}, Spawn(place)
  PROVE  Timely' /\ Bounded'
<1>1. Limit' \in Nat
  BY AdvisorAssumption DEF Limit
<1>2. CASE broker' = NewBroker
  BY <1>1, <1>2 DEF Timely, Bounded, NewBroker, Terminating, Overflow
<1>3. CASE at' \in {"clean", "answered"}
  BY <1>3 DEF Timely, Bounded, Running
<1> QED  BY <1>2, <1>3 DEF Spawn, Answer

\* Every step keeps the timers in time.
LEMMA TimelyStep == TypeOK /\ Timely /\ Bounded /\ [Next]_vars => Timely'
<1> SUFFICES ASSUME TypeOK, Timely, Bounded, [Next]_vars PROVE Timely'
  OBVIOUS
<1>0. Limit \in Nat /\ Grace \in Nat /\ broker \in Brokers
  BY AdvisorAssumption DEF Limit, TypeOK
<1>1. CASE Refuse \/ ChooseReviewer \/ MakeDirectory \/ RemoveDirectory \/ ServerExit
  BY <1>1 DEF Refuse, ChooseReviewer, MakeDirectory, RemoveDirectory, ServerExit,
              Answer, Timely, Running
<1>2. CASE Preflight \/ Review
  BY <1>2, SpawnTimes DEF Preflight, Review
<1>3. CASE TimeOut
  <2> DEFINE b == [broker EXCEPT !.timedOut = TRUE]
  <2>1. /\ b \in Brokers /\ b.age = broker.age /\ b.stopAt = broker.stopAt
        /\ b.killAt = broker.killAt
    BY <1>0 DEF Brokers
  <2> QED  BY <1>3, <2>1, TerminateTimes DEF TimeOut
<1>4. CASE Poll
  <2>1. CASE child.alive = {}
    BY <1>4, <2>1, FinishStops DEF Poll, Timely
  <2>2. CASE child.alive # {}
    <3>1. broker' = [broker EXCEPT !.polledAt = broker.age] /\ at' = at
      BY <1>4, <2>2 DEF Poll
    <3>2. /\ broker'.age = broker.age /\ broker'.stopAt = broker.stopAt
          /\ broker'.killAt = broker.killAt
      BY <1>0, <3>1 DEF Brokers
    <3> QED  BY <3>1, <3>2 DEF Timely, Terminating, Running, Limit
  <2> QED  BY <2>1, <2>2
<1>5. CASE Kill
  <2>1. CASE Finish(broker, None, "SIGKILL failed")
    BY <1>5, <2>1, FinishStops DEF Kill, Timely
  <2>2. CASE broker' = [broker EXCEPT !.killAt = broker.age] /\ at' = at
    <3>1. /\ broker'.age = broker.age /\ broker'.stopAt = broker.stopAt
          /\ broker'.killAt = broker.age
      BY <1>0, <2>2 DEF Brokers
    <3>2. /\ Running /\ broker.stopAt # None /\ broker.killAt = None
          /\ broker.age \in Nat /\ broker.stopAt \in Nat
      BY <1>0, <1>5 DEF Kill, ForceIsDue, Terminating, Brokers, OrNone
    <3>3. broker.stopAt <= Limit /\ broker.age <= broker.stopAt + Grace
      BY <3>2 DEF Timely, Terminating
    <3>4. broker.age <= broker.age + Grace /\ Limit' = Limit
      BY <1>0, <2>2, <3>2 DEF Limit
    <3> QED
      BY <3>1, <3>2, <3>3, <3>4, AdvisorAssumption DEF Timely, Terminating
  <2> QED  BY <1>5, <2>1, <2>2 DEF Kill, SignalOr
<1>6. CASE VerifyGone
  BY <1>6, FinishStops DEF VerifyGone, Timely
<1>7. CASE ReadOutput
  <2> DEFINE b == [broker EXCEPT !.heard = child.said]
  <2>1. /\ b \in Brokers /\ b.age = broker.age /\ b.stopAt = broker.stopAt
        /\ b.killAt = broker.killAt
    BY <1>0 DEF Brokers, TypeOK, Children
  <2>2. CASE Overflow(b)
    BY <1>7, <2>1, <2>2, TerminateTimes DEF ReadOutput
  <2>3. CASE ~Overflow(b)
    <3>1. broker' = b /\ at' = at
      BY <1>7, <2>3 DEF ReadOutput
    <3> HIDE DEF b
    <3> QED  BY <2>1, <3>1 DEF Timely, Terminating, Running, Limit
  <2> QED  BY <2>2, <2>3
<1>8. CASE Close
  BY <1>8, FinishStops DEF Close, Timely
<1>9. CASE Tick
  <2>1. /\ Running /\ at' = at /\ Limit' = Limit
        /\ ~TimeOutIsDue /\ ~ForceIsDue /\ ~VerifyIsDue
        /\ broker' = [broker EXCEPT !.age = @ + 1]
    BY <1>9 DEF Tick, Limit
  <2>2. /\ broker'.age = broker.age + 1 /\ broker'.stopAt = broker.stopAt
        /\ broker'.killAt = broker.killAt /\ broker.age \in Nat
        /\ broker.stopAt \in OrNone(Nat) /\ broker.killAt \in OrNone(Nat)
    BY <1>0, <2>1 DEF Brokers
  <2>3. CASE ~Terminating(broker)
    <3>1. broker.age + 1 <= Limit /\ broker.killAt = None
      BY <1>0, <2>1, <2>2, <2>3 DEF TimeOutIsDue, Timely, Bounded
    <3> QED  BY <2>1, <2>2, <2>3, <3>1 DEF Timely, Terminating
  <2>4. CASE Terminating(broker) /\ broker.killAt = None
    <3>1. broker.stopAt \in Nat /\ broker.stopAt <= Limit
      BY <2>1, <2>2, <2>4 DEF Terminating, OrNone, Timely
    <3>2. broker.age + 1 <= broker.stopAt + Grace
      BY <1>0, <2>1, <2>2, <2>4, <3>1 DEF ForceIsDue, ForceAt
    <3> QED  BY <2>1, <2>2, <2>4, <3>1, <3>2 DEF Timely, Terminating
  <2>5. CASE Terminating(broker) /\ broker.killAt # None
    <3>1. /\ broker.stopAt <= Limit /\ broker.killAt \in Nat
          /\ broker.killAt <= broker.stopAt + Grace
      BY <2>1, <2>2, <2>5 DEF OrNone, Timely
    <3>2. broker.age + 1 <= broker.killAt + Grace
      BY <1>0, <2>1, <2>2, <2>5, <3>1 DEF VerifyIsDue
    <3> QED  BY <2>1, <2>2, <2>5, <3>1, <3>2 DEF Timely, Terminating
  <2> QED  BY <2>1, <2>3, <2>4, <2>5
<1>10. CASE Group \/ UNCHANGED vars
  <2>1. UNCHANGED <<at, broker>>
    BY <1>10 DEF Group, Say, Exit, Fork, LetGo, ChildStep, vars
  <2> QED  BY <2>1 DEF Timely, Terminating, Running, Limit
<1> QED
  BY <1>1, <1>2, <1>3, <1>4, <1>5, <1>6, <1>7, <1>8, <1>9, <1>10
     DEF Next, Call, Process

-----------------------------------------------------------------------------
\* To terminate is to be excused from the bounds.
LEMMA TerminateBounds ==
  ASSUME Running, NEW b \in Brokers, Terminate(b)
  PROVE  Bounded'
<1>1. CASE Terminating(b)
  BY <1>1 DEF Terminate, Bounded
<1>2. CASE ~Terminating(b) /\ Finish(b, None, "SIGTERM failed")
  BY <1>2, FinishStops DEF Bounded
<1>3. CASE broker' = [b EXCEPT !.stopAt = b.age, !.polledAt = b.age]
  <2>1. broker'.stopAt = b.age /\ b.age \in Nat
    BY <1>3 DEF Brokers
  <2> QED  BY <2>1, AdvisorAssumption DEF Bounded, Terminating
<1> QED  BY <1>1, <1>2, <1>3 DEF Terminate, SignalOr

\* Every step that breaks a bound terminates.
LEMMA BoundedStep == TypeOK /\ Bounded /\ [Next]_vars => Bounded'
<1> SUFFICES ASSUME TypeOK, Bounded, [Next]_vars PROVE Bounded'
  OBVIOUS
<1>0. broker \in Brokers
  BY DEF TypeOK
<1>1. CASE Refuse \/ ChooseReviewer \/ MakeDirectory \/ RemoveDirectory \/ ServerExit
  BY <1>1 DEF Refuse, ChooseReviewer, MakeDirectory, RemoveDirectory, ServerExit,
              Answer, Bounded, Running
<1>2. CASE Preflight \/ Review
  BY <1>2, SpawnTimes DEF Preflight, Review
<1>3. CASE TimeOut
  <2>1. [broker EXCEPT !.timedOut = TRUE] \in Brokers
    BY <1>0 DEF Brokers
  <2> QED  BY <1>3, <2>1, TerminateBounds DEF TimeOut
<1>4. CASE Poll
  <2>1. CASE child.alive = {}
    BY <1>4, <2>1, FinishStops DEF Poll, Bounded
  <2>2. CASE child.alive # {}
    <3>1. broker' = [broker EXCEPT !.polledAt = broker.age] /\ Terminating(broker)
      BY <1>4, <2>2 DEF Poll, PollIsDue
    <3>2. broker'.stopAt = broker.stopAt
      BY <1>0, <3>1 DEF Brokers
    <3> QED  BY <3>1, <3>2 DEF Bounded, Terminating
  <2> QED  BY <2>1, <2>2
<1>5. CASE Kill
  <2>1. CASE Finish(broker, None, "SIGKILL failed")
    BY <1>5, <2>1, FinishStops DEF Kill, Bounded
  <2>2. CASE broker' = [broker EXCEPT !.killAt = broker.age]
    <3>1. broker'.stopAt = broker.stopAt
      BY <1>0, <2>2 DEF Brokers
    <3> QED  BY <1>5, <3>1 DEF Kill, ForceIsDue, Bounded, Terminating
  <2> QED  BY <1>5, <2>1, <2>2 DEF Kill, SignalOr
<1>6. CASE VerifyGone
  BY <1>6, FinishStops DEF VerifyGone, Bounded
<1>7. CASE ReadOutput
  <2> DEFINE b == [broker EXCEPT !.heard = child.said]
  <2>1. b \in Brokers /\ b.stopAt = broker.stopAt /\ b.timedOut = broker.timedOut
    BY <1>0 DEF Brokers, TypeOK, Children
  <2>2. CASE Overflow(b)
    BY <1>7, <2>1, <2>2, TerminateBounds DEF ReadOutput
  <2>3. CASE ~Overflow(b)
    <3>1. broker' = b /\ at' = at
      BY <1>7, <2>3 DEF ReadOutput
    <3> HIDE DEF b
    <3> QED  BY <2>1, <2>3, <3>1 DEF Bounded, Terminating, Overflow, Running
  <2> QED  BY <2>2, <2>3
<1>8. CASE Close
  BY <1>8, FinishStops DEF Close, Bounded
<1>9. CASE Tick
  <2>1. at' = at /\ broker' = [broker EXCEPT !.age = @ + 1]
    BY <1>9 DEF Tick
  <2>2. /\ broker'.stopAt = broker.stopAt /\ broker'.timedOut = broker.timedOut
        /\ broker'.heard = broker.heard
    BY <1>0, <2>1 DEF Brokers
  <2> QED  BY <2>1, <2>2 DEF Bounded, Terminating, Overflow, Running
<1>10. CASE Group \/ UNCHANGED vars
  <2>1. UNCHANGED <<at, broker>>
    BY <1>10 DEF Group, Say, Exit, Fork, LetGo, ChildStep, vars
  <2> QED  BY <2>1 DEF Bounded, Terminating, Overflow, Running
<1> QED
  BY <1>1, <1>2, <1>3, <1>4, <1>5, <1>6, <1>7, <1>8, <1>9, <1>10
     DEF Next, Call, Process

-----------------------------------------------------------------------------
\* What settles a process that has not left by itself is no success, and it
\* leaves no member behind without saying so.
LEMMA SettleTruth ==
  ASSUME TypeOK, Truthful, Running, NEW b \in Brokers,
         NEW error \in {None, "SIGTERM failed", "SIGKILL failed", "survived SIGKILL"},
         error = None => child.alive = {},
         Finish(b, None, error)
  PROVE  Truthful'
<1> DEFINE r == [exit |-> None, error |-> error, heard |-> b.heard,
                 timedOut |-> b.timedOut, overflow |-> Overflow(b), left |-> child.alive]
<1>1. ended' = r /\ Continue(r) /\ UNCHANGED <<call, child>>
  BY DEF Finish
<1>2. Owned(r)
  BY DEF Owned
<1>3. r.exit # "zero"
  BY AdvisorAssumption
<1>4. at' \in {"clean", "answered"} /\ verdict' # "success"
  <2>1. verdict # "success"
    BY DEF Truthful, Running
  <2>2. b.timedOut \in BOOLEAN /\ Verdict(r) # "success"
    BY <1>3 DEF Verdict, Brokers, Overflow
  <2> HIDE DEF r
  <2> QED  BY <1>1, <1>3, <2>1, <2>2 DEF Continue, HealthyPreflight, Answer
<1> HIDE DEF r
<1> QED  BY <1>1, <1>2, <1>4 DEF Truthful

\* A signal that is sent settles nothing; one that fails says so.
LEMMA SignalTruth ==
  ASSUME TypeOK, Truthful, Running, NEW sent, NEW b \in Brokers,
         NEW error \in {"SIGTERM failed", "SIGKILL failed"}, SignalOr(sent, b, error)
  PROVE  Truthful'
<1>1. CASE Finish(b, None, error)
  BY <1>1, SettleTruth, AdvisorAssumption
<1>2. CASE UNCHANGED <<at, call, child, ended, verdict>>
  BY <1>2 DEF Truthful, Sound, call
<1> QED  BY <1>1, <1>2 DEF SignalOr

\* So does a termination.
LEMMA TerminateTruth ==
  ASSUME TypeOK, Truthful, Running, NEW b \in Brokers, Terminate(b)
  PROVE  Truthful'
<1>1. CASE Terminating(b)
  BY <1>1 DEF Terminate, Truthful, Sound, call
<1>2. CASE ~Terminating(b)
  BY <1>2, SignalTruth DEF Terminate
<1> QED  BY <1>1, <1>2

\* A process that is spawned has no result yet, and a spawn that fails no
\* success.
LEMMA SpawnTruth ==
  ASSUME Truthful, at \in {"idle", "spawn"}, UNCHANGED call,
         NEW place \in {"preflight", "review"}, Spawn(place),
         place = "review" => at = "spawn"
  PROVE  Truthful'
<1> DEFINE r == [exit |-> None, error |-> "spawn", heard |-> "nothing",
                 timedOut |-> FALSE, overflow |-> FALSE, left |-> {}]
<1>1. verdict # "success"
  BY DEF Truthful
<1>2. Owned(r) /\ Verdict(r) # "success"
  BY AdvisorAssumption DEF Owned, Verdict
<1>3. CASE at' = place /\ ended' = None /\ UNCHANGED verdict
  BY <1>1, <1>3 DEF Truthful, call
<1>4. CASE /\ ended' = r
           /\ IF place = "review" THEN at' = "clean" /\ verdict' = Verdict(r)
              ELSE Answer("codex-runtime-incomplete")
  <2> HIDE DEF r
  <2> QED  BY <1>2, <1>4 DEF Truthful, Answer
<1> QED  BY <1>3, <1>4 DEF Spawn

\* Every step leaves a truthful result.
LEMMA TruthfulStep == TypeOK /\ Bounded /\ Truthful /\ [Next]_vars => Truthful'
<1> SUFFICES ASSUME TypeOK, Bounded, Truthful, [Next]_vars PROVE Truthful'
  OBVIOUS
<1>0. broker \in Brokers
  BY DEF TypeOK
<1>1. CASE Refuse
  BY <1>1 DEF Refuse, Answer, Refusals, Truthful, call
<1>2. CASE Preflight
  BY <1>2, SpawnTruth DEF Preflight
<1>3. CASE ChooseReviewer
  <2>1. /\ at = "reviewer" /\ UNCHANGED <<request, ended>>
        /\ at' \in {"mkdtemp", "answered"} /\ verdict' # "success"
    BY <1>3 DEF ChooseReviewer, Answer, Truthful
  <2>2. at' = "mkdtemp" => reviewer' \in Tiers /\ reviewer' >= request.tier
    BY <1>3, ChosenIsNotBelow
  <2> QED  BY <2>1, <2>2 DEF Truthful
<1>4. CASE MakeDirectory
  BY <1>4 DEF MakeDirectory, Answer, Truthful
<1>5. CASE Review
  BY <1>5, SpawnTruth DEF Review
<1>6. CASE RemoveDirectory
  BY <1>6 DEF RemoveDirectory, Truthful, Sound
<1>7. CASE TimeOut
  <2>1. [broker EXCEPT !.timedOut = TRUE] \in Brokers
    BY <1>0 DEF Brokers
  <2> QED  BY <1>7, <2>1, TerminateTruth DEF TimeOut
<1>8. CASE Poll
  <2>1. CASE child.alive = {}
    BY <1>0, <1>8, <2>1, SettleTruth DEF Poll
  <2>2. CASE child.alive # {}
    BY <1>8, <2>2 DEF Poll, Truthful, Sound, call
  <2> QED  BY <2>1, <2>2
<1>9. CASE Kill
  BY <1>0, <1>9, SignalTruth DEF Kill
<1>10. CASE VerifyGone
  BY <1>0, <1>10, SettleTruth, AdvisorAssumption DEF VerifyGone
<1>11. CASE ReadOutput
  <2>1. [broker EXCEPT !.heard = child.said] \in Brokers
    BY <1>0 DEF Brokers, TypeOK, Children
  <2>2. CASE Overflow([broker EXCEPT !.heard = child.said])
    BY <1>11, <2>1, <2>2, TerminateTruth DEF ReadOutput
  <2>3. CASE ~Overflow([broker EXCEPT !.heard = child.said])
    BY <1>11, <2>3 DEF ReadOutput, Truthful, Sound, call
  <2> QED  BY <2>2, <2>3
<1>12. CASE Close
  <2> DEFINE exit == IF child.code = "signal" THEN None ELSE child.code
             r == [exit |-> exit, error |-> None, heard |-> broker.heard,
                   timedOut |-> broker.timedOut, overflow |-> Overflow(broker),
                   left |-> child.alive]
  <2>1. ended' = r /\ Continue(r) /\ UNCHANGED <<call, child>>
    BY <1>12 DEF Close, Finish
  <2>2. ~broker.timedOut /\ ~Overflow(broker) /\ broker.heard = child.said
    BY <1>12 DEF Close, Bounded, Drained
  <2>3. r.exit = "zero" => child.code = "zero"
    BY AdvisorAssumption
  <2>4. /\ Owned(r) /\ ~r.timedOut /\ r.error = None /\ r.heard = child.said
    BY <2>2 DEF Owned
  <2>5. Verdict(r) = "success" => r.exit = "zero"
    BY <2>2 DEF Verdict
  <2> HIDE DEF exit, r
  <2>6. CASE at = "review"
    <3>1. at' = "clean" /\ verdict' = Verdict(r)
      BY <2>1, <2>6 DEF Continue
    <3>2. reviewer' \in Tiers /\ reviewer' >= request'.tier
      BY <2>1, <2>6 DEF Truthful, call
    <3> QED  BY <2>1, <2>3, <2>4, <2>5, <3>1, <3>2 DEF Truthful, Sound
  <2>7. CASE at = "preflight"
    <3>1. at' \in {"reviewer", "answered"} /\ verdict' # "success"
      BY <2>1, <2>7 DEF Continue, Answer, Truthful
    <3> QED  BY <2>1, <2>4, <3>1 DEF Truthful
  <2> QED  BY <1>12, <2>6, <2>7 DEF Close, Running
<1>13. CASE Tick
  BY <1>13 DEF Tick, Truthful, Sound, call
<1>14. CASE Group
  <2>1. UNCHANGED <<at, call, ended, verdict>> /\ verdict # "success"
    BY <1>14 DEF Group, Say, Exit, Fork, LetGo, ChildStep, Truthful, Running
  <2> QED  BY <2>1 DEF Truthful, call
<1>15. CASE ServerExit
  BY <1>15 DEF ServerExit, Truthful, Sound, call
<1>16. CASE UNCHANGED vars
  BY <1>16 DEF vars, Truthful, Sound, call
<1> QED
  BY <1>1, <1>2, <1>3, <1>4, <1>5, <1>6, <1>7, <1>8, <1>9, <1>10, <1>11, <1>12,
     <1>13, <1>14, <1>15, <1>16 DEF Next, Call, Process

-----------------------------------------------------------------------------
\* The invariant holds before the call.
LEMMA AdvisorInit == Init => AdvisorInv
<1> SUFFICES ASSUME Init PROVE AdvisorInv
  OBVIOUS
<1>1. NewBroker \in Brokers /\ NoChild \in Children
  BY DEF NewBroker, Brokers, NoChild, Children, OrNone
<1>2. TypeOK
  BY <1>1 DEF Init, TypeOK, OrNone
<1>3. Timely /\ Bounded /\ Truthful
  BY DEF Init, Timely, Bounded, Truthful, Running
<1> QED  BY <1>2, <1>3 DEF AdvisorInv

LEMMA AdvisorStep == AdvisorInv /\ [Next]_vars => AdvisorInv'
BY TypeStep, TimelyStep, BoundedStep, TruthfulStep DEF AdvisorInv

LEMMA AdvisorInvariant == Spec => []AdvisorInv
BY AdvisorInit, AdvisorStep, PTL DEF Spec

\* For any helpers, timeouts and grace the call, its processes and its timers
\* stay within the places, exits and results of advisor-review.ts.
THEOREM TypeCorrect == Spec => []TypeOK
<1>1. AdvisorInv => TypeOK
  BY DEF AdvisorInv
<1> QED  BY <1>1, AdvisorInvariant, PTL

\* However many processes there are, and whatever they do with signals, forks
\* and pipes, runFixedProcess settles within the timeout and two graces.
THEOREM SettlesInTime == Spec => []AnsweredInTime
<1>1. AdvisorInv => AnsweredInTime
  <2> SUFFICES ASSUME AdvisorInv, Running
               PROVE  broker.age <= Limit + 2 * Grace
    BY DEF AnsweredInTime
  <2>1. /\ Limit \in Nat /\ Grace \in Nat /\ broker.age \in Nat
        /\ broker.stopAt \in OrNone(Nat) /\ broker.killAt \in OrNone(Nat)
    BY AdvisorAssumption DEF Limit, AdvisorInv, TypeOK, Brokers
  <2>2. CASE ~Terminating(broker)
    BY <2>1, <2>2 DEF AdvisorInv, Timely
  <2>3. CASE Terminating(broker) /\ broker.killAt = None
    <3>1. broker.stopAt \in Nat
      BY <2>1, <2>3 DEF Terminating, OrNone
    <3> QED  BY <2>1, <2>3, <3>1 DEF AdvisorInv, Timely
  <2>4. CASE Terminating(broker) /\ broker.killAt # None
    <3>1. broker.stopAt \in Nat /\ broker.killAt \in Nat
      BY <2>1, <2>4 DEF Terminating, OrNone
    <3> QED  BY <2>1, <2>4, <3>1 DEF AdvisorInv, Timely
  <2> QED  BY <2>2, <2>3, <2>4
<1> QED  BY <1>1, AdvisorInvariant, PTL

\* A success is one, from a reviewer not below the requester, and what was
\* stopped has left nobody behind unless the result says so.
THEOREM ResultsAreTruthful == Spec => []ResultIsTruthful
<1>1. AdvisorInv => ResultIsTruthful
  BY DEF AdvisorInv, Truthful, Owned, Sound, ResultIsTruthful
<1> QED  BY <1>1, AdvisorInvariant, PTL
=============================================================================
