--------------------------- MODULE WorkspaceProofs ---------------------------
(***************************************************************************)
(* For any GUIDs, sessions, workers, changes and processes and any number  *)
(* of crashes: a hand-off has its assignment to itself, an owner keeps its *)
(* row for its life, and, where no call comes late, an active row has its  *)
(* worktree; without the slips nothing anybody made is lost.               *)
(*                                                                         *)
(* The inductive invariant has three parts.  BaseInv holds in every run:   *)
(* the state is well-formed, a claimed call holds its claim, no worktree   *)
(* is without a branch.  LifeInv holds where no call comes late: a call    *)
(* finds its row as it left it, and a row that is reserved where an orphan *)
(* is torn down has no worktree of its own yet.  WorkInv holds without     *)
(* slips: what a call is about to remove is in the target, behind the      *)
(* recovery ref, or was given up.                                          *)
(*                                                                         *)
(* A lemma Does<Action> says of each action what it keeps and what it does *)
(* to each map; the lemmas <Part>Kept go by action and use only those.     *)
(***************************************************************************)
EXTENDS Workspace, TLAPS

(* --- What every run keeps ---------------------------------------------- *)
\* An answer of an operator speaks of a tip.
AnswersHaveTips ==
  \A c \in Callers : call[c] # None /\ call[c].op \in {"drop", "merge"} =>
    call[c].tip \in Commits

\* Who runs a claimed call holds the claim of its GUID.
CallsHoldClaims ==
  \A c \in Callers : call[c] # None /\ call[c].op \in Claimed =>
    claim[call[c].guid] = c

TreesHaveBranches == \A g \in Guids : tree[g] # None => branch[g] # None

\* What a new branch begins with stays in the target.
BasesAreMerged ==
  \A c \in Callers : call[c] # None /\ call[c].at = "add" =>
    call[c].expected \in Commits /\ call[c].expected \subseteq target

\* The part of HandoffIsUndisturbed that speaks of rows and claims.
HandoffsHaveRows ==
  \A g \in Guids : handoff[g] # "none" =>
    claim[g] \in {None, Dead} /\ row[g] # None /\ row[g].status = "active"

CallsOK ==
  /\ claim \in [Guids -> {None, Dead} \cup Callers]
  /\ call \in [Callers -> {None} \cup Calls]
  /\ \A c \in Callers, g \in Guids : claim[g] = c =>
       call[c] # None /\ call[c].guid = g /\ call[c].op \in Claimed
  /\ AnswersHaveTips /\ CallsHoldClaims

StoreOK ==
  /\ row \in [Guids -> {None} \cup Rows]
  /\ handoff \in [Guids -> Phases]
  /\ surface \in [Guids -> {None} \cup Surfaced]
  /\ branch \in [Guids -> {None} \cup Commits]
  /\ recovery \in [Guids -> {None} \cup Commits]
  /\ tree \in [Guids -> {None} \cup Trees]
  /\ {target, made, dropped} \subseteq Commits
  /\ young \subseteq Guids
  /\ crashes \in 0 .. MaxCrashes
  /\ TreesHaveBranches /\ HandoffsHaveRows

WellFormed == CallsOK /\ StoreOK

BaseInv == WellFormed /\ BasesAreMerged

(* --- What is kept when no call comes late ------------------------------ *)
EndsLive == {"commit", "anchor", "abandon"}
TearsDown == {"prove", "remove", "delete", "clean"}

\* A claimed call finds its row in the state it left it in.
RowsAwaitCalls ==
  \A c \in Callers : call[c] # None /\ call[c].op \in Claimed =>
    /\ call[c].at \in EndsLive => IsLive(call[c].guid)
    /\ call[c].at = "leave" =>
         row[call[c].guid] # None /\ row[call[c].guid].status = "abandoned"
    /\ call[c].at \in TearsDown =>
         row[call[c].guid] # None /\ row[call[c].guid].status \in {"integrated", "abandoned"}

ReapsAt == {"advance", "remove", "delete"}

\* A row that appears while an orphan is torn down is not of the worktree:
\* it stays reserved until it is given up, and no allocation has made one.
OrphansStayOrphans ==
  \A c \in Callers :
    call[c] # None /\ call[c].op \in Reapers /\ call[c].at \in ReapsAt
      /\ row[call[c].guid] # None =>
    /\ row[call[c].guid].status \in {"reserved", "abandoned", "cleaned"}
    /\ row[call[c].guid].status = "reserved" =>
         \A d \in Callers : call[d] # None /\ call[d].op = "allocate" =>
           ~(call[d].guid = call[c].guid /\ call[d].at = "materialize")

HasTree(g) == tree[g] # None /\ branch[g] # None

LiveRowsHaveTrees ==
  /\ \A g \in Guids : IsLive(g) /\ row[g].status # "reserved" => HasTree(g)
  /\ \A c \in Callers :
       /\ call[c] # None /\ call[c].op = "allocate" /\ call[c].at = "materialize"
       /\ row[call[c].guid] # None /\ row[call[c].guid].status = "reserved"
       => HasTree(call[c].guid)

LifeInv == RowsAwaitCalls /\ OrphansStayOrphans /\ LiveRowsHaveTrees

(* --- What is kept when there are no slips ------------------------------ *)
OrEmpty(x) == IF x = None THEN {} ELSE x

\* Nothing is uncommitted where there is no directory.
GoneIsClean == \A g \in Guids : tree[g] # None /\ ~tree[g].there => tree[g].dirt = {}

\* All of the branch is in the target or behind the recovery ref.
IsSafe(g) == OrEmpty(branch[g]) \subseteq target \cup OrEmpty(recovery[g])

\* An old anchor is the only one; what a live row's recovery ref holds is
\* elsewhere too.
AnchorsHold ==
  \A g \in Guids : row[g] # None =>
    /\ row[g].anchor.kind = "commit" =>
         recovery[g] = None /\ row[g].status \in {"abandoned", "cleaned"}
    /\ IsLive(g) => OrEmpty(recovery[g]) \subseteq target \cup dropped \cup OrEmpty(branch[g])

\* The branch of a row that may be torn down, now or once it is given up, is
\* safe when the worktree is gone.
TornDownIsSafe ==
  \A g \in Guids : row[g] # None /\ tree[g] = None =>
    \/ ~(row[g].status = "integrated"
         \/ (row[g].status # "cleaned" /\ row[g].anchor # NoAnchor))
    \/ IsSafe(g)
    \/ row[g].anchor.kind = "commit" /\ OrEmpty(branch[g]) \subseteq target \cup row[g].anchor.is

\* It is safe already where a reaper is about to take the worktree.
ReapedIsSafe ==
  \A c \in Callers : call[c] # None /\ call[c].op \in Reapers /\ call[c].at \in ReapsAt =>
    LET g == call[c].guid IN
    row[g] # None /\ row[g].status # "cleaned" =>
      row[g].anchor.kind # "commit" /\ (row[g].anchor # NoAnchor => IsSafe(g))

\* A claimed call removes a worktree whose work it has made safe.
EndsSafely(c) ==
  LET g == call[c].guid IN
  /\ ~call[c].force
  /\ call[c].at \in {"abandon", "leave"} /\ call[c].present => IsSafe(g)
  /\ call[c].at \in {"remove", "delete"} =>
       /\ row[g].status = "integrated" \/ row[g].anchor # NoAnchor
       /\ IsSafe(g) \/ (tree[g] # None /\ ~call[c].present)

EndingsAreSafe ==
  \A c \in Callers : call[c] # None /\ call[c].op \in Claimed => EndsSafely(c)

\* So does a reaper, or its operator consented.
ReapsAreSafe ==
  \A c \in Callers : call[c] # None /\ call[c].op \in Reapers =>
    LET g == call[c].guid
        b == OrEmpty(branch[g])
    IN
    /\ call[c].at \in {"remove", "delete"} /\ call[c].op \in {"sweep", "merge"} => b \subseteq target
    /\ call[c].at \in ReapsAt /\ call[c].op \in {"drop", "merge"} => b \subseteq call[c].tip
    /\ call[c].at \in {"advance", "remove"} /\ call[c].force =>
         call[c].category = "dirty" \/ tree[g] = None \/ ~tree[g].there

WorkInv ==
  /\ NothingIsLost /\ GoneIsClean /\ AnchorsHold /\ TornDownIsSafe
  /\ ReapedIsSafe /\ EndingsAreSafe /\ ReapsAreSafe

(* --- What the steps do ------------------------------------------------- *)
\* Of calls: c's alone goes on, at a place; or is over.
OthersCall(c) == \A d \in Callers \ {c} : call'[d] = call[d]

GoesOn(c, place) ==
  /\ OthersCall(c) /\ call[c] # None /\ call'[c] # None
  /\ call' \in [Callers -> {None} \cup Calls] /\ claim' = claim
  /\ call'[c].op = call[c].op /\ call'[c].guid = call[c].guid /\ call'[c].tip = call[c].tip
  /\ call'[c].at = place

AsItWas(c) ==
  /\ call'[c].present = call[c].present /\ call'[c].force = call[c].force
  /\ call'[c].category = call[c].category

IsOver(c) == OthersCall(c) /\ call[c] # None /\ call'[c] = None

\* Of a map: it changes for g alone.
RowsElsewhere(g) == \A h \in Guids \ {g} : row'[h] = row[h]
TreesElsewhere(g) == \A h \in Guids \ {g} : tree'[h] = tree[h]
BranchesElsewhere(g) == \A h \in Guids \ {g} : branch'[h] = branch[h]
RefsElsewhere(g) == \A h \in Guids \ {g} : recovery'[h] = recovery[h]

\* Of the row of g: it has another status, or owner, or anchor.
RowKept(g) == row[g] # None /\ row'[g] # None /\ RowsElsewhere(g)

StatusSet(g, from, to) ==
  /\ RowKept(g) /\ row[g].status = from /\ row'[g].status = to
  /\ row'[g].anchor = row[g].anchor

Reowned(g) ==
  RowKept(g) /\ row'[g].status = row[g].status /\ row'[g].anchor = row[g].anchor

AnchorSet(g) ==
  RowKept(g) /\ row'[g].status = row[g].status /\ row'[g].anchor = RefAnchor

IsNew(g) ==
  /\ RowsElsewhere(g) /\ row'[g] # None
  /\ row'[g].status = "reserved" /\ row'[g].anchor = NoAnchor

\* Of the worktree of g: it is there with other dirt.
DirtSet(g, dirt) ==
  /\ TreesElsewhere(g) /\ tree[g] # None /\ tree[g].there
  /\ tree'[g] # None /\ tree'[g].there /\ tree'[g].dirt = dirt

work == <<tree, branch, recovery, target, made, dropped>>

\* What becomes of a row.
LEMMA RowWith ==
  ASSUME StoreOK, NEW g \in Guids, row[g] # None,
         \/ \E s \in Statuses : row' = [row EXCEPT ![g].status = s]
         \/ \E s \in {None} \cup Sessions : row' = [row EXCEPT ![g].owner = s]
         \/ row' = [row EXCEPT ![g].anchor = RefAnchor]
  PROVE  row' \in [Guids -> {None} \cup Rows] /\ RowKept(g)
<1>1. row[g] \in Rows /\ RefAnchor \in Anchors
  BY DEF StoreOK, Anchors
<1>2. row'[g] \in Rows /\ RowsElsewhere(g)
  BY <1>1 DEF StoreOK, Rows, RowsElsewhere
<1>3. row' \in [Guids -> {None} \cup Rows]
  BY <1>2 DEF StoreOK
<1> QED  BY <1>2, <1>3, NoneAssumption DEF RowKept

\* A transition changes the status of one row.
LEMMA TransitionSets ==
  ASSUME StoreOK, NEW g \in Guids, NEW from, NEW to \in Statuses, Transition(g, from, to)
  PROVE  row' \in [Guids -> {None} \cup Rows] /\ StatusSet(g, from, to)
<1>1. row[g] \in Rows /\ row'[g] = [row[g] EXCEPT !.status = to]
  BY DEF Transition, StoreOK
<1> QED  BY <1>1, RowWith DEF Transition, StatusSet, Rows

\* Binding and transfer change the owner of one row.
LEMMA OwnerSets ==
  ASSUME StoreOK, NEW g \in Guids, row[g] # None, NEW s \in {None} \cup Sessions,
         row' = [row EXCEPT ![g].owner = s]
  PROVE  row' \in [Guids -> {None} \cup Rows] /\ Reowned(g) /\ row'[g].owner = s
<1>1. row[g] \in Rows /\ row'[g] = [row[g] EXCEPT !.owner = s]
  BY DEF StoreOK
<1> QED  BY <1>1, RowWith DEF Reowned, Rows

\* An anchored row names its recovery ref.
LEMMA AnchorSets ==
  ASSUME StoreOK, NEW g \in Guids, row[g] # None, row' = [row EXCEPT ![g].anchor = RefAnchor]
  PROVE  row' \in [Guids -> {None} \cup Rows] /\ AnchorSet(g)
<1>1. row[g] \in Rows /\ row'[g] = [row[g] EXCEPT !.anchor = RefAnchor]
  BY DEF StoreOK
<1> QED  BY <1>1, RowWith DEF AnchorSet, Rows

\* A new row is reserved and has no anchor.
LEMMA InsertSets ==
  ASSUME StoreOK, NEW g \in Guids, NEW s \in {None} \cup Sessions, NEW w \in {None} \cup Workers,
         row' = [row EXCEPT ![g] = NewRow(s, w)]
  PROVE  row' \in [Guids -> {None} \cup Rows] /\ IsNew(g)
<1>1. NoAnchor \in Anchors
  BY DEF Anchors
<1>2. NewRow(s, w) \in Rows
  BY <1>1 DEF NewRow, Rows, Statuses
<1>3. row'[g] = NewRow(s, w) /\ RowsElsewhere(g)
  BY DEF StoreOK, RowsElsewhere
<1> QED  BY <1>2, <1>3, NoneAssumption DEF StoreOK, IsNew, NewRow

\* What is known of a worktree, and what becomes of it.
LEMMA TreeIs ==
  ASSUME StoreOK, NEW g \in Guids, tree[g] # None
  PROVE  /\ tree[g] \in Trees /\ tree[g].dirt \in Commits /\ tree[g].there \in BOOLEAN
         /\ branch[g] \in Commits /\ branch[g] # None
BY DEF StoreOK, Trees, TreesHaveBranches

\* An edit or a commit changes what is uncommitted in one worktree.
LEMMA DirtSets ==
  ASSUME StoreOK, NEW g \in Guids, IsThere(g), NEW d \in Commits,
         tree' = [tree EXCEPT ![g].dirt = d]
  PROVE  tree' \in [Guids -> {None} \cup Trees] /\ DirtSet(g, d)
<1>1. tree[g] \in Trees /\ tree'[g] = [tree[g] EXCEPT !.dirt = d]
  BY TreeIs DEF StoreOK, IsThere
<1>2. tree'[g] \in Trees
  BY <1>1 DEF Trees
<1> QED  BY <1>1, <1>2, NoneAssumption DEF StoreOK, Trees, DirtSet, IsThere, TreesElsewhere

\* What is known of a call.
LEMMA CallIs ==
  ASSUME CallsOK, NEW c \in Callers, call[c] # None
  PROVE  /\ call[c] \in Calls /\ call[c].guid \in Guids
         /\ call[c].by \in {None} \cup Sessions /\ call[c].op \in Ops
BY DEF CallsOK, Calls

\* A call that goes on keeps its operation, its GUID and its claim.
LEMMA GoingKeeps ==
  ASSUME CallsOK, NEW c \in Callers, NEW place, GoesOn(c, place)
  PROVE  CallsOK'
BY CallIs DEF CallsOK, GoesOn, OthersCall, AnswersHaveTips, CallsHoldClaims

\* A call whose record is replaced goes on.
LEMMA RecordGoes ==
  ASSUME CallsOK, NEW c \in Callers, call[c] # None, NEW r \in Calls,
         r.op = call[c].op, r.guid = call[c].guid, r.tip = call[c].tip,
         call' = [call EXCEPT ![c] = r], claim' = claim
  PROVE  GoesOn(c, r.at) /\ call'[c] = r /\ CallsOK'
<1>1. r # None /\ call'[c] = r /\ OthersCall(c)
  BY NoneAssumption DEF CallsOK, OthersCall
<1>2. GoesOn(c, r.at)
  BY <1>1 DEF GoesOn, CallsOK
<1> QED  BY <1>1, <1>2, GoingKeeps

\* A call that moves to its next place goes on as it was.
LEMMA GoToGoes ==
  ASSUME CallsOK, NEW c \in Callers, call[c] # None, NEW place \in Places, GoTo(c, place)
  PROVE  GoesOn(c, place) /\ AsItWas(c) /\ CallsOK'
<1> DEFINE r == [call[c] EXCEPT !.at = place]
<1>1. r \in Calls /\ r.at = place /\ r.op = call[c].op /\ r.guid = call[c].guid
      /\ r.tip = call[c].tip /\ r.present = call[c].present /\ r.force = call[c].force
      /\ r.category = call[c].category
  BY CallIs DEF Calls
<1>2. call' = [call EXCEPT ![c] = r] /\ claim' = claim
  BY DEF GoTo
<1> HIDE DEF r
<1> QED  BY <1>1, <1>2, RecordGoes DEF AsItWas

\* A call that is over, in peace or not, holds nothing.
LEMMA EndingKeeps ==
  ASSUME CallsOK, NEW c \in Callers, call' = [call EXCEPT ![c] = None],
         \/ claim' = Released(c)
         \/ claim' = [g \in Guids |-> IF claim[g] = c THEN Dead ELSE claim[g]]
  PROVE  /\ CallsOK' /\ OthersCall(c) /\ call'[c] = None
         /\ \A g \in Guids : claim'[g] \in {None, Dead, claim[g]}
<1>1. OthersCall(c) /\ call'[c] = None /\ call' \in [Callers -> {None} \cup Calls]
  BY DEF CallsOK, OthersCall
<1>2. /\ claim' \in [Guids -> {None, Dead} \cup Callers]
      /\ \A g \in Guids : claim'[g] \in {None, Dead, claim[g]} \ {c}
      /\ \A g \in Guids : claim[g] # c => claim'[g] = claim[g]
  BY WorkspaceAssumption DEF Released, CallsOK
<1>3. AnswersHaveTips' /\ CallsHoldClaims'
  BY <1>1, <1>2, CallIs DEF CallsOK, AnswersHaveTips, CallsHoldClaims, OthersCall
<1>4. \A d \in Callers, g \in Guids : claim'[g] = d =>
        call'[d] # None /\ call'[d].guid = g /\ call'[d].op \in Claimed
  BY <1>1, <1>2, WorkspaceAssumption DEF CallsOK, OthersCall
<1> QED  BY <1>1, <1>2, <1>3, <1>4 DEF CallsOK

\* A call that begins has yet to look; it holds the claim it may need.
Early == {"insert", "compare", "check", "look"}

Begins(c) ==
  /\ OthersCall(c) /\ call[c] = None /\ call'[c] # None
  /\ call' \in [Callers -> {None} \cup Calls]
  /\ call'[c].op \in {"drop", "merge"} => call'[c].tip \in Commits
  /\ ~call'[c].force
  /\ IF call'[c].op \in Claimed
     THEN /\ claim[call'[c].guid] \in {None, Dead}
          /\ claim' = [claim EXCEPT ![call'[c].guid] = c]
     ELSE claim' = claim

\* A call that begins takes a free claim, or needs none.
LEMMA BeginningKeeps ==
  ASSUME CallsOK, NEW c \in Callers, Begins(c)
  PROVE  CallsOK'
<1>1. call'[c].guid \in Guids
  BY DEF Begins, Calls
<1>2. AnswersHaveTips' /\ \A g \in Guids : claim[g] # c
  BY DEF Begins, OthersCall, CallsOK, AnswersHaveTips
<1>3. CASE call'[c].op \in Claimed
  BY <1>1, <1>2, <1>3, CallIs, WorkspaceAssumption
     DEF Begins, OthersCall, CallsOK, CallsHoldClaims
<1>4. CASE call'[c].op \notin Claimed
  BY <1>1, <1>2, <1>4, CallIs DEF Begins, OthersCall, CallsOK, CallsHoldClaims
<1> QED  BY <1>3, <1>4

BegunBy(c) == Begins(c) /\ call'[c].at \in Early

\* Nothing that the work in a GUID depends on changes.
Quiet ==
  /\ UNCHANGED <<row, work>>
  /\ \A c \in Callers :
       call'[c] \in {call[c], None}
         \/ (call'[c] # None /\ call'[c].at \in Early /\ ~call'[c].force)

\* The store stays well-formed where only claims are let go.
LEMMA StoreKept ==
  ASSUME StoreOK, UNCHANGED <<row, handoff, surface, work, young, crashes>>,
         \A g \in Guids : claim'[g] \in {None, Dead, claim[g]}
  PROVE  StoreOK'
BY DEF StoreOK, TreesHaveBranches, HandoffsHaveRows, work

\* What begins a call changes no row and nothing in git.
LEMMA BeginningIsQuiet ==
  ASSUME WellFormed, NEW c \in Callers, NEW g \in Guids,
         \/ \E s \in Sessions : EnsureSession(c, g, s) \/ BindWorker(c, g, s)
         \/ \E op \in Claimed : ClaimCall(c, op, g)
         \/ ListOrphan(c, g)
         \/ \E action \in {"drop", "merge"}, named \in BOOLEAN :
              ResolveOrphan(c, g, action, named)
  PROVE  WellFormed' /\ Quiet
<1>1. ASSUME BegunBy(c), UNCHANGED <<row, surface, work>>, Settled,
             call'[c].op \in Claimed => handoff[call'[c].guid] = "none"
      PROVE  WellFormed' /\ Quiet
  <2>1. CallsOK'
    BY <1>1, BeginningKeeps DEF WellFormed, BegunBy
  <2>2. StoreOK'
    <3>1. \A h \in Guids : handoff[h] # "none" => claim'[h] = claim[h]
      BY <1>1 DEF WellFormed, CallsOK, BegunBy, Begins, Calls
    <3> QED
      BY <1>1, <3>1 DEF WellFormed, Settled, StoreOK, TreesHaveBranches, HandoffsHaveRows, work
  <2>3. Quiet
    BY <1>1 DEF BegunBy, Begins, OthersCall, Quiet, work, Settled
  <2> QED  BY <2>1, <2>2, <2>3 DEF WellFormed
<1>2. ASSUME NEW r \in Calls, call[c] = None, call' = [call EXCEPT ![c] = r],
             r.at \in Early, ~r.force, r.op \in {"drop", "merge"} => r.tip \in Commits,
             IF r.op \in Claimed THEN MayClaim(r.guid) /\ claim' = [claim EXCEPT ![r.guid] = c]
                                 ELSE claim' = claim
      PROVE  BegunBy(c) /\ call'[c] = r
  BY <1>2, NoneAssumption DEF WellFormed, CallsOK, MayClaim, BegunBy, Begins, OthersCall
<1>A. ASSUME NEW op \in {"allocate", "bind"} \cup Claimed, NEW s \in {None} \cup Sessions,
             NEW place \in {"insert", "compare", "check"}, Begin(c, op, g, s, place),
             IF op \in Claimed THEN MayClaim(g) /\ claim' = [claim EXCEPT ![g] = c]
                               ELSE claim' = claim
      PROVE  BegunBy(c) /\ call'[c].guid = g /\ call'[c].op = op
  <2> DEFINE r == [op |-> op, guid |-> g, at |-> place, by |-> s, tip |-> None,
                   category |-> None, present |-> FALSE, force |-> FALSE,
                   expected |-> IF place = "add" THEN target ELSE None, was |-> None]
  <2>1. r \in Calls
    BY DEF Calls, Ops, Places
  <2>2. r.op = op /\ r.guid = g /\ r.at = place /\ ~r.force
    OBVIOUS
  <2>3. op \notin {"drop", "merge"} /\ place \in Early
    BY DEF Claimed, Early
  <2>4. call[c] = None /\ call' = [call EXCEPT ![c] = r]
    BY <1>A DEF Begin
  <2> HIDE DEF r
  <2> QED  BY <1>A, <1>2, <2>1, <2>2, <2>3, <2>4
<1>3. ASSUME NEW s \in Sessions, EnsureSession(c, g, s) \/ BindWorker(c, g, s)
      PROVE  WellFormed' /\ Quiet
  <2>1. BegunBy(c) /\ call'[c].op \notin Claimed
    BY <1>A, <1>3 DEF EnsureSession, BindWorker, Claimed
  <2> QED  BY <1>1, <1>3, <2>1 DEF EnsureSession, BindWorker, work, Settled
<1>4. ASSUME NEW op \in Claimed, ClaimCall(c, op, g)
      PROVE  WellFormed' /\ Quiet
  <2>1. BegunBy(c) /\ call'[c].guid = g
    BY <1>A, <1>4 DEF ClaimCall
  <2> QED  BY <1>1, <1>4, <2>1 DEF ClaimCall, MayClaim, work, Settled
<1>5. ASSUME ListOrphan(c, g)  PROVE WellFormed' /\ Quiet
  <2> DEFINE r == [op |-> "sweep", guid |-> g, at |-> "look", by |-> None, tip |-> None,
                   category |-> None, present |-> IsAmbiguous(g), force |-> FALSE,
                   expected |-> None, was |-> None]
  <2>1. IsAmbiguous(g) \in BOOLEAN
    BY DEF IsAmbiguous
  <2>2. r \in Calls
    BY <2>1 DEF Calls, Ops, Places, Reapers
  <2>3. r.op = "sweep" /\ r.at \in Early /\ ~r.force /\ r.op \notin Claimed
    BY DEF Early, Claimed
  <2>4. call[c] = None /\ call' = [call EXCEPT ![c] = r] /\ claim' = claim
    BY <1>5 DEF ListOrphan
  <2> HIDE DEF r
  <2>5. BegunBy(c) /\ call'[c] = r
    BY <1>2, <2>2, <2>3, <2>4
  <2> QED  BY <1>1, <1>5, <2>3, <2>5 DEF ListOrphan, work, Settled
<1>6. ASSUME NEW action \in {"drop", "merge"}, NEW named \in BOOLEAN,
             ResolveOrphan(c, g, action, named)
      PROVE  WellFormed' /\ Quiet
  <2> DEFINE r == [op |-> action, guid |-> g, at |-> "look", by |-> None,
                   tip |-> surface[g].tip,
                   category |-> IF named THEN "dirty" ELSE None,
                   present |-> FALSE, force |-> FALSE, expected |-> None, was |-> None]
  <2>1. surface[g].tip \in Commits
    BY <1>6 DEF ResolveOrphan, WellFormed, StoreOK, Surfaced
  <2>2. r \in Calls
    BY <2>1 DEF Calls, Ops, Places, Reapers, Categories
  <2>3. r.tip \in Commits /\ r.at \in Early /\ ~r.force /\ r.op \notin Claimed
    BY <2>1 DEF Early, Claimed
  <2>4. call[c] = None /\ call' = [call EXCEPT ![c] = r] /\ claim' = claim
    BY <1>6 DEF ResolveOrphan
  <2> HIDE DEF r
  <2>5. BegunBy(c) /\ call'[c] = r
    BY <1>2, <2>2, <2>3, <2>4
  <2> QED  BY <1>1, <1>6, <2>3, <2>5 DEF ResolveOrphan, work, Settled
<1> QED  BY <1>3, <1>4, <1>5, <1>6

\* What only ends a call, or kills its process, changes no row either.
LEMMA EndingIsQuiet ==
  ASSUME WellFormed, NEW c \in Callers, Fail(c) \/ Die(c) \/ SweepPreserves(c)
  PROVE  WellFormed' /\ Quiet
<1>1. /\ CallsOK' /\ OthersCall(c) /\ call'[c] = None
      /\ \A g \in Guids : claim'[g] \in {None, Dead, claim[g]}
  BY EndingKeeps DEF WellFormed, Fail, Die, SweepPreserves, End
<1>2. UNCHANGED <<row, handoff, work, young>>
  BY DEF Fail, Die, SweepPreserves, Settled, work, git
<1>3. crashes' \in 0 .. MaxCrashes
  BY WorkspaceAssumption DEF Fail, Die, SweepPreserves, Settled, WellFormed, StoreOK
<1>4. surface' \in [Guids -> {None} \cup Surfaced]
  <2>1. CASE SweepPreserves(c)
    <3>1. call[c].guid \in Guids
      BY <2>1, CallIs DEF SweepPreserves, IsAt, WellFormed
    <3> QED
      BY <2>1, <3>1
         DEF SweepPreserves, Surface, Eligible, Surfaced, Categories, WellFormed, StoreOK
  <2> QED  BY <2>1 DEF Fail, Die, WellFormed, StoreOK
<1>5. StoreOK'
  BY <1>1, <1>2, <1>3, <1>4 DEF WellFormed, StoreOK, TreesHaveBranches, HandoffsHaveRows, work
<1> QED  BY <1>1, <1>2, <1>5 DEF WellFormed, Quiet, OthersCall

\* Nor do grants, begins and ends of hand-offs, prunings and ageing.
LEMMA OutsideIsQuiet ==
  ASSUME WellFormed,
         \/ ReapStaleMutations \/ UNCHANGED vars
         \/ \E g \in Guids : \/ PruneSurface(g) \/ Age(g)
                             \/ GrantHandoff(g) \/ BeginHandoff(g) \/ EndHandoff(g)
  PROVE  WellFormed' /\ Quiet
<1>1. ASSUME call' = call, claim' \in [Guids -> {None, Dead} \cup Callers],
             \A g \in Guids : claim'[g] = claim[g] \/ {claim[g], claim'[g]} \subseteq {None, Dead},
             StoreOK', UNCHANGED <<row, work>>
      PROVE  WellFormed' /\ Quiet
  BY <1>1, WorkspaceAssumption, CallIs
     DEF WellFormed, CallsOK, AnswersHaveTips, CallsHoldClaims, Quiet
<1>2. CASE ReapStaleMutations
  BY <1>1, <1>2 DEF ReapStaleMutations, WellFormed, CallsOK, StoreOK, TreesHaveBranches,
                    HandoffsHaveRows, git, ghosts, work
<1>3. CASE UNCHANGED vars
  BY <1>1, <1>3 DEF vars, WellFormed, CallsOK, StoreOK, TreesHaveBranches, HandoffsHaveRows,
                    git, ghosts, work
<1>4. ASSUME NEW g \in Guids, PruneSurface(g) \/ Age(g)  PROVE WellFormed' /\ Quiet
  <2>1. StoreOK' /\ UNCHANGED <<row, work, claim, call>>
    BY <1>4 DEF PruneSurface, Age, WellFormed, StoreOK, TreesHaveBranches, HandoffsHaveRows,
                Settled, ghosts, work
  <2> QED  BY <1>1, <2>1 DEF WellFormed, CallsOK
<1>5. ASSUME NEW g \in Guids, GrantHandoff(g) \/ BeginHandoff(g) \/ EndHandoff(g)
      PROVE  WellFormed' /\ Quiet
  <2>1. /\ claim' = claim \/ (claim[g] \in {None, Dead} /\ claim' = [claim EXCEPT ![g] = None])
        /\ UNCHANGED <<row, work, call, surface, young, crashes>>
    BY <1>5 DEF GrantHandoff, BeginHandoff, EndHandoff, NoMutation, DeadClaimReaped, git,
                ghosts, work
  <2>2. handoff' \in [Guids -> Phases]
    BY <1>5 DEF GrantHandoff, BeginHandoff, EndHandoff, SetPhase, Phases, WellFormed, StoreOK
  <2>3. HandoffsHaveRows'
    BY <1>5, <2>1 DEF GrantHandoff, BeginHandoff, EndHandoff, SetPhase, NoMutation,
                      DeadClaimReaped, WellFormed, StoreOK, CallsOK, HandoffsHaveRows
  <2>4. StoreOK'
    BY <2>1, <2>2, <2>3 DEF WellFormed, StoreOK, TreesHaveBranches, work
  <2> QED  BY <1>1, <2>1, <2>4 DEF WellFormed, CallsOK
<1> QED  BY <1>2, <1>3, <1>4, <1>5

\* A row may change that no hand-off rests on, or in its owner or anchor.
LEMMA RowKeepsStore ==
  ASSUME StoreOK, NEW g \in Guids, row' \in [Guids -> {None} \cup Rows], RowsElsewhere(g),
         \/ row[g] = None \/ row[g].status # "active" \/ handoff[g] = "none"
         \/ row'[g] # None /\ row'[g].status = "active",
         UNCHANGED <<handoff, surface, work, young, crashes>>,
         \A h \in Guids : claim'[h] \in {None, Dead, claim[h]}
  PROVE  StoreOK'
BY DEF StoreOK, RowsElsewhere, TreesHaveBranches, HandoffsHaveRows, work

\* No hand-off is pending where a claimed call runs.
LEMMA ClaimedIsFree ==
  ASSUME WellFormed, NEW c \in Callers, call[c] # None, call[c].op \in Claimed
  PROVE  handoff[call[c].guid] = "none"
BY CallIs, WorkspaceAssumption DEF WellFormed, CallsOK, CallsHoldClaims, StoreOK, HandoffsHaveRows

\* The steps of an allocation.
LEMMA DoesInsert ==
  ASSUME WellFormed, NEW c \in Callers, Insert(c)
  PROVE  LET g == call[c].guid IN
         /\ WellFormed' /\ GoesOn(c, "add") /\ AsItWas(c) /\ call'[c].expected = target
         /\ IsNew(g) /\ UNCHANGED work /\ MayInsert(g) /\ MayLiveAgain(g)
<1> DEFINE g == call[c].guid
<1>1. call[c] # None /\ call[c] \in Calls /\ g \in Guids /\ call[c].by \in {None} \cup Sessions
  BY CallIs DEF Insert, IsAt, WellFormed
<1> DEFINE r == [call[c] EXCEPT !.at = "add", !.by = None, !.expected = target]
<1>2. r \in Calls /\ r.at = "add" /\ r.op = call[c].op /\ r.guid = g
      /\ r.tip = call[c].tip /\ r.present = call[c].present /\ r.force = call[c].force
      /\ r.category = call[c].category /\ r.expected = target
  BY <1>1 DEF Calls, Places, WellFormed, StoreOK
<1>3. GoesOn(c, "add") /\ AsItWas(c) /\ CallsOK' /\ call'[c].expected = target
  <2>1. call' = [call EXCEPT ![c] = r] /\ claim' = claim
    BY DEF Insert
  <2> HIDE DEF r
  <2> QED  BY <1>1, <1>2, <2>1, RecordGoes DEF AsItWas, WellFormed
<1>4. row' \in [Guids -> {None} \cup Rows] /\ IsNew(g)
  BY <1>1, InsertSets DEF Insert, WellFormed
<1>5. MayInsert(g) /\ MayLiveAgain(g) /\ UNCHANGED <<handoff, surface, work, young, crashes, claim>>
  BY DEF Insert, Settled, work
<1>6. StoreOK'
  BY <1>1, <1>4, <1>5, RowKeepsStore DEF WellFormed, IsNew, MayInsert
<1> QED  BY <1>3, <1>4, <1>5, <1>6 DEF WellFormed

\* A worker's row is inserted and its allocation begun in one step.
LEMMA DoesReserve ==
  ASSUME WellFormed, NEW c \in Callers, NEW g \in Guids, NEW w \in Workers, ReserveWorker(c, g, w)
  PROVE  /\ WellFormed' /\ OthersCall(c) /\ call'[c] # None /\ call'[c].at = "add"
         /\ call'[c].guid = g /\ call'[c].op = "allocate" /\ call'[c].expected = target
         /\ IsNew(g) /\ UNCHANGED work /\ row[g] = None /\ MayLiveAgain(g)
<1> DEFINE r == [op |-> "allocate", guid |-> g, at |-> "add", by |-> None, tip |-> None,
                 category |-> None, present |-> FALSE, force |-> FALSE, expected |-> target,
                 was |-> None]
<1>1. r \in Calls /\ r.at = "add" /\ r.guid = g /\ r.op = "allocate" /\ ~r.force
      /\ r.expected = target
  BY DEF Calls, Ops, Places, WellFormed, StoreOK
<1>2. call[c] = None /\ call' = [call EXCEPT ![c] = r] /\ claim' = claim
  BY DEF ReserveWorker, Begin
<1> HIDE DEF r
<1>3. Begins(c) /\ call'[c] = r
  BY <1>1, <1>2, NoneAssumption DEF WellFormed, CallsOK, Begins, OthersCall, Claimed
<1>4. row' \in [Guids -> {None} \cup Rows] /\ IsNew(g)
  BY InsertSets DEF ReserveWorker, WellFormed
<1>5. StoreOK'
  BY <1>2, <1>4, RowKeepsStore DEF WellFormed, IsNew, ReserveWorker, Settled, work
<1>6. CallsOK'
  BY <1>3, BeginningKeeps DEF WellFormed
<1> QED  BY <1>1, <1>3, <1>4, <1>5, <1>6, NoneAssumption
    DEF WellFormed, ReserveWorker, Settled, work, Begins

\* git makes the worktree and its branch where there is neither.
LEMMA DoesAddWorktree ==
  ASSUME BaseInv, NEW c \in Callers, AddWorktree(c)
  PROVE  LET g == call[c].guid IN
         /\ WellFormed' /\ GoesOn(c, "materialize") /\ AsItWas(c)
         /\ call[c].at = "add" /\ tree[g] = None /\ branch[g] = None
         /\ TreesElsewhere(g) /\ tree'[g] # None /\ tree'[g].there /\ tree'[g].dirt = {}
         /\ BranchesElsewhere(g) /\ branch'[g] \subseteq target /\ branch'[g] # None
         /\ MayMake(g)
         /\ UNCHANGED <<row, recovery, target, made, dropped>>
<1> DEFINE g == call[c].guid
<1> DEFINE t == [there |-> TRUE, dirt |-> {}]
<1>1. call[c] # None /\ g \in Guids
  BY CallIs DEF AddWorktree, IsAt, BaseInv, WellFormed
<1> DEFINE r == [call[c] EXCEPT !.at = "materialize", !.expected = None]
<1>2. GoesOn(c, "materialize") /\ AsItWas(c) /\ CallsOK'
  <2>1. call[c] \in Calls
    BY <1>1, CallIs DEF BaseInv, WellFormed
  <2>2. r \in Calls /\ r.at = "materialize" /\ r.op = call[c].op /\ r.guid = g
        /\ r.tip = call[c].tip /\ r.present = call[c].present /\ r.force = call[c].force
        /\ r.category = call[c].category
    BY <2>1 DEF Calls, Places
  <2>3. call' = [call EXCEPT ![c] = r] /\ claim' = claim
    BY DEF AddWorktree
  <2> HIDE DEF r
  <2> QED  BY <1>1, <2>2, <2>3, RecordGoes DEF AsItWas, BaseInv, WellFormed
<1> DEFINE base == call[c].expected
<1>3. t \in Trees /\ base \in Commits /\ base \subseteq target
  BY <1>1 DEF Trees, Commits, BaseInv, BasesAreMerged, AddWorktree, IsAt
<1>4. /\ tree' = [tree EXCEPT ![g] = t] /\ branch' = [branch EXCEPT ![g] = base]
      /\ tree[g] = None /\ branch[g] = None /\ call[c].at = "add"
      /\ UNCHANGED <<row, recovery, target, made, dropped, claim, handoff, surface, young, crashes>>
      /\ MayMake(g)
  BY DEF AddWorktree, IsAt, Settled
<1>5. t.there /\ t.dirt = {}
  OBVIOUS
<1> HIDE DEF t, r, base
<1>6. /\ TreesElsewhere(g) /\ BranchesElsewhere(g) /\ tree'[g] = t /\ branch'[g] = base
      /\ t # None /\ base # None
  BY <1>1, <1>3, <1>4, NoneAssumption
     DEF BaseInv, WellFormed, StoreOK, TreesElsewhere, BranchesElsewhere
<1>7. StoreOK'
  BY <1>1, <1>3, <1>4, <1>6
     DEF BaseInv, WellFormed, StoreOK, TreesElsewhere, BranchesElsewhere, TreesHaveBranches, HandoffsHaveRows
<1> QED  BY <1>2, <1>3, <1>4, <1>5, <1>6, <1>7 DEF WellFormed

\* The row of a made worktree is materialized.
LEMMA DoesMaterialize ==
  ASSUME WellFormed, NEW c \in Callers, Materialize(c)
  PROVE  LET g == call[c].guid IN
         /\ WellFormed' /\ GoesOn(c, "activate") /\ AsItWas(c) /\ call[c].at = "materialize"
         /\ call[c].op = "allocate" /\ StatusSet(g, "reserved", "materialized") /\ UNCHANGED work
<1>1. call[c] # None /\ call[c].guid \in Guids /\ call[c].at = "materialize"
      /\ call[c].op = "allocate"
  BY CallIs DEF Materialize, IsAt, WellFormed
<1>2. GoesOn(c, "activate") /\ AsItWas(c) /\ CallsOK' /\ claim' = claim
  BY <1>1, GoToGoes DEF Materialize, Places, WellFormed, GoTo
<1>3. /\ row' \in [Guids -> {None} \cup Rows]
      /\ StatusSet(call[c].guid, "reserved", "materialized")
  BY <1>1, TransitionSets DEF Materialize, Statuses, WellFormed
<1>4. StoreOK'
  BY <1>1, <1>2, <1>3, RowKeepsStore DEF WellFormed, StatusSet, RowKept, Materialize, Settled, work
<1> QED  BY <1>1, <1>2, <1>3, <1>4 DEF WellFormed, Materialize, Settled, work

\* The steps that end a call and change the row.
LEMMA DoesActivate ==
  ASSUME WellFormed, NEW c \in Callers, Activate(c)
  PROVE  /\ WellFormed' /\ IsOver(c) /\ UNCHANGED work
         /\ StatusSet(call[c].guid, "materialized", "active")
<1>1. call[c] # None /\ call[c].guid \in Guids
  BY CallIs DEF Activate, IsAt, WellFormed
<1>2. CallsOK' /\ IsOver(c) /\ \A g \in Guids : claim'[g] \in {None, Dead, claim[g]}
  BY <1>1, EndingKeeps DEF Activate, End, WellFormed, IsOver
<1>3. row' \in [Guids -> {None} \cup Rows] /\ StatusSet(call[c].guid, "materialized", "active")
  BY <1>1, TransitionSets DEF Activate, Statuses, WellFormed
<1>4. StoreOK'
  BY <1>1, <1>2, <1>3, RowKeepsStore DEF WellFormed, StatusSet, RowKept, Activate, Settled, work
<1> QED  BY <1>2, <1>3, <1>4 DEF WellFormed, Activate, Settled, work

\* A row without an owner gets one; nothing else changes.
LEMMA DoesBindOwner ==
  ASSUME WellFormed, NEW c \in Callers, BindOwner(c)
  PROVE  /\ WellFormed' /\ IsOver(c) /\ UNCHANGED work
         /\ call[c].guid \in Guids /\ Reowned(call[c].guid)
<1>1. call[c] # None /\ call[c].guid \in Guids /\ row[call[c].guid] # None
  BY CallIs DEF BindOwner, IsAt, WellFormed, MayBind
<1>2. CallsOK' /\ IsOver(c) /\ \A g \in Guids : claim'[g] \in {None, Dead, claim[g]}
  BY <1>1, EndingKeeps DEF BindOwner, End, WellFormed, IsOver
<1>3. row' \in [Guids -> {None} \cup Rows] /\ Reowned(call[c].guid)
  BY <1>1, OwnerSets, CallIs DEF BindOwner, WellFormed
<1>4. StoreOK'
  BY <1>1, <1>2, <1>3, RowKeepsStore DEF WellFormed, Reowned, RowKept, BindOwner, Settled, work
<1> QED  BY <1>1, <1>2, <1>3, <1>4 DEF WellFormed, BindOwner, Settled, work

\* A plain abandon changes the status of a live row.
LEMMA DoesAbandonPlainly ==
  ASSUME WellFormed, NEW c \in Callers, AbandonPlainly(c)
  PROVE  LET g == call[c].guid IN
         /\ WellFormed' /\ IsOver(c) /\ UNCHANGED work /\ call[c].op \in Claimed
         /\ IsLive(g) /\ StatusSet(g, row[g].status, "abandoned")
<1>1. call[c] # None /\ call[c].guid \in Guids /\ call[c].op \in Claimed
  BY CallIs DEF AbandonPlainly, IsAt, WellFormed, Claimed
<1>2. CallsOK' /\ IsOver(c) /\ \A g \in Guids : claim'[g] \in {None, Dead, claim[g]}
  BY <1>1, EndingKeeps DEF AbandonPlainly, End, WellFormed, IsOver
<1>3. /\ row' \in [Guids -> {None} \cup Rows]
      /\ StatusSet(call[c].guid, row[call[c].guid].status, "abandoned")
  BY <1>1, TransitionSets DEF AbandonPlainly, Statuses, WellFormed
<1>4. StoreOK'
  BY <1>1, <1>2, <1>3, RowKeepsStore, ClaimedIsFree
     DEF WellFormed, StatusSet, RowKept, AbandonPlainly, Settled, work
<1> QED  BY <1>1, <1>2, <1>3, <1>4 DEF WellFormed, AbandonPlainly, Settled, work

\* A torn-down row becomes a tombstone.
LEMMA DoesMarkCleaned ==
  ASSUME WellFormed, NEW c \in Callers, MarkCleaned(c)
  PROVE  LET g == call[c].guid IN
         /\ WellFormed' /\ IsOver(c) /\ UNCHANGED work /\ call[c].op \in Claimed
         /\ call[c].at = "clean" /\ StatusSet(g, row[g].status, "cleaned")
<1>1. call[c] # None /\ call[c].guid \in Guids /\ call[c].op \in Claimed /\ call[c].at = "clean"
  BY CallIs DEF MarkCleaned, IsAt, WellFormed, Claimed, Tombstoning
<1>2. CallsOK' /\ IsOver(c) /\ \A g \in Guids : claim'[g] \in {None, Dead, claim[g]}
  BY <1>1, EndingKeeps DEF MarkCleaned, End, WellFormed, IsOver
<1>3. /\ row' \in [Guids -> {None} \cup Rows]
      /\ StatusSet(call[c].guid, row[call[c].guid].status, "cleaned")
  BY <1>1, TransitionSets DEF MarkCleaned, Statuses, WellFormed
<1>4. StoreOK'
  BY <1>1, <1>2, <1>3, RowKeepsStore, ClaimedIsFree
     DEF WellFormed, StatusSet, RowKept, MarkCleaned, git, ghosts, work
<1> QED  BY <1>1, <1>2, <1>3, <1>4 DEF WellFormed, MarkCleaned, git, ghosts, work

\* A reserved row without a worktree is deleted.
LEMMA DoesDeleteReserved ==
  ASSUME WellFormed, NEW c \in Callers, DeleteReserved(c)
  PROVE  LET g == call[c].guid IN
         /\ WellFormed' /\ IsOver(c) /\ UNCHANGED work /\ call[c].op \in Claimed
         /\ RowsElsewhere(g) /\ row'[g] = None
         /\ row[g] # None /\ row[g].status = "reserved" /\ tree[g] = None
<1>1. call[c] # None /\ call[c].guid \in Guids /\ call[c].op \in Claimed
  BY CallIs DEF DeleteReserved, IsAt, WellFormed, Claimed
<1>2. CallsOK' /\ IsOver(c) /\ \A g \in Guids : claim'[g] \in {None, Dead, claim[g]}
  BY <1>1, EndingKeeps DEF DeleteReserved, End, WellFormed, IsOver
<1>3. row' \in [Guids -> {None} \cup Rows] /\ RowsElsewhere(call[c].guid) /\ row'[call[c].guid] = None
  BY <1>1 DEF DeleteReserved, WellFormed, StoreOK, RowsElsewhere
<1>4. StoreOK'
  BY <1>1, <1>2, <1>3, RowKeepsStore, ClaimedIsFree DEF WellFormed, DeleteReserved, Settled, work
<1> QED  BY <1>1, <1>2, <1>3, <1>4 DEF WellFormed, DeleteReserved, Settled, work

\* What a claimed call finds before it does anything.
LEMMA DoesProceed ==
  ASSUME WellFormed, NEW c \in Callers, call[c] # None, row[call[c].guid] # None,
         NEW place \in Places, Proceed(c, place)
  PROVE  /\ WellFormed' /\ GoesOn(c, place) /\ UNCHANGED <<row, work>>
         /\ call'[c].present = IsThere(call[c].guid) /\ call'[c].force = call[c].force
<1>1. call[c] \in Calls /\ call[c].guid \in Guids /\ row[call[c].guid].status \in Statuses
  BY CallIs DEF WellFormed, StoreOK, Rows
<1>2. IsThere(call[c].guid) \in BOOLEAN
  BY <1>1 DEF IsThere, WellFormed, StoreOK, Trees
<1> DEFINE r == [call[c] EXCEPT !.at = place, !.present = IsThere(call[c].guid),
                                !.was = row[call[c].guid].status]
<1>3. r \in Calls /\ r.at = place /\ r.op = call[c].op /\ r.guid = call[c].guid
      /\ r.tip = call[c].tip /\ r.present = IsThere(call[c].guid) /\ r.force = call[c].force
  BY <1>1, <1>2 DEF Calls
<1>4. call' = [call EXCEPT ![c] = r] /\ claim' = claim
  BY DEF Proceed
<1> HIDE DEF r
<1>5. GoesOn(c, place) /\ call'[c] = r /\ CallsOK'
  BY <1>1, <1>3, <1>4, RecordGoes DEF WellFormed
<1>6. UNCHANGED <<row, handoff, surface, work, young, crashes, claim>>
  BY DEF Proceed, Settled, work
<1>7. StoreOK'
  BY <1>6, StoreKept DEF WellFormed
<1> QED  BY <1>3, <1>5, <1>6, <1>7 DEF WellFormed

\* A check goes on as the row and the directory tell.
LEMMA DoesCheck ==
  ASSUME WellFormed, NEW c \in Callers, CheckRescue(c) \/ CheckReap(c) \/ CheckTerminal(c)
  PROVE  LET g == call[c].guid IN
         /\ WellFormed' /\ UNCHANGED <<row, work>> /\ call[c].op \in Claimed
         /\ call'[c].present = IsThere(g) /\ call'[c].force = call[c].force /\ row[g] # None
         /\ \/ GoesOn(c, "commit") /\ IsLive(g) /\ IsThere(g)
            \/ GoesOn(c, "anchor") /\ IsLive(g) /\ row[g].status # "reserved" /\ ~IsThere(g)
            \/ GoesOn(c, "abandon") /\ IsLive(g) /\ ~IsThere(g)
            \/ GoesOn(c, "prove") /\ row[g].status \in {"integrated", "abandoned"}
<1>1. call[c] # None /\ call[c].op \in Claimed /\ row[call[c].guid] # None
  BY DEF CheckRescue, CheckReap, CheckTerminal, IsAt, Claimed, IsLive
<1>2. {"commit", "anchor", "abandon", "prove"} \subseteq Places
  BY DEF Places
<1>3. CASE CheckRescue(c)
  BY <1>1, <1>2, <1>3, DoesProceed DEF CheckRescue
<1>4. CASE CheckReap(c)
  BY <1>1, <1>2, <1>4, DoesProceed DEF CheckReap
<1>5. CASE CheckTerminal(c)
  BY <1>1, <1>2, <1>5, DoesProceed DEF CheckTerminal
<1> QED  BY <1>3, <1>4, <1>5

\* The steps of a rescue.
LEMMA DoesRescueCommit ==
  ASSUME WellFormed, NEW c \in Callers, RescueCommit(c)
  PROVE  LET g == call[c].guid IN
         /\ WellFormed' /\ GoesOn(c, "anchor") /\ AsItWas(c) /\ call[c].op \in Claimed
         /\ call[c].at = "commit" /\ (IsClean(g) \/ MayCommit(g))
         /\ DirtSet(g, {}) /\ BranchesElsewhere(g)
         /\ branch[g] # None /\ branch'[g] # None /\ branch'[g] = branch[g] \cup tree[g].dirt
         /\ UNCHANGED <<row, recovery, target, made, dropped>>
<1> DEFINE g == call[c].guid
<1>1. call[c] # None /\ g \in Guids /\ call[c].op \in Claimed /\ call[c].at = "commit"
  BY CallIs DEF RescueCommit, IsAt, WellFormed, Claimed
<1>2. GoesOn(c, "anchor") /\ AsItWas(c) /\ CallsOK' /\ claim' = claim
  BY <1>1, GoToGoes DEF RescueCommit, Places, WellFormed, GoTo
<1>3. /\ tree[g] # None /\ branch[g] # None /\ branch[g] \in Commits
      /\ tree[g].dirt \in Commits /\ {} \in Commits
  BY <1>1, TreeIs DEF RescueCommit, IsThere, WellFormed, Commits
<1>4. branch[g] \cup tree[g].dirt \in Commits
  BY <1>3 DEF Commits
<1>5. tree' \in [Guids -> {None} \cup Trees] /\ DirtSet(g, {})
  BY <1>1, <1>3, DirtSets DEF RescueCommit, WellFormed
<1>6. /\ branch' \in [Guids -> {None} \cup Commits] /\ BranchesElsewhere(g)
      /\ branch'[g] # None /\ branch'[g] = branch[g] \cup tree[g].dirt
  BY <1>1, <1>4, NoneAssumption DEF RescueCommit, WellFormed, StoreOK, BranchesElsewhere
<1>7. StoreOK'
  BY <1>2, <1>5, <1>6 DEF WellFormed, StoreOK, TreesHaveBranches, HandoffsHaveRows, DirtSet,
                          TreesElsewhere, BranchesElsewhere, RescueCommit, Settled
<1> QED  BY <1>1, <1>2, <1>3, <1>5, <1>6, <1>7 DEF WellFormed, RescueCommit, Settled

\* The recovery ref moves to the branch, and the row names it.
LEMMA DoesRescueAnchor ==
  ASSUME WellFormed, NEW c \in Callers, RescueAnchor(c)
  PROVE  LET g == call[c].guid IN
         /\ WellFormed' /\ GoesOn(c, "abandon") /\ AsItWas(c) /\ call[c].op \in Claimed
         /\ call[c].at = "anchor" /\ AnchorSet(g)
         /\ RefsElsewhere(g) /\ recovery'[g] # None /\ recovery'[g] = OrEmpty(branch[g])
         /\ UNCHANGED <<branch, tree, target, made, dropped>>
<1> DEFINE g == call[c].guid
<1>1. call[c] # None /\ g \in Guids /\ call[c].op \in Claimed /\ call[c].at = "anchor"
  BY CallIs DEF RescueAnchor, IsAt, WellFormed, Claimed
<1>2. GoesOn(c, "abandon") /\ AsItWas(c) /\ CallsOK' /\ claim' = claim
  BY <1>1, GoToGoes DEF RescueAnchor, Places, WellFormed, GoTo
<1>3. row' \in [Guids -> {None} \cup Rows] /\ AnchorSet(g)
  BY <1>1, AnchorSets DEF RescueAnchor, WellFormed
<1>4. Rescued(g) \in Commits /\ Rescued(g) = OrEmpty(branch[g])
  BY <1>1 DEF Rescued, OrEmpty, WellFormed, StoreOK, Commits
<1>5. /\ recovery' \in [Guids -> {None} \cup Commits] /\ RefsElsewhere(g)
      /\ recovery'[g] = OrEmpty(branch[g]) /\ recovery'[g] # None
  BY <1>1, <1>4, NoneAssumption DEF RescueAnchor, WellFormed, StoreOK, RefsElsewhere
<1>6. StoreOK'
  BY <1>2, <1>3, <1>5 DEF WellFormed, StoreOK, TreesHaveBranches, HandoffsHaveRows, AnchorSet,
                          RowKept, RowsElsewhere, RescueAnchor, Settled
<1> QED  BY <1>1, <1>2, <1>3, <1>5, <1>6 DEF WellFormed, RescueAnchor, Settled

\* The row of rescued work is abandoned.
LEMMA DoesMarkAbandoned ==
  ASSUME WellFormed, NEW c \in Callers, MarkAbandoned(c)
  PROVE  LET g == call[c].guid IN
         /\ WellFormed' /\ GoesOn(c, "leave") /\ AsItWas(c) /\ call[c].op \in Claimed
         /\ call[c].at = "abandon" /\ StatusSet(g, row[g].status, "abandoned")
         /\ UNCHANGED work
<1> DEFINE g == call[c].guid
<1>1. call[c] # None /\ call[c] \in Calls /\ g \in Guids /\ call[c].op \in Claimed
      /\ call[c].at = "abandon"
  BY CallIs DEF MarkAbandoned, IsAt, WellFormed, Claimed
<1> DEFINE r == [call[c] EXCEPT !.at = "leave", !.was = None]
<1>2. r \in Calls /\ r.at = "leave" /\ r.op = call[c].op /\ r.guid = g
      /\ r.tip = call[c].tip /\ r.present = call[c].present /\ r.force = call[c].force
      /\ r.category = call[c].category
  BY <1>1 DEF Calls, Places
<1>3. GoesOn(c, "leave") /\ AsItWas(c) /\ CallsOK'
  <2>1. call' = [call EXCEPT ![c] = r] /\ claim' = claim
    BY DEF MarkAbandoned
  <2> HIDE DEF r
  <2> QED  BY <1>1, <1>2, <2>1, RecordGoes DEF AsItWas, WellFormed
<1>4. row' \in [Guids -> {None} \cup Rows] /\ StatusSet(g, row[g].status, "abandoned")
  BY <1>1, TransitionSets DEF MarkAbandoned, Statuses, WellFormed, Transition
<1>5. StoreOK'
  BY <1>1, <1>4, RowKeepsStore, ClaimedIsFree
     DEF WellFormed, StatusSet, RowKept, MarkAbandoned, Settled, work
<1> QED  BY <1>1, <1>3, <1>4, <1>5 DEF WellFormed, MarkAbandoned, Settled, work

\* The worktree of rescued work is removed, if it is clean.
LEMMA DoesLeaveWorktree ==
  ASSUME WellFormed, NEW c \in Callers, LeaveWorktree(c)
  PROVE  LET g == call[c].guid IN
         /\ WellFormed' /\ call[c] # None /\ call[c].at = "leave" /\ call[c].op \in Claimed
         /\ IsOver(c) \/ (GoesOn(c, "prove") /\ call'[c].force = call[c].force)
         /\ TreesElsewhere(g)
         /\ IF call[c].present THEN tree[g] # None /\ IsClean(g) /\ tree'[g] = None
                               ELSE tree'[g] = tree[g]
         /\ UNCHANGED <<row, branch, recovery, target, made, dropped>>
<1> DEFINE g == call[c].guid
<1>1. call[c] # None /\ g \in Guids /\ call[c].op \in Claimed /\ call[c].at = "leave"
  BY CallIs DEF LeaveWorktree, IsAt, WellFormed, Claimed
<1>2. /\ CallsOK'
      /\ IsOver(c) \/ (GoesOn(c, "prove") /\ call'[c].force = call[c].force)
      /\ \A h \in Guids : claim'[h] \in {None, Dead, claim[h]}
  <2>1. CASE End(c)
    BY <1>1, <2>1, EndingKeeps DEF End, WellFormed, IsOver
  <2>2. CASE call' = [call EXCEPT ![c].at = "prove", ![c].present = FALSE] /\ UNCHANGED claim
    <3> DEFINE r == [call[c] EXCEPT !.at = "prove", !.present = FALSE]
    <3>1. call[c] \in Calls
      BY <1>1, CallIs DEF WellFormed
    <3>2. r \in Calls /\ r.at = "prove" /\ r.op = call[c].op /\ r.guid = g
          /\ r.tip = call[c].tip /\ r.force = call[c].force
      BY <3>1 DEF Calls, Places
    <3>3. call' = [call EXCEPT ![c] = r] /\ claim' = claim
      BY <2>2
    <3> HIDE DEF r
    <3> QED  BY <1>1, <3>2, <3>3, RecordGoes DEF WellFormed
  <2> QED  BY <2>1, <2>2 DEF LeaveWorktree
<1>3. /\ TreesElsewhere(g) /\ tree' \in [Guids -> {None} \cup Trees]
      /\ IF call[c].present THEN tree[g] # None /\ IsClean(g) /\ tree'[g] = None
                            ELSE tree'[g] = tree[g]
  BY <1>1 DEF LeaveWorktree, MayRemove, WellFormed, StoreOK, TreesElsewhere
<1>4. StoreOK'
  BY <1>1, <1>2, <1>3, ClaimedIsFree
     DEF WellFormed, StoreOK, TreesHaveBranches, HandoffsHaveRows, TreesElsewhere, LeaveWorktree, Settled
<1>5. UNCHANGED <<row, branch, recovery, target, made, dropped>>
  BY DEF LeaveWorktree, Settled
<1> QED  BY <1>1, <1>2, <1>3, <1>4, <1>5 DEF WellFormed

\* The steps of a teardown.
LEMMA DoesProve ==
  ASSUME WellFormed, NEW c \in Callers, Prove(c)
  PROVE  LET g == call[c].guid IN
         /\ WellFormed' /\ GoesOn(c, "remove") /\ call[c].op \in Claimed /\ call[c].at = "prove"
         /\ call'[c].present = IsThere(g) /\ call'[c].force = call[c].force
         /\ IsThere(g) => IsClean(g)
         /\ IF row[g].status = "abandoned" THEN AbandonIsProved(g) ELSE LandingIsProved(g)
         /\ IF row[g].status = "abandoned" /\ row[g].anchor.kind = "commit"
            THEN /\ AnchorSet(g) /\ RefsElsewhere(g)
                 /\ recovery'[g] = row[g].anchor.is /\ recovery'[g] # None
            ELSE UNCHANGED <<row, recovery>>
         /\ UNCHANGED <<branch, tree, target, made, dropped>>
<1> DEFINE g == call[c].guid
<1>1. call[c] # None /\ call[c] \in Calls /\ g \in Guids /\ call[c].op \in Claimed
      /\ call[c].at = "prove"
  BY CallIs DEF Prove, IsAt, WellFormed, Claimed
<1>2. IsThere(g) \in BOOLEAN
  BY <1>1 DEF IsThere, WellFormed, StoreOK, Trees
<1> DEFINE r == [call[c] EXCEPT !.at = "remove", !.present = IsThere(g)]
<1>3. r \in Calls /\ r.at = "remove" /\ r.op = call[c].op /\ r.guid = g
      /\ r.tip = call[c].tip /\ r.present = IsThere(g) /\ r.force = call[c].force
  BY <1>1, <1>2 DEF Calls, Places
<1>4. call' = [call EXCEPT ![c] = r] /\ claim' = claim
  BY DEF Prove
<1> HIDE DEF r
<1>5. GoesOn(c, "remove") /\ call'[c] = r /\ CallsOK'
  BY <1>1, <1>3, <1>4, RecordGoes DEF WellFormed
<1>6. CASE row[g].status = "abandoned" /\ row[g].anchor.kind = "commit"
  <2>1. row' \in [Guids -> {None} \cup Rows] /\ AnchorSet(g)
    BY <1>1, <1>6, AnchorSets DEF Prove, EnsureAnchor, WellFormed
  <2>2. row[g].anchor.is \in Commits
    BY <1>1 DEF Prove, WellFormed, StoreOK, Rows, Anchors, NoAnchor, RefAnchor, Commits
  <2>3. /\ recovery' \in [Guids -> {None} \cup Commits] /\ RefsElsewhere(g)
        /\ recovery'[g] = row[g].anchor.is /\ recovery'[g] # None
    BY <1>1, <1>6, <2>2, NoneAssumption DEF Prove, EnsureAnchor, WellFormed, StoreOK, RefsElsewhere
  <2>4. StoreOK'
    BY <1>4, <2>1, <2>3 DEF WellFormed, StoreOK, TreesHaveBranches, HandoffsHaveRows, AnchorSet,
                            RowKept, RowsElsewhere, Prove, Settled
  <2> QED  BY <1>1, <1>3, <1>5, <1>6, <2>1, <2>3, <2>4 DEF WellFormed, Prove, Settled
<1>7. CASE ~(row[g].status = "abandoned" /\ row[g].anchor.kind = "commit")
  <2>1. UNCHANGED <<row, recovery>>
    BY <1>7 DEF Prove, EnsureAnchor
  <2>2. StoreOK'
    BY <1>4, <2>1, StoreKept DEF WellFormed, Prove, Settled, work
  <2> QED  BY <1>1, <1>3, <1>5, <1>7, <2>1, <2>2 DEF WellFormed, Prove, Settled
<1> QED  BY <1>6, <1>7

\* A worktree is removed if it is clean, or by force.
LEMMA DoesRemoveWorktree ==
  ASSUME WellFormed, NEW c \in Callers, RemoveWorktree(c)
  PROVE  LET g == call[c].guid
             removes == call[c].present \/ call[c].force
         IN
         /\ WellFormed' /\ GoesOn(c, "delete") /\ call[c].op \in Reapers \cup {"cleanup", "reap"}
         /\ call[c].at = "remove" /\ ~call'[c].force /\ ~call'[c].present
         /\ TreesElsewhere(g)
         /\ IF removes
            THEN tree[g] # None /\ tree'[g] = None /\ (call[c].force \/ IsClean(g))
            ELSE tree'[g] = tree[g]
         /\ dropped' = IF removes /\ call[c].category = "dirty"
                       THEN dropped \cup tree[g].dirt ELSE dropped
         /\ handoff[g] = "none" \/ call[c].op \in Reapers
         /\ UNCHANGED <<row, branch, recovery, target, made>>
<1> DEFINE g == call[c].guid
<1> DEFINE removes == call[c].present \/ call[c].force
<1>1. call[c] # None /\ call[c] \in Calls /\ g \in Guids /\ call[c].at = "remove"
      /\ call[c].op \in Reapers \cup {"cleanup", "reap"}
  BY CallIs DEF RemoveWorktree, IsAt, WellFormed, Tombstoning
<1> DEFINE r == [call[c] EXCEPT !.at = "delete", !.present = FALSE, !.force = FALSE,
                                !.category = None]
<1>2. r \in Calls /\ r.at = "delete" /\ r.op = call[c].op /\ r.guid = g
      /\ r.tip = call[c].tip /\ ~r.force /\ ~r.present
  BY <1>1 DEF Calls, Places
<1>3. call' = [call EXCEPT ![c] = r] /\ claim' = claim
  BY DEF RemoveWorktree
<1> HIDE DEF r
<1>4. GoesOn(c, "delete") /\ call'[c] = r /\ CallsOK'
  BY <1>1, <1>2, <1>3, RecordGoes DEF WellFormed
<1>5. /\ TreesElsewhere(g) /\ tree' \in [Guids -> {None} \cup Trees]
      /\ IF removes
         THEN tree[g] # None /\ tree'[g] = None /\ (call[c].force \/ IsClean(g))
         ELSE tree'[g] = tree[g]
  BY <1>1 DEF RemoveWorktree, MayRemove, WellFormed, StoreOK, TreesElsewhere
<1>6. dropped' = IF removes /\ call[c].category = "dirty"
                 THEN dropped \cup tree[g].dirt ELSE dropped
  BY DEF RemoveWorktree
<1>7. dropped' \in Commits
  <2>1. removes => tree[g].dirt \in Commits
    BY <1>1, <1>5, TreeIs DEF WellFormed
  <2> QED  BY <1>6, <2>1 DEF Commits, WellFormed, StoreOK
<1>8. UNCHANGED <<row, branch, recovery, target, made, handoff, surface, young, crashes>>
  BY DEF RemoveWorktree, Settled
<1>9. StoreOK'
  BY <1>3, <1>5, <1>7, <1>8
     DEF WellFormed, StoreOK, TreesHaveBranches, HandoffsHaveRows, TreesElsewhere
<1>10. handoff[g] = "none" \/ call[c].op \in Reapers
  BY <1>1, ClaimedIsFree DEF Claimed
<1> QED  BY <1>1, <1>2, <1>4, <1>5, <1>6, <1>8, <1>9, <1>10 DEF WellFormed

\* A branch is deleted once its worktree is gone.
LEMMA DoesDeleteBranch ==
  ASSUME WellFormed, NEW c \in Callers, DeleteOwnBranch(c) \/ DeleteOrphan(c)
  PROVE  LET g == call[c].guid IN
         /\ WellFormed' /\ call[c] # None /\ call[c].at = "delete"
         /\ \/ call[c].op \in {"cleanup", "reap"} /\ GoesOn(c, "clean") /\ AsItWas(c)
            \/ call[c].op \in Reapers /\ IsOver(c)
         /\ branch[g] # None => tree[g] = None
         /\ BranchesElsewhere(g) /\ branch'[g] = None
         /\ dropped' = IF call[c].op = "drop" THEN dropped \cup call[c].tip ELSE dropped
         /\ UNCHANGED <<row, tree, recovery, target, made>>
<1> DEFINE g == call[c].guid
<1>1. call[c] # None /\ g \in Guids /\ call[c].at = "delete"
  BY CallIs DEF DeleteOwnBranch, DeleteOrphan, IsAt, WellFormed
<1>2. /\ CallsOK' /\ \A h \in Guids : claim'[h] \in {None, Dead, claim[h]}
      /\ \/ call[c].op \in {"cleanup", "reap"} /\ GoesOn(c, "clean") /\ AsItWas(c)
         \/ call[c].op \in Reapers /\ IsOver(c)
  <2>1. CASE DeleteOwnBranch(c)
    <3>1. CallsOK' /\ GoesOn(c, "clean") /\ AsItWas(c) /\ claim' = claim
      BY <1>1, <2>1, GoToGoes DEF DeleteOwnBranch, Places, WellFormed, GoTo
    <3> QED  BY <2>1, <3>1 DEF DeleteOwnBranch, IsAt, Tombstoning
  <2>2. CASE DeleteOrphan(c)
    <3>1. CallsOK' /\ IsOver(c) /\ \A h \in Guids : claim'[h] \in {None, Dead, claim[h]}
      BY <1>1, <2>2, EndingKeeps DEF DeleteOrphan, End, WellFormed, IsOver
    <3> QED  BY <2>2, <3>1 DEF DeleteOrphan, IsAt
  <2> QED  BY <2>1, <2>2
<1>3. /\ BranchesElsewhere(g) /\ branch'[g] = None /\ (branch[g] # None => tree[g] = None)
      /\ branch' \in [Guids -> {None} \cup Commits]
      /\ UNCHANGED <<row, tree, recovery, target, made, handoff, young, crashes>>
  BY <1>1 DEF DeleteOwnBranch, DeleteOrphan, DeleteBranch, Settled, WellFormed, StoreOK,
              BranchesElsewhere
<1>4. dropped' = IF call[c].op = "drop" THEN dropped \cup call[c].tip ELSE dropped
  BY DEF DeleteOwnBranch, DeleteOrphan, IsAt, Tombstoning
<1>5. dropped' \in Commits
  BY <1>1, <1>4 DEF WellFormed, CallsOK, AnswersHaveTips, StoreOK, Commits
<1>6. surface' \in [Guids -> {None} \cup Surfaced]
  BY DEF DeleteOwnBranch, DeleteOrphan, WellFormed, StoreOK
<1>7. TreesHaveBranches'
  BY <1>3 DEF WellFormed, StoreOK, TreesHaveBranches, BranchesElsewhere
<1>8. StoreOK'
  BY <1>2, <1>3, <1>5, <1>6, <1>7 DEF WellFormed, StoreOK, HandoffsHaveRows
<1> QED  BY <1>1, <1>2, <1>3, <1>4, <1>8 DEF WellFormed

\* The judgements of orphans.
LEMMA DoesJudge ==
  ASSUME WellFormed, NEW c \in Callers, SweepReaps(c) \/ Drop(c) \/ Merge(c)
  PROVE  LET g == call[c].guid IN
         /\ WellFormed' /\ UNCHANGED <<row, work>> /\ call[c].op \in Reapers
         /\ GoesOn(c, "remove") \/ (GoesOn(c, "advance") /\ call[c].op = "merge")
         /\ ~HasNonCleaned(g) /\ branch[g] # None
         /\ call'[c].at = "remove" /\ call[c].op \in {"sweep", "merge"} => branch[g] \subseteq target
         /\ call[c].op \in {"drop", "merge"} => branch[g] = call[c].tip
         /\ call'[c].force =>
              \/ call'[c].category = "dirty" /\ call[c].op = "drop"
              \/ tree[g] = None \/ ~tree[g].there
<1> DEFINE g == call[c].guid
<1>1. call[c] # None /\ call[c] \in Calls /\ g \in Guids /\ call[c].op \in Reapers
  BY CallIs DEF SweepReaps, Drop, Merge, IsAt, WellFormed, Reapers
<1>2. IsThere(g) \in BOOLEAN /\ call[c].present \in BOOLEAN
  BY <1>1 DEF IsThere, WellFormed, StoreOK, Trees, Calls
<1>3. /\ UNCHANGED <<row, work, handoff, surface, young, crashes, claim>>
      /\ ~HasNonCleaned(g) /\ branch[g] # None
  BY DEF SweepReaps, Drop, Merge, Eligible, IsAsSurfaced, Settled, work
<1>4. StoreOK'
  BY <1>3, StoreKept DEF WellFormed
<1>5. CASE SweepReaps(c)
  <2> DEFINE there == call[c].present /\ IsThere(g)
  <2> DEFINE r == [call[c] EXCEPT !.at = "remove", !.present = there,
                                  !.force = call[c].present /\ ~there]
  <2>1. r \in Calls /\ r.at = "remove" /\ r.op = call[c].op /\ r.guid = g /\ r.tip = call[c].tip
        /\ r.force = (call[c].present /\ ~IsThere(g))
    BY <1>1, <1>2 DEF Calls, Places
  <2>2. call' = [call EXCEPT ![c] = r]
    BY <1>5 DEF SweepReaps
  <2> HIDE DEF r
  <2>3. GoesOn(c, "remove") /\ call'[c] = r /\ CallsOK'
    BY <1>1, <1>3, <2>1, <2>2, RecordGoes DEF WellFormed
  <2>4. call[c].op = "sweep" /\ branch[g] \subseteq target
    BY <1>5 DEF SweepReaps, IsAt, IsMerged
  <2> QED  BY <1>1, <1>3, <1>4, <2>1, <2>3, <2>4 DEF WellFormed, IsThere
<1>6. CASE Drop(c)
  <2> DEFINE dirty == IsThere(g) /\ ~IsClean(g)
  <2> DEFINE r == [call[c] EXCEPT !.at = "remove", !.present = IsThere(g),
                                  !.force = dirty \/ (tree[g] # None /\ ~IsThere(g))]
  <2>1. r \in Calls /\ r.at = "remove" /\ r.op = call[c].op /\ r.guid = g /\ r.tip = call[c].tip
        /\ r.force = (dirty \/ (tree[g] # None /\ ~IsThere(g))) /\ r.category = call[c].category
    BY <1>1, <1>2 DEF Calls, Places
  <2>2. call' = [call EXCEPT ![c] = r]
    BY <1>6 DEF Drop
  <2> HIDE DEF r
  <2>3. GoesOn(c, "remove") /\ call'[c] = r /\ CallsOK'
    BY <1>1, <1>3, <2>1, <2>2, RecordGoes DEF WellFormed
  <2>4. call[c].op = "drop" /\ branch[g] = call[c].tip /\ (dirty => call[c].category = "dirty")
    BY <1>6 DEF Drop, IsAt, IsAsSurfaced, DirtIsConsented
  <2> QED  BY <1>1, <1>3, <1>4, <2>1, <2>3, <2>4 DEF WellFormed, IsThere
<1>7. CASE Merge(c)
  <2> DEFINE place == IF IsMerged(call[c].tip) THEN "remove" ELSE "advance"
  <2> DEFINE r == [call[c] EXCEPT !.at = place, !.present = IsThere(g),
                                  !.force = tree[g] # None /\ ~IsThere(g),
                                  !.expected = IF IsMerged(call[c].tip) THEN None ELSE target]
  <2>0. place \in {"remove", "advance"} /\ (place = "remove" => IsMerged(call[c].tip))
    OBVIOUS
  <2> HIDE DEF place
  <2>1. r \in Calls /\ r.at = place /\ r.op = call[c].op /\ r.guid = g /\ r.tip = call[c].tip
        /\ r.force = (tree[g] # None /\ ~IsThere(g))
    <3>1. target \in Commits /\ place \in Places /\ (tree[g] # None /\ ~IsThere(g)) \in BOOLEAN
      BY <1>2, <2>0 DEF Places, WellFormed, StoreOK
    <3> QED  BY <1>1, <1>2, <3>1 DEF Calls
  <2>2. call' = [call EXCEPT ![c] = r]
    BY <1>7 DEF Merge, place
  <2> HIDE DEF r
  <2>3. GoesOn(c, place) /\ call'[c] = r /\ CallsOK'
    BY <1>1, <1>3, <2>1, <2>2, RecordGoes DEF WellFormed
  <2>4. call[c].op = "merge" /\ branch[g] = call[c].tip
    BY <1>7 DEF Merge, IsAt, IsAsSurfaced
  <2> QED  BY <1>1, <1>3, <1>4, <2>0, <2>1, <2>3, <2>4 DEF WellFormed, IsThere, IsMerged
<1> QED  BY <1>5, <1>6, <1>7

\* An answered merge adds the tip it speaks of to the target.
LEMMA DoesAdvanceTarget ==
  ASSUME WellFormed, NEW c \in Callers, AdvanceTarget(c)
  PROVE  /\ WellFormed' /\ GoesOn(c, "remove") /\ AsItWas(c)
         /\ call[c].op = "merge" /\ call[c].at = "advance"
         /\ target' = target \cup call[c].tip
         /\ UNCHANGED <<row, tree, branch, recovery, made, dropped>>
<1>1. call[c] # None /\ call[c].op = "merge" /\ call[c].at = "advance"
  BY DEF AdvanceTarget, IsAt
<1> DEFINE r == [call[c] EXCEPT !.at = "remove", !.expected = None]
<1>2. GoesOn(c, "remove") /\ AsItWas(c) /\ CallsOK' /\ claim' = claim
  <2>1. call[c] \in Calls
    BY <1>1, CallIs DEF WellFormed
  <2>2. r \in Calls /\ r.at = "remove" /\ r.op = call[c].op /\ r.guid = call[c].guid
        /\ r.tip = call[c].tip /\ r.present = call[c].present /\ r.force = call[c].force
        /\ r.category = call[c].category
    BY <2>1 DEF Calls, Places
  <2>3. call' = [call EXCEPT ![c] = r] /\ claim' = claim
    BY DEF AdvanceTarget
  <2> HIDE DEF r
  <2> QED  BY <1>1, <2>2, <2>3, RecordGoes DEF AsItWas, WellFormed
<1>3. target' = target \cup call[c].tip
  BY DEF AdvanceTarget, SwapHolds
<1>4. target' \in Commits
  BY <1>1, <1>3 DEF WellFormed, CallsOK, AnswersHaveTips, StoreOK, Commits
<1>5. UNCHANGED <<row, tree, branch, recovery, made, dropped, handoff, surface, young, crashes>>
  BY DEF AdvanceTarget, Settled
<1>6. StoreOK'
  BY <1>2, <1>4, <1>5 DEF WellFormed, StoreOK, TreesHaveBranches, HandoffsHaveRows
<1> QED  BY <1>1, <1>2, <1>3, <1>5, <1>6 DEF WellFormed

\* What the world does.
LEMMA CallsAreKept ==
  ASSUME CallsOK, UNCHANGED <<call, claim>>
  PROVE  CallsOK'
BY DEF CallsOK, AnswersHaveTips, CallsHoldClaims

\* A transfer changes an owner.
LEMMA DoesTransfer ==
  ASSUME WellFormed, NEW g \in Guids, NEW s \in Sessions, TransferHandoff(g, s)
  PROVE  WellFormed' /\ Reowned(g) /\ UNCHANGED <<work, call>>
<1>1. row[g] # None /\ row[g].status = "active" /\ handoff[g] = "begun"
  BY DEF TransferHandoff, SetPhase, WellFormed, StoreOK, HandoffsHaveRows
<1>2. row' \in [Guids -> {None} \cup Rows] /\ Reowned(g)
  BY <1>1, OwnerSets DEF TransferHandoff, WellFormed
<1>3. UNCHANGED <<work, call, claim, surface, young, crashes>>
  BY DEF TransferHandoff, git, ghosts, work
<1>4. handoff' \in [Guids -> Phases] /\ \A h \in Guids : handoff'[h] # "none" => handoff[h] # "none"
  BY <1>1 DEF TransferHandoff, SetPhase, Phases, WellFormed, StoreOK
<1>5. StoreOK'
  BY <1>2, <1>3, <1>4 DEF WellFormed, StoreOK, TreesHaveBranches, HandoffsHaveRows, Reowned,
                          RowKept, RowsElsewhere, work
<1> QED  BY <1>2, <1>3, <1>5, CallsAreKept DEF WellFormed

\* An edit adds one change to what is uncommitted.
LEMMA DoesEdit ==
  ASSUME WellFormed, NEW g \in Guids, NEW x \in Changes, Edit(g, x)
  PROVE  /\ WellFormed' /\ DirtSet(g, tree[g].dirt \cup {x}) /\ made' = made \cup {x}
         /\ UNCHANGED <<row, call, branch, recovery, target, dropped>>
<1>1. tree[g] # None /\ tree[g].dirt \cup {x} \in Commits
  BY TreeIs DEF Edit, IsThere, WellFormed, Commits
<1>2. tree' \in [Guids -> {None} \cup Trees] /\ DirtSet(g, tree[g].dirt \cup {x})
  BY <1>1, DirtSets DEF Edit, WellFormed
<1>3. StoreOK'
  BY <1>2 DEF Edit, WellFormed, StoreOK, TreesHaveBranches, HandoffsHaveRows, Commits, DirtSet,
              TreesElsewhere
<1> QED  BY <1>2, <1>3, CallsAreKept DEF WellFormed, Edit

\* A commit moves what is uncommitted to the branch.
LEMMA DoesCommit ==
  ASSUME WellFormed, NEW g \in Guids, Commit(g)
  PROVE  /\ WellFormed' /\ MayCommit(g) /\ DirtSet(g, {}) /\ BranchesElsewhere(g)
         /\ branch[g] # None /\ branch'[g] # None /\ branch'[g] = branch[g] \cup tree[g].dirt
         /\ UNCHANGED <<row, call, recovery, target, made, dropped>>
<1>1. tree[g] # None /\ tree[g].dirt \in Commits /\ branch[g] \in Commits /\ branch[g] # None
  BY TreeIs DEF Commit, IsThere, WellFormed
<1>2. branch[g] \cup tree[g].dirt \in Commits /\ {} \in Commits
  BY <1>1 DEF Commits
<1>3. tree' \in [Guids -> {None} \cup Trees] /\ DirtSet(g, {})
  BY <1>2, DirtSets DEF Commit, WellFormed
<1>4. /\ branch' \in [Guids -> {None} \cup Commits] /\ BranchesElsewhere(g)
      /\ branch'[g] # None /\ branch'[g] = branch[g] \cup tree[g].dirt
  BY <1>2, NoneAssumption DEF Commit, WellFormed, StoreOK, BranchesElsewhere
<1>5. UNCHANGED <<row, call, claim, handoff, surface, recovery, target, made, dropped, crashes>>
      /\ young' \subseteq Guids
  BY DEF Commit, ghosts, WellFormed, StoreOK
<1>6. StoreOK'
  BY <1>3, <1>4, <1>5 DEF WellFormed, StoreOK, TreesHaveBranches, HandoffsHaveRows, DirtSet,
                          TreesElsewhere, BranchesElsewhere
<1>7. MayCommit(g)
  BY DEF Commit
<1> QED  BY <1>1, <1>3, <1>4, <1>5, <1>6, <1>7, CallsAreKept DEF WellFormed

\* A landing adds the branch to the target, and the branch follows it.
LEMMA DoesLand ==
  ASSUME WellFormed, NEW g \in Guids, Land(g)
  PROVE  /\ WellFormed' /\ StatusSet(g, "active", "integrated") /\ call' = call
         /\ claim[g] \notin Callers
         /\ target' = target \cup branch[g] /\ branch[g] # None
         /\ BranchesElsewhere(g) /\ branch'[g] # None /\ branch'[g] = target'
         /\ UNCHANGED <<tree, recovery, made, dropped>>
<1>1. row[g] # None /\ row[g].status = "active" /\ row[g] \in Rows
  BY DEF Land, WellFormed, StoreOK
<1>2. target' = target \cup branch[g] /\ target' \in Commits
  BY DEF Land, WellFormed, StoreOK, Commits
<1>3. /\ branch' \in [Guids -> {None} \cup Commits] /\ BranchesElsewhere(g)
      /\ branch'[g] # None /\ branch'[g] = target' /\ branch[g] # None
  BY <1>2, NoneAssumption DEF Land, WellFormed, StoreOK, BranchesElsewhere
<1>4. row' \in [Guids -> {None} \cup Rows] /\ StatusSet(g, "active", "integrated")
  <2> DEFINE r == [row[g] EXCEPT !.status = "integrated", !.landed = target']
  <2>1. r \in Rows /\ r.status = "integrated" /\ r.anchor = row[g].anchor
    BY <1>1, <1>2 DEF Rows, Statuses
  <2>2. row' = [row EXCEPT ![g] = r]
    BY DEF Land
  <2> HIDE DEF r
  <2> QED
    BY <1>1, <2>1, <2>2, NoneAssumption DEF WellFormed, StoreOK, StatusSet, RowKept, RowsElsewhere
<1>5. /\ UNCHANGED <<call, tree, recovery, made, dropped, handoff, surface, young, crashes>>
      /\ handoff[g] = "none" /\ claim[g] \in {None, Dead} /\ claim' = [claim EXCEPT ![g] = None]
  BY DEF Land, MayClaim
<1>6. StoreOK'
  BY <1>2, <1>3, <1>4, <1>5 DEF WellFormed, CallsOK, StoreOK, TreesHaveBranches, HandoffsHaveRows,
                                StatusSet, RowKept, RowsElsewhere, BranchesElsewhere
<1>7. CallsOK'
  BY <1>5, CallIs, WorkspaceAssumption DEF WellFormed, CallsOK, AnswersHaveTips, CallsHoldClaims
<1> QED  BY <1>2, <1>3, <1>4, <1>5, <1>6, <1>7, WorkspaceAssumption DEF WellFormed

\* The operator adds a change to the target.
LEMMA DoesOperatorCommit ==
  ASSUME WellFormed, NEW x \in Changes, OperatorCommits(x)
  PROVE  /\ WellFormed' /\ made' = made \cup {x} /\ target' = target \cup {x}
         /\ UNCHANGED <<row, call, tree, branch, recovery, dropped>>
<1>1. StoreOK'
  BY DEF OperatorCommits, WellFormed, StoreOK, TreesHaveBranches, HandoffsHaveRows, Commits
<1> QED  BY <1>1, CallsAreKept DEF WellFormed, OperatorCommits

\* Only the directory of a clean worktree goes away by itself.
LEMMA DoesDeleteDirectory ==
  ASSUME WellFormed, NEW g \in Guids, DeleteDirectory(g)
  PROVE  /\ WellFormed' /\ TreesElsewhere(g) /\ tree[g] # None /\ tree[g].there
         /\ tree'[g] # None /\ ~tree'[g].there /\ tree[g].dirt = {} /\ tree'[g].dirt = {}
         /\ UNCHANGED <<row, call, branch, recovery, target, made, dropped>>
<1>1. tree[g] \in Trees /\ tree[g] # None /\ tree[g].there /\ tree[g].dirt = {}
  BY TreeIs DEF DeleteDirectory, IsThere, IsClean, WellFormed
<1> DEFINE t == [tree[g] EXCEPT !.there = FALSE]
<1>2. t \in Trees /\ ~t.there /\ t.dirt = {}
  BY <1>1 DEF Trees
<1>3. /\ tree' = [tree EXCEPT ![g] = t]
      /\ UNCHANGED <<row, call, claim, handoff, surface, branch, recovery, target, young, made,
                      dropped, crashes>>
  BY DEF DeleteDirectory, ghosts
<1> HIDE DEF t
<1>4. TreesElsewhere(g) /\ tree'[g] = t /\ t # None
  BY <1>2, <1>3, NoneAssumption DEF WellFormed, StoreOK, TreesElsewhere
<1>5. StoreOK'
  BY <1>1, <1>2, <1>3, <1>4
     DEF WellFormed, StoreOK, TreesHaveBranches, HandoffsHaveRows, TreesElsewhere
<1> QED  BY <1>1, <1>2, <1>3, <1>4, <1>5, CallsAreKept DEF WellFormed

\* The steps, apart from the quiet ones.
ActsOn(c) ==
  \/ Insert(c) \/ AddWorktree(c) \/ Materialize(c) \/ Activate(c) \/ BindOwner(c)
  \/ AbandonPlainly(c) \/ DeleteReserved(c)
  \/ CheckRescue(c) \/ CheckReap(c) \/ CheckTerminal(c)
  \/ RescueCommit(c) \/ RescueAnchor(c) \/ MarkAbandoned(c) \/ LeaveWorktree(c)
  \/ Prove(c) \/ RemoveWorktree(c) \/ DeleteOwnBranch(c) \/ DeleteOrphan(c) \/ MarkCleaned(c)
  \/ SweepReaps(c) \/ Drop(c) \/ Merge(c) \/ AdvanceTarget(c)
  \/ \E g \in Guids, w \in Workers : ReserveWorker(c, g, w)

HappensTo(g) ==
  \/ \E s \in Sessions : TransferHandoff(g, s)
  \/ \E x \in Changes : Edit(g, x)
  \/ Commit(g) \/ Land(g) \/ DeleteDirectory(g)

\* Every step is quiet or one of the steps above.
LEMMA Steps ==
  ASSUME WellFormed, [Next]_vars
  PROVE  \/ WellFormed' /\ Quiet
         \/ \E c \in Callers : ActsOn(c)
         \/ \E g \in Guids : HappensTo(g)
         \/ \E x \in Changes : OperatorCommits(x)
<1>1. ASSUME NEW c \in Callers, NEW g \in Guids, Ask(c, g)
      PROVE  (WellFormed' /\ Quiet) \/ ActsOn(c)
  BY <1>1, BeginningIsQuiet DEF Ask, ActsOn
<1>2. ASSUME NEW c \in Callers, Allocate(c) \/ BindOwner(c) \/ EndLife(c) \/ Orphan(c)
      PROVE  (WellFormed' /\ Quiet) \/ ActsOn(c)
  BY <1>2, EndingIsQuiet DEF Allocate, EndLife, Orphan, ActsOn
<1>3. ASSUME NEW c \in Callers, Fail(c) \/ Die(c)  PROVE WellFormed' /\ Quiet
  BY <1>3, EndingIsQuiet
<1>4. ASSUME NEW g \in Guids, Outside(g)  PROVE (WellFormed' /\ Quiet) \/ HappensTo(g)
  BY <1>4, OutsideIsQuiet DEF Outside, HappensTo
<1>5. ASSUME ReapStaleMutations \/ UNCHANGED vars  PROVE WellFormed' /\ Quiet
  BY <1>5, OutsideIsQuiet
<1> QED  BY <1>1, <1>2, <1>3, <1>4, <1>5 DEF Next

\* The state stays well-formed.
LEMMA WellFormedKept ==
  ASSUME BaseInv, [Next]_vars
  PROVE  WellFormed'
BY Steps, DoesInsert, DoesAddWorktree, DoesMaterialize, DoesActivate, DoesBindOwner,
   DoesAbandonPlainly, DoesDeleteReserved, DoesCheck, DoesRescueCommit, DoesRescueAnchor,
   DoesMarkAbandoned, DoesLeaveWorktree, DoesProve, DoesRemoveWorktree, DoesDeleteBranch,
   DoesMarkCleaned, DoesJudge, DoesAdvanceTarget, DoesReserve, DoesTransfer, DoesEdit,
   DoesCommit, DoesLand, DoesOperatorCommit, DoesDeleteDirectory DEF ActsOn, HappensTo, BaseInv

\* A call that has read a base keeps it, and the target only grows.
LEMMA BasesKept ==
  ASSUME BaseInv, [Next]_vars
  PROVE  BasesAreMerged'
<1>1. ASSUME target \subseteq target',
             \A d \in Callers : call'[d] # None /\ call'[d].at = "add" => call'[d] = call[d]
      PROVE  BasesAreMerged'
  BY <1>1 DEF BaseInv, BasesAreMerged
<1>2. ASSUME NEW c \in Callers, target \subseteq target',
             IsOver(c) \/ \E place : GoesOn(c, place) /\ place # "add"
      PROVE  BasesAreMerged'
  BY <1>1, <1>2 DEF IsOver, GoesOn, OthersCall
<1>3. ASSUME NEW c \in Callers, target' = target, OthersCall(c), call'[c] # None,
             call'[c].expected = target
      PROVE  BasesAreMerged'
  BY <1>3 DEF BaseInv, BasesAreMerged, OthersCall, WellFormed, StoreOK
<1>4. ASSUME Quiet  PROVE BasesAreMerged'
  BY <1>1, <1>4 DEF Quiet, work, Early
<1>5. ASSUME NEW c \in Callers, Insert(c)  PROVE BasesAreMerged'
  BY <1>3, <1>5, DoesInsert DEF BaseInv, work, GoesOn
<1>6. ASSUME NEW c \in Callers, NEW g \in Guids, NEW w \in Workers, ReserveWorker(c, g, w)
      PROVE  BasesAreMerged'
  BY <1>3, <1>6, DoesReserve DEF BaseInv, work
<1>7. ASSUME NEW c \in Callers,
             AddWorktree(c) \/ Materialize(c) \/ Activate(c) \/ BindOwner(c)
      PROVE  BasesAreMerged'
  BY <1>2, <1>7, DoesAddWorktree, DoesMaterialize, DoesActivate, DoesBindOwner DEF BaseInv, work
<1>8. ASSUME NEW c \in Callers, AbandonPlainly(c) \/ DeleteReserved(c) \/ MarkCleaned(c)
      PROVE  BasesAreMerged'
  BY <1>2, <1>8, DoesAbandonPlainly, DoesDeleteReserved, DoesMarkCleaned DEF BaseInv, work
<1>9. ASSUME NEW c \in Callers, CheckRescue(c) \/ CheckReap(c) \/ CheckTerminal(c)
      PROVE  BasesAreMerged'
  BY <1>2, <1>9, DoesCheck DEF BaseInv, work
<1>10. ASSUME NEW c \in Callers,
              RescueCommit(c) \/ RescueAnchor(c) \/ MarkAbandoned(c) \/ LeaveWorktree(c)
       PROVE  BasesAreMerged'
  BY <1>2, <1>10, DoesRescueCommit, DoesRescueAnchor, DoesMarkAbandoned, DoesLeaveWorktree
     DEF BaseInv, work
<1>11. ASSUME NEW c \in Callers,
              Prove(c) \/ RemoveWorktree(c) \/ DeleteOwnBranch(c) \/ DeleteOrphan(c)
       PROVE  BasesAreMerged'
  BY <1>2, <1>11, DoesProve, DoesRemoveWorktree, DoesDeleteBranch DEF BaseInv
<1>12. ASSUME NEW c \in Callers, SweepReaps(c) \/ Drop(c) \/ Merge(c)  PROVE BasesAreMerged'
  BY <1>2, <1>12, DoesJudge DEF BaseInv, work
<1>13. ASSUME NEW c \in Callers, AdvanceTarget(c)  PROVE BasesAreMerged'
  BY <1>2, <1>13, DoesAdvanceTarget DEF BaseInv
<1>14. ASSUME NEW g \in Guids, HappensTo(g)  PROVE BasesAreMerged'
  BY <1>1, <1>14, DoesTransfer, DoesEdit, DoesCommit, DoesLand, DoesDeleteDirectory
     DEF HappensTo, BaseInv, work
<1>15. ASSUME NEW x \in Changes, OperatorCommits(x)  PROVE BasesAreMerged'
  BY <1>1, <1>15, DoesOperatorCommit DEF BaseInv
<1> QED  BY <1>4, <1>5, <1>6, <1>7, <1>8, <1>9, <1>10, <1>11, <1>12, <1>13, <1>14, <1>15, Steps
    DEF ActsOn, BaseInv

\* BaseInv is inductive.
LEMMA BaseKept ==
  ASSUME BaseInv, [Next]_vars
  PROVE  BaseInv'
BY WellFormedKept, BasesKept DEF BaseInv

\* Two claimed calls on one GUID are one call.
LEMMA Alone ==
  ASSUME CallsOK, NEW c \in Callers, NEW d \in Callers, call[c] # None, call[d] # None,
         call[c].op \in Claimed, call[d].op \in Claimed, call[c].guid = call[d].guid
  PROVE  c = d
BY DEF CallsOK, CallsHoldClaims

\* So is LifeInv with it, where no call comes late.
LEMMA LifeKept ==
  ASSUME BaseInv, BaseInv', "late-call" \notin Slips, LifeInv, [Next]_vars
  PROVE  LifeInv'
<1> USE CallIs, Alone
    DEF BaseInv, WellFormed, GoesOn, IsOver, OthersCall, AsItWas, StatusSet, Reowned, AnchorSet, RowKept,
        IsNew, RowsElsewhere, TreesElsewhere, BranchesElsewhere, RefsElsewhere, DirtSet, work,
        LifeInv, RowsAwaitCalls, OrphansStayOrphans, LiveRowsHaveTrees, HasTree, Claimed,
        Reapers, ReapsAt, EndsLive, TearsDown, IsLive, Terminal, HasNonCleaned, MayInsert,
        MayLiveAgain, MayMake
<1>1. ASSUME Quiet  PROVE LifeInv'
  BY <1>1 DEF Quiet, Early
<1>2. ASSUME NEW c \in Callers, Insert(c)  PROVE LifeInv'
  BY <1>2, DoesInsert
<1>3. ASSUME NEW c \in Callers, AddWorktree(c)  PROVE LifeInv'
  BY <1>3, DoesAddWorktree
<1>4. ASSUME NEW c \in Callers, Materialize(c)  PROVE LifeInv'
  BY <1>4, DoesMaterialize
<1>5. ASSUME NEW c \in Callers, Activate(c)  PROVE LifeInv'
  BY <1>5, DoesActivate
<1>6. ASSUME NEW c \in Callers, BindOwner(c)  PROVE LifeInv'
  BY <1>6, DoesBindOwner
<1>7. ASSUME NEW c \in Callers, AbandonPlainly(c)  PROVE LifeInv'
  BY <1>7, DoesAbandonPlainly
<1>8. ASSUME NEW c \in Callers, DeleteReserved(c)  PROVE LifeInv'
  BY <1>8, DoesDeleteReserved
<1>9. ASSUME NEW c \in Callers, CheckRescue(c) \/ CheckReap(c) \/ CheckTerminal(c)
       PROVE  LifeInv'
  BY <1>9, DoesCheck
<1>10. ASSUME NEW c \in Callers, RescueCommit(c)  PROVE LifeInv'
  BY <1>10, DoesRescueCommit
<1>11. ASSUME NEW c \in Callers, RescueAnchor(c)  PROVE LifeInv'
  BY <1>11, DoesRescueAnchor
<1>12. ASSUME NEW c \in Callers, MarkAbandoned(c)  PROVE LifeInv'
  BY <1>12, DoesMarkAbandoned
<1>13. ASSUME NEW c \in Callers, LeaveWorktree(c)  PROVE LifeInv'
  BY <1>13, DoesLeaveWorktree
<1>14. ASSUME NEW c \in Callers, Prove(c)  PROVE LifeInv'
  BY <1>14, DoesProve
<1>15. ASSUME NEW c \in Callers, RemoveWorktree(c)  PROVE LifeInv'
  BY <1>15, DoesRemoveWorktree
<1>16. ASSUME NEW c \in Callers, DeleteOwnBranch(c) \/ DeleteOrphan(c)  PROVE LifeInv'
  BY <1>16, DoesDeleteBranch
<1>17. ASSUME NEW c \in Callers, MarkCleaned(c)  PROVE LifeInv'
  BY <1>17, DoesMarkCleaned
<1>18. ASSUME NEW c \in Callers, SweepReaps(c) \/ Drop(c) \/ Merge(c)  PROVE LifeInv'
  BY <1>18, DoesJudge
<1>19. ASSUME NEW c \in Callers, AdvanceTarget(c)  PROVE LifeInv'
  BY <1>19, DoesAdvanceTarget
<1>20. ASSUME NEW c \in Callers, NEW g \in Guids, NEW w \in Workers, ReserveWorker(c, g, w)
       PROVE  LifeInv'
  BY <1>20, DoesReserve
<1>21. ASSUME NEW g \in Guids, NEW s \in Sessions, TransferHandoff(g, s)  PROVE LifeInv'
  BY <1>21, DoesTransfer
<1>22. ASSUME NEW g \in Guids, NEW x \in Changes, Edit(g, x)  PROVE LifeInv'
  BY <1>22, DoesEdit
<1>23. ASSUME NEW g \in Guids, Commit(g)  PROVE LifeInv'
  BY <1>23, DoesCommit
<1>24. ASSUME NEW g \in Guids, Land(g)  PROVE LifeInv'
  BY <1>24, DoesLand, CallIs DEF CallsOK, CallsHoldClaims
<1>25. ASSUME NEW x \in Changes, OperatorCommits(x)  PROVE LifeInv'
  BY <1>25, DoesOperatorCommit
<1>26. ASSUME NEW g \in Guids, DeleteDirectory(g)  PROVE LifeInv'
  BY <1>26, DoesDeleteDirectory
<1> QED  BY ONLY <1>1, <1>2, <1>3, <1>4, <1>5, <1>6, <1>7, <1>8, <1>9, <1>10, <1>11, <1>12,
    <1>13, <1>14, <1>15, <1>16, <1>17, <1>18, <1>19, <1>20, <1>21, <1>22, <1>23, <1>24, <1>25,
    <1>26, BaseInv, [Next]_vars, Steps
    DEF ActsOn, HappensTo

\* What is removed after a rescue is clean.
LEMMA NothingIsLost_LeaveWorktree ==
  ASSUME BaseInv, BaseInv', Slips = {}, LifeInv, WorkInv,
         NEW c \in Callers, LeaveWorktree(c)
  PROVE  NothingIsLost'
<1> DEFINE g == call[c].guid
<1>1. /\ g \in Guids /\ TreesElsewhere(g)
      /\ tree'[g] = tree[g] \/ (tree[g] # None /\ tree[g].dirt = {} /\ tree'[g] = None)
      /\ UNCHANGED <<branch, recovery, target, made, dropped>>
  BY DoesLeaveWorktree, CallIs DEF IsClean, BaseInv, WellFormed
<1> QED  BY <1>1 DEF WorkInv, NothingIsLost, Held, TreesElsewhere

\* Work that is removed by force was shown to the operator, or is none.
LEMMA NothingIsLost_RemoveWorktree ==
  ASSUME BaseInv, BaseInv', Slips = {}, LifeInv, WorkInv,
         NEW c \in Callers, RemoveWorktree(c)
  PROVE  NothingIsLost'
<1> DEFINE g == call[c].guid
<1>1. /\ g \in Guids /\ TreesElsewhere(g) /\ dropped \subseteq dropped'
      /\ UNCHANGED <<branch, recovery, target, made>>
  BY DoesRemoveWorktree, CallIs DEF BaseInv, WellFormed, GoesOn
<1>2. \/ tree'[g] = tree[g]
      \/ tree[g] # None /\ tree'[g] = None /\ (tree[g].dirt = {} \/ tree[g].dirt \subseteq dropped')
  <2>1. CASE call[c].force
    <3>1. call[c].op \in Reapers /\ call[c].at = "remove" /\ call[c] # None
      BY <2>1, DoesRemoveWorktree DEF WorkInv, EndingsAreSafe, EndsSafely, Claimed, GoesOn, BaseInv
    <3>2. call[c].category = "dirty" \/ tree[g] = None \/ ~tree[g].there
      BY <2>1, <3>1 DEF WorkInv, ReapsAreSafe
    <3> QED  BY <1>1, <2>1, <3>2, DoesRemoveWorktree DEF WorkInv, GoneIsClean, BaseInv
  <2>2. CASE ~call[c].force
    BY <2>2, DoesRemoveWorktree DEF IsClean, BaseInv
  <2> QED  BY <2>1, <2>2
<1> QED  BY <1>1, <1>2 DEF WorkInv, NothingIsLost, Held, TreesElsewhere

\* A branch that is deleted is in the target, behind the ref, or dropped.
LEMMA NothingIsLost_DeleteBranch ==
  ASSUME BaseInv, BaseInv', Slips = {}, LifeInv, WorkInv,
         NEW c \in Callers, DeleteOwnBranch(c) \/ DeleteOrphan(c)
  PROVE  NothingIsLost'
<1> DEFINE g == call[c].guid
<1>1. /\ g \in Guids /\ BranchesElsewhere(g) /\ branch'[g] = None /\ dropped \subseteq dropped'
      /\ UNCHANGED <<tree, recovery, target, made>>
  BY DoesDeleteBranch, CallIs DEF BaseInv, WellFormed
<1>2. OrEmpty(branch[g]) \subseteq target \cup OrEmpty(recovery[g]) \cup dropped'
  <2>1. CASE call[c].op \in {"cleanup", "reap"}
    BY <2>1, DoesDeleteBranch DEF WorkInv, EndingsAreSafe, EndsSafely, Claimed, IsSafe, OrEmpty,
          BaseInv
  <2>2. CASE call[c].op \in Reapers
    BY <2>2, DoesDeleteBranch DEF WorkInv, ReapsAreSafe, Reapers, ReapsAt, BaseInv
  <2> QED  BY <2>1, <2>2, DoesDeleteBranch DEF BaseInv
<1> QED  BY <1>1, <1>2 DEF WorkInv, NothingIsLost, Held, BranchesElsewhere, OrEmpty

\* A rescue commits what is uncommitted to the branch.
LEMMA NothingIsLost_RescueCommit ==
  ASSUME BaseInv, BaseInv', WorkInv,
         NEW c \in Callers, RescueCommit(c)
  PROVE  NothingIsLost'
<1> DEFINE g == call[c].guid
<1>1. /\ g \in Guids /\ TreesElsewhere(g) /\ BranchesElsewhere(g)
      /\ branch[g] # None /\ branch'[g] # None /\ branch'[g] = branch[g] \cup tree[g].dirt
      /\ UNCHANGED <<recovery, target, made, dropped>>
  BY DoesRescueCommit, CallIs DEF BaseInv, WellFormed, DirtSet, GoesOn
<1> QED  BY ONLY <1>1, WorkInv
    DEF WorkInv, NothingIsLost, Held, TreesElsewhere, BranchesElsewhere

\* A new change is in the worktree it was made in.
LEMMA NothingIsLost_Edit ==
  ASSUME BaseInv, WorkInv, NEW g \in Guids, NEW x \in Changes, Edit(g, x)
  PROVE  NothingIsLost'
<1>1. /\ TreesElsewhere(g) /\ tree[g] # None /\ tree'[g] # None
      /\ tree'[g].dirt = tree[g].dirt \cup {x} /\ made' = made \cup {x}
      /\ UNCHANGED <<branch, recovery, target, dropped>>
  BY DoesEdit DEF DirtSet, BaseInv
<1> QED  BY ONLY <1>1, WorkInv, g \in Guids DEF WorkInv, NothingIsLost, Held, TreesElsewhere

\* No step loses a change.
LEMMA NothingIsLostKept ==
  ASSUME BaseInv, BaseInv', Slips = {}, LifeInv, WorkInv, [Next]_vars
  PROVE  NothingIsLost'
<1> USE CallIs, Alone
    DEF BaseInv, WellFormed, GoesOn, IsOver, OthersCall, AsItWas, StatusSet, Reowned, AnchorSet, RowKept,
        IsNew, RowsElsewhere, TreesElsewhere, BranchesElsewhere, RefsElsewhere, DirtSet, work,
        Claimed, Reapers, ReapsAt, EndsLive, TearsDown, IsLive, Terminal, HasNonCleaned,
        MayInsert, MayLiveAgain, MayMake, NoAnchor, RefAnchor, OrEmpty, IsSafe, LifeInv,
        RowsAwaitCalls, OrphansStayOrphans, WorkInv, NothingIsLost, Held, GoneIsClean,
        AnchorsHold, TornDownIsSafe, EndingsAreSafe, EndsSafely, ReapsAreSafe, IsClean,
        IsThere
<1>1. ASSUME Quiet  PROVE NothingIsLost'
  BY <1>1 DEF Quiet, Early
<1>2. ASSUME NEW c \in Callers, Insert(c)  PROVE NothingIsLost'
  BY <1>2, DoesInsert
<1>3. ASSUME NEW c \in Callers, AddWorktree(c)  PROVE NothingIsLost'
  BY <1>3, DoesAddWorktree
<1>4. ASSUME NEW c \in Callers, Materialize(c)  PROVE NothingIsLost'
  BY <1>4, DoesMaterialize
<1>5. ASSUME NEW c \in Callers, Activate(c)  PROVE NothingIsLost'
  BY <1>5, DoesActivate
<1>6. ASSUME NEW c \in Callers, BindOwner(c)  PROVE NothingIsLost'
  BY <1>6, DoesBindOwner
<1>7. ASSUME NEW c \in Callers, AbandonPlainly(c)  PROVE NothingIsLost'
  BY <1>7, DoesAbandonPlainly
<1>8. ASSUME NEW c \in Callers, DeleteReserved(c)  PROVE NothingIsLost'
  BY <1>8, DoesDeleteReserved
<1>9. ASSUME NEW c \in Callers, CheckRescue(c) \/ CheckReap(c) \/ CheckTerminal(c)
       PROVE  NothingIsLost'
  BY <1>9, DoesCheck
<1>10. ASSUME NEW c \in Callers, RescueCommit(c)  PROVE NothingIsLost'
  BY <1>10, NothingIsLost_RescueCommit
<1>11. ASSUME NEW c \in Callers, RescueAnchor(c)  PROVE NothingIsLost'
  BY <1>11, DoesRescueAnchor
<1>12. ASSUME NEW c \in Callers, MarkAbandoned(c)  PROVE NothingIsLost'
  BY <1>12, DoesMarkAbandoned
<1>13. ASSUME NEW c \in Callers, LeaveWorktree(c)  PROVE NothingIsLost'
  BY <1>13, NothingIsLost_LeaveWorktree
<1>14. ASSUME NEW c \in Callers, Prove(c)  PROVE NothingIsLost'
  BY <1>14, DoesProve
<1>15. ASSUME NEW c \in Callers, RemoveWorktree(c)  PROVE NothingIsLost'
  BY <1>15, NothingIsLost_RemoveWorktree
<1>16. ASSUME NEW c \in Callers, DeleteOwnBranch(c) \/ DeleteOrphan(c)  PROVE NothingIsLost'
  BY <1>16, NothingIsLost_DeleteBranch
<1>17. ASSUME NEW c \in Callers, MarkCleaned(c)  PROVE NothingIsLost'
  BY <1>17, DoesMarkCleaned
<1>18. ASSUME NEW c \in Callers, SweepReaps(c) \/ Drop(c) \/ Merge(c)  PROVE NothingIsLost'
  BY <1>18, DoesJudge
<1>19. ASSUME NEW c \in Callers, AdvanceTarget(c)  PROVE NothingIsLost'
  BY <1>19, DoesAdvanceTarget
<1>20. ASSUME NEW c \in Callers, NEW g \in Guids, NEW w \in Workers, ReserveWorker(c, g, w)
       PROVE  NothingIsLost'
  BY <1>20, DoesReserve
<1>21. ASSUME NEW g \in Guids, NEW s \in Sessions, TransferHandoff(g, s)  PROVE NothingIsLost'
  BY <1>21, DoesTransfer
<1>22. ASSUME NEW g \in Guids, NEW x \in Changes, Edit(g, x)  PROVE NothingIsLost'
  BY <1>22, NothingIsLost_Edit
<1>23. ASSUME NEW g \in Guids, Commit(g)  PROVE NothingIsLost'
  BY <1>23, DoesCommit
<1>24. ASSUME NEW g \in Guids, Land(g)  PROVE NothingIsLost'
  BY <1>24, DoesLand
<1>25. ASSUME NEW x \in Changes, OperatorCommits(x)  PROVE NothingIsLost'
  BY <1>25, DoesOperatorCommit
<1>26. ASSUME NEW g \in Guids, DeleteDirectory(g)  PROVE NothingIsLost'
  BY <1>26, DoesDeleteDirectory
<1> QED  BY ONLY <1>1, <1>2, <1>3, <1>4, <1>5, <1>6, <1>7, <1>8, <1>9, <1>10, <1>11, <1>12,
    <1>13, <1>14, <1>15, <1>16, <1>17, <1>18, <1>19, <1>20, <1>21, <1>22, <1>23, <1>24, <1>25,
    <1>26, BaseInv, [Next]_vars, Steps
    DEF ActsOn, HappensTo

\* No step leaves work where there is no directory.
LEMMA GoneIsCleanKept ==
  ASSUME BaseInv, BaseInv', Slips = {}, LifeInv, WorkInv, [Next]_vars
  PROVE  GoneIsClean'
<1> USE CallIs, Alone
    DEF BaseInv, WellFormed, GoesOn, IsOver, OthersCall, AsItWas, StatusSet, Reowned, AnchorSet, RowKept,
        IsNew, RowsElsewhere, TreesElsewhere, BranchesElsewhere, RefsElsewhere, DirtSet, work,
        Claimed, Reapers, ReapsAt, EndsLive, TearsDown, IsLive, Terminal, HasNonCleaned,
        MayInsert, MayLiveAgain, MayMake, NoAnchor, RefAnchor, OrEmpty, IsSafe, WorkInv,
        GoneIsClean, IsClean, IsThere
<1>1. ASSUME Quiet  PROVE GoneIsClean'
  BY <1>1 DEF Quiet, Early
<1>2. ASSUME NEW c \in Callers, Insert(c)  PROVE GoneIsClean'
  BY <1>2, DoesInsert
<1>3. ASSUME NEW c \in Callers, AddWorktree(c)  PROVE GoneIsClean'
  BY <1>3, DoesAddWorktree
<1>4. ASSUME NEW c \in Callers, Materialize(c)  PROVE GoneIsClean'
  BY <1>4, DoesMaterialize
<1>5. ASSUME NEW c \in Callers, Activate(c)  PROVE GoneIsClean'
  BY <1>5, DoesActivate
<1>6. ASSUME NEW c \in Callers, BindOwner(c)  PROVE GoneIsClean'
  BY <1>6, DoesBindOwner
<1>7. ASSUME NEW c \in Callers, AbandonPlainly(c)  PROVE GoneIsClean'
  BY <1>7, DoesAbandonPlainly
<1>8. ASSUME NEW c \in Callers, DeleteReserved(c)  PROVE GoneIsClean'
  BY <1>8, DoesDeleteReserved
<1>9. ASSUME NEW c \in Callers, CheckRescue(c) \/ CheckReap(c) \/ CheckTerminal(c)
       PROVE  GoneIsClean'
  BY <1>9, DoesCheck
<1>10. ASSUME NEW c \in Callers, RescueCommit(c)  PROVE GoneIsClean'
  BY <1>10, DoesRescueCommit
<1>11. ASSUME NEW c \in Callers, RescueAnchor(c)  PROVE GoneIsClean'
  BY <1>11, DoesRescueAnchor
<1>12. ASSUME NEW c \in Callers, MarkAbandoned(c)  PROVE GoneIsClean'
  BY <1>12, DoesMarkAbandoned
<1>13. ASSUME NEW c \in Callers, LeaveWorktree(c)  PROVE GoneIsClean'
  BY <1>13, DoesLeaveWorktree
<1>14. ASSUME NEW c \in Callers, Prove(c)  PROVE GoneIsClean'
  BY <1>14, DoesProve
<1>15. ASSUME NEW c \in Callers, RemoveWorktree(c)  PROVE GoneIsClean'
  BY <1>15, DoesRemoveWorktree
<1>16. ASSUME NEW c \in Callers, DeleteOwnBranch(c) \/ DeleteOrphan(c)  PROVE GoneIsClean'
  BY <1>16, DoesDeleteBranch
<1>17. ASSUME NEW c \in Callers, MarkCleaned(c)  PROVE GoneIsClean'
  BY <1>17, DoesMarkCleaned
<1>18. ASSUME NEW c \in Callers, SweepReaps(c) \/ Drop(c) \/ Merge(c)  PROVE GoneIsClean'
  BY <1>18, DoesJudge
<1>19. ASSUME NEW c \in Callers, AdvanceTarget(c)  PROVE GoneIsClean'
  BY <1>19, DoesAdvanceTarget
<1>20. ASSUME NEW c \in Callers, NEW g \in Guids, NEW w \in Workers, ReserveWorker(c, g, w)
       PROVE  GoneIsClean'
  BY <1>20, DoesReserve
<1>21. ASSUME NEW g \in Guids, NEW s \in Sessions, TransferHandoff(g, s)  PROVE GoneIsClean'
  BY <1>21, DoesTransfer
<1>22. ASSUME NEW g \in Guids, NEW x \in Changes, Edit(g, x)  PROVE GoneIsClean'
  BY <1>22, DoesEdit
<1>23. ASSUME NEW g \in Guids, Commit(g)  PROVE GoneIsClean'
  BY <1>23, DoesCommit
<1>24. ASSUME NEW g \in Guids, Land(g)  PROVE GoneIsClean'
  BY <1>24, DoesLand
<1>25. ASSUME NEW x \in Changes, OperatorCommits(x)  PROVE GoneIsClean'
  BY <1>25, DoesOperatorCommit
<1>26. ASSUME NEW g \in Guids, DeleteDirectory(g)  PROVE GoneIsClean'
  BY <1>26, DoesDeleteDirectory
<1> QED  BY ONLY <1>1, <1>2, <1>3, <1>4, <1>5, <1>6, <1>7, <1>8, <1>9, <1>10, <1>11, <1>12,
    <1>13, <1>14, <1>15, <1>16, <1>17, <1>18, <1>19, <1>20, <1>21, <1>22, <1>23, <1>24, <1>25,
    <1>26, BaseInv, [Next]_vars, Steps
    DEF ActsOn, HappensTo

\* The branch of a rescue only grows.
LEMMA AnchorsHold_RescueCommit ==
  ASSUME BaseInv, BaseInv', Slips = {}, LifeInv, WorkInv,
         NEW c \in Callers, RescueCommit(c)
  PROVE AnchorsHold'
<1> DEFINE g == call[c].guid
<1>1. /\ g \in Guids /\ TreesElsewhere(g) /\ BranchesElsewhere(g) /\ UNCHANGED <<row, recovery, target, dropped>>
      /\ tree'[g] # None /\ branch[g] # None /\ branch'[g] # None /\ branch[g] \subseteq branch'[g]
  <2>1. branch'[g] = branch[g] \cup tree[g].dirt  BY DoesRescueCommit DEF BaseInv
  <2>2. branch[g] \subseteq branch'[g]  BY ONLY <2>1
  <2> QED  BY <2>2, DoesRescueCommit, CallIs DEF BaseInv, WellFormed, DirtSet, GoesOn
<1> QED
  BY <1>1 DEF WorkInv, AnchorsHold, TreesElsewhere, BranchesElsewhere, IsLive, Terminal, OrEmpty

\* A branch that is deleted under a live row was in the target, or is dropped.
LEMMA AnchorsHold_DeleteBranch ==
  ASSUME BaseInv, LifeInv, WorkInv, NEW c \in Callers, DeleteOwnBranch(c) \/ DeleteOrphan(c)
  PROVE  AnchorsHold'
<1> DEFINE g == call[c].guid
<1>1. /\ g \in Guids /\ BranchesElsewhere(g) /\ branch'[g] = None
      /\ dropped \subseteq dropped' /\ UNCHANGED <<row, recovery, target>>
  BY DoesDeleteBranch, CallIs DEF BaseInv, WellFormed
<1>2. IsLive(g) => OrEmpty(branch[g]) \subseteq target \cup dropped'
  <2>1. CASE call[c].op \in {"cleanup", "reap"}
    BY <2>1, DoesDeleteBranch
       DEF BaseInv, LifeInv, RowsAwaitCalls, Claimed, TearsDown, IsLive, Terminal
  <2>2. CASE call[c].op \in Reapers
    BY <2>2, DoesDeleteBranch DEF BaseInv, WorkInv, ReapsAreSafe, Reapers, ReapsAt
  <2> QED  BY <2>1, <2>2, DoesDeleteBranch DEF BaseInv
<1> QED
  BY <1>1, <1>2 DEF WorkInv, AnchorsHold, BranchesElsewhere, IsLive, Terminal, OrEmpty

\* No step moves an anchor away from what only it holds.
LEMMA AnchorsHoldKept ==
  ASSUME BaseInv, BaseInv', Slips = {}, LifeInv, WorkInv, [Next]_vars
  PROVE  AnchorsHold'
<1> USE CallIs, Alone
    DEF BaseInv, WellFormed, GoesOn, IsOver, OthersCall, AsItWas, StatusSet, Reowned, AnchorSet, RowKept,
        IsNew, RowsElsewhere, TreesElsewhere, BranchesElsewhere, RefsElsewhere, DirtSet, work,
        Claimed, Reapers, ReapsAt, EndsLive, TearsDown, IsLive, Terminal, HasNonCleaned,
        MayInsert, MayLiveAgain, MayMake, NoAnchor, RefAnchor, OrEmpty, IsSafe, LifeInv,
        RowsAwaitCalls, OrphansStayOrphans, WorkInv, GoneIsClean, AnchorsHold, EndingsAreSafe,
        EndsSafely, LiveRowsHaveTrees, HasTree
<1>1. ASSUME Quiet  PROVE AnchorsHold'
  BY <1>1 DEF Quiet, Early
<1>2. ASSUME NEW c \in Callers, Insert(c)  PROVE AnchorsHold'
  BY <1>2, DoesInsert
<1>3. ASSUME NEW c \in Callers, AddWorktree(c)  PROVE AnchorsHold'
  BY <1>3, DoesAddWorktree
<1>4. ASSUME NEW c \in Callers, Materialize(c)  PROVE AnchorsHold'
  BY <1>4, DoesMaterialize
<1>5. ASSUME NEW c \in Callers, Activate(c)  PROVE AnchorsHold'
  BY <1>5, DoesActivate
<1>6. ASSUME NEW c \in Callers, BindOwner(c)  PROVE AnchorsHold'
  BY <1>6, DoesBindOwner
<1>7. ASSUME NEW c \in Callers, AbandonPlainly(c)  PROVE AnchorsHold'
  BY <1>7, DoesAbandonPlainly
<1>8. ASSUME NEW c \in Callers, DeleteReserved(c)  PROVE AnchorsHold'
  BY <1>8, DoesDeleteReserved
<1>9. ASSUME NEW c \in Callers, CheckRescue(c) \/ CheckReap(c) \/ CheckTerminal(c)
       PROVE  AnchorsHold'
  BY <1>9, DoesCheck
<1>10. ASSUME NEW c \in Callers, RescueCommit(c)  PROVE AnchorsHold'
  BY <1>10, AnchorsHold_RescueCommit
<1>11. ASSUME NEW c \in Callers, RescueAnchor(c)  PROVE AnchorsHold'
  BY <1>11, DoesRescueAnchor
<1>12. ASSUME NEW c \in Callers, MarkAbandoned(c)  PROVE AnchorsHold'
  BY <1>12, DoesMarkAbandoned
<1>13. ASSUME NEW c \in Callers, LeaveWorktree(c)  PROVE AnchorsHold'
  BY <1>13, DoesLeaveWorktree
<1>14. ASSUME NEW c \in Callers, Prove(c)  PROVE AnchorsHold'
  BY <1>14, DoesProve
<1>15. ASSUME NEW c \in Callers, RemoveWorktree(c)  PROVE AnchorsHold'
  BY <1>15, DoesRemoveWorktree
<1>16. ASSUME NEW c \in Callers, DeleteOwnBranch(c) \/ DeleteOrphan(c)  PROVE AnchorsHold'
  BY <1>16, AnchorsHold_DeleteBranch
<1>17. ASSUME NEW c \in Callers, MarkCleaned(c)  PROVE AnchorsHold'
  BY <1>17, DoesMarkCleaned
<1>18. ASSUME NEW c \in Callers, SweepReaps(c) \/ Drop(c) \/ Merge(c)  PROVE AnchorsHold'
  BY <1>18, DoesJudge
<1>19. ASSUME NEW c \in Callers, AdvanceTarget(c)  PROVE AnchorsHold'
  BY <1>19, DoesAdvanceTarget
<1>20. ASSUME NEW c \in Callers, NEW g \in Guids, NEW w \in Workers, ReserveWorker(c, g, w)
       PROVE  AnchorsHold'
  BY <1>20, DoesReserve
<1>21. ASSUME NEW g \in Guids, NEW s \in Sessions, TransferHandoff(g, s)  PROVE AnchorsHold'
  BY <1>21, DoesTransfer
<1>22. ASSUME NEW g \in Guids, NEW x \in Changes, Edit(g, x)  PROVE AnchorsHold'
  BY <1>22, DoesEdit
<1>23. ASSUME NEW g \in Guids, Commit(g)  PROVE AnchorsHold'
  BY <1>23, DoesCommit
<1>24. ASSUME NEW g \in Guids, Land(g)  PROVE AnchorsHold'
  BY <1>24, DoesLand
<1>25. ASSUME NEW x \in Changes, OperatorCommits(x)  PROVE AnchorsHold'
  BY <1>25, DoesOperatorCommit
<1>26. ASSUME NEW g \in Guids, DeleteDirectory(g)  PROVE AnchorsHold'
  BY <1>26, DoesDeleteDirectory
<1> QED  BY ONLY <1>1, <1>2, <1>3, <1>4, <1>5, <1>6, <1>7, <1>8, <1>9, <1>10, <1>11, <1>12,
    <1>13, <1>14, <1>15, <1>16, <1>17, <1>18, <1>19, <1>20, <1>21, <1>22, <1>23, <1>24, <1>25,
    <1>26, BaseInv, [Next]_vars, Steps
    DEF ActsOn, HappensTo

\* What removes a worktree has seen to it, or its row rests on nothing.
LEMMA TornDownIsSafe_RemoveWorktree ==
  ASSUME BaseInv, LifeInv, WorkInv, NEW c \in Callers, RemoveWorktree(c)
  PROVE  TornDownIsSafe'
<1> DEFINE g == call[c].guid
<1>1. /\ g \in Guids /\ TreesElsewhere(g) /\ UNCHANGED <<row, branch, recovery, target>>
      /\ call[c] # None /\ call[c].at = "remove" /\ call[c].op \in Reapers \cup {"cleanup", "reap"}
      /\ ~call[c].present /\ ~call[c].force => tree'[g] = tree[g]
  BY DoesRemoveWorktree, CallIs DEF BaseInv, WellFormed, GoesOn
<1>2. ASSUME row[g] # None, tree'[g] = None,
             row[g].status = "integrated" \/ (row[g].status # "cleaned" /\ row[g].anchor # NoAnchor)
      PROVE  IsSafe(g) \/ (row[g].anchor.kind = "commit"
                             /\ OrEmpty(branch[g]) \subseteq target \cup row[g].anchor.is)
  <2>1. CASE call[c].op \in Reapers
    <3>1. row[g].status # "integrated"
      BY <1>1, <1>2, <2>1 DEF LifeInv, OrphansStayOrphans, ReapsAt
    <3> QED  BY <1>1, <1>2, <2>1, <3>1 DEF WorkInv, ReapedIsSafe, ReapsAt
  <2>2. CASE call[c].op \in {"cleanup", "reap"}
    <3>1. ~call[c].force /\ (IsSafe(g) \/ (tree[g] # None /\ ~call[c].present))
      BY <1>1, <2>2 DEF WorkInv, EndingsAreSafe, EndsSafely, Claimed
    <3> QED  BY <1>1, <1>2, <3>1
  <2> QED  BY <1>1, <2>1, <2>2
<1> QED  BY <1>1, <1>2 DEF WorkInv, TornDownIsSafe, TreesElsewhere, IsSafe, OrEmpty

\* No step takes what a row to be torn down rests on.
LEMMA TornDownIsSafeKept ==
  ASSUME BaseInv, BaseInv', Slips = {}, LifeInv, WorkInv, [Next]_vars
  PROVE  TornDownIsSafe'
<1> USE CallIs, Alone
    DEF BaseInv, WellFormed, GoesOn, IsOver, OthersCall, AsItWas, StatusSet, Reowned, AnchorSet, RowKept,
        IsNew, RowsElsewhere, TreesElsewhere, BranchesElsewhere, RefsElsewhere, DirtSet, work,
        Claimed, Reapers, ReapsAt, EndsLive, TearsDown, IsLive, Terminal, HasNonCleaned,
        MayInsert, MayLiveAgain, MayMake, NoAnchor, RefAnchor, OrEmpty, IsSafe, LifeInv,
        RowsAwaitCalls, OrphansStayOrphans, WorkInv, AnchorsHold, TornDownIsSafe,
        EndingsAreSafe, EndsSafely, LiveRowsHaveTrees, HasTree, IsThere, Anchored,
        AbandonIsProved, LandingIsProved, MayCommit, IsBeingRemoved
<1>1. ASSUME Quiet  PROVE TornDownIsSafe'
  BY <1>1 DEF Quiet, Early
<1>2. ASSUME NEW c \in Callers, Insert(c)  PROVE TornDownIsSafe'
  BY <1>2, DoesInsert
<1>3. ASSUME NEW c \in Callers, AddWorktree(c)  PROVE TornDownIsSafe'
  BY <1>3, DoesAddWorktree
<1>4. ASSUME NEW c \in Callers, Materialize(c)  PROVE TornDownIsSafe'
  BY <1>4, DoesMaterialize
<1>5. ASSUME NEW c \in Callers, Activate(c)  PROVE TornDownIsSafe'
  BY <1>5, DoesActivate
<1>6. ASSUME NEW c \in Callers, BindOwner(c)  PROVE TornDownIsSafe'
  BY <1>6, DoesBindOwner
<1>7. ASSUME NEW c \in Callers, AbandonPlainly(c)  PROVE TornDownIsSafe'
  BY <1>7, DoesAbandonPlainly
<1>8. ASSUME NEW c \in Callers, DeleteReserved(c)  PROVE TornDownIsSafe'
  BY <1>8, DoesDeleteReserved
<1>9. ASSUME NEW c \in Callers, CheckRescue(c) \/ CheckReap(c) \/ CheckTerminal(c)
       PROVE  TornDownIsSafe'
  BY <1>9, DoesCheck
<1>10. ASSUME NEW c \in Callers, RescueCommit(c)  PROVE TornDownIsSafe'
  BY <1>10, DoesRescueCommit
<1>11. ASSUME NEW c \in Callers, RescueAnchor(c)  PROVE TornDownIsSafe'
  BY <1>11, DoesRescueAnchor
<1>12. ASSUME NEW c \in Callers, MarkAbandoned(c)  PROVE TornDownIsSafe'
  BY <1>12, DoesMarkAbandoned
<1>13. ASSUME NEW c \in Callers, LeaveWorktree(c)  PROVE TornDownIsSafe'
  BY <1>13, DoesLeaveWorktree
<1>14. ASSUME NEW c \in Callers, Prove(c)  PROVE TornDownIsSafe'
  BY <1>14, DoesProve
<1>15. ASSUME NEW c \in Callers, RemoveWorktree(c)  PROVE TornDownIsSafe'
  BY <1>15, TornDownIsSafe_RemoveWorktree
<1>16. ASSUME NEW c \in Callers, DeleteOwnBranch(c) \/ DeleteOrphan(c)  PROVE TornDownIsSafe'
  BY <1>16, DoesDeleteBranch
<1>17. ASSUME NEW c \in Callers, MarkCleaned(c)  PROVE TornDownIsSafe'
  BY <1>17, DoesMarkCleaned
<1>18. ASSUME NEW c \in Callers, SweepReaps(c) \/ Drop(c) \/ Merge(c)  PROVE TornDownIsSafe'
  BY <1>18, DoesJudge
<1>19. ASSUME NEW c \in Callers, AdvanceTarget(c)  PROVE TornDownIsSafe'
  BY <1>19, DoesAdvanceTarget
<1>20. ASSUME NEW c \in Callers, NEW g \in Guids, NEW w \in Workers, ReserveWorker(c, g, w)
       PROVE  TornDownIsSafe'
  BY <1>20, DoesReserve
<1>21. ASSUME NEW g \in Guids, NEW s \in Sessions, TransferHandoff(g, s)  PROVE TornDownIsSafe'
  BY <1>21, DoesTransfer
<1>22. ASSUME NEW g \in Guids, NEW x \in Changes, Edit(g, x)  PROVE TornDownIsSafe'
  BY <1>22, DoesEdit
<1>23. ASSUME NEW g \in Guids, Commit(g)  PROVE TornDownIsSafe'
  BY <1>23, DoesCommit
<1>24. ASSUME NEW g \in Guids, Land(g)  PROVE TornDownIsSafe'
  BY <1>24, DoesLand
<1>25. ASSUME NEW x \in Changes, OperatorCommits(x)  PROVE TornDownIsSafe'
  BY <1>25, DoesOperatorCommit
<1>26. ASSUME NEW g \in Guids, DeleteDirectory(g)  PROVE TornDownIsSafe'
  BY <1>26, DoesDeleteDirectory
<1> QED  BY ONLY <1>1, <1>2, <1>3, <1>4, <1>5, <1>6, <1>7, <1>8, <1>9, <1>10, <1>11, <1>12,
    <1>13, <1>14, <1>15, <1>16, <1>17, <1>18, <1>19, <1>20, <1>21, <1>22, <1>23, <1>24, <1>25,
    <1>26, BaseInv, [Next]_vars, Steps
    DEF ActsOn, HappensTo

\* A rescue finds nothing to commit in a worktree that a reaper takes.
LEMMA RescueSparesReaped ==
  ASSUME BaseInv, Slips = {}, NEW c \in Callers, RescueCommit(c),
         NEW d \in Callers, call'[d] # None, call'[d].op \in Reapers, call'[d].at \in ReapsAt
  PROVE  call'[d] = call[d] /\ branch'[call[d].guid] = branch[call[d].guid]
<1> DEFINE g == call[c].guid
<1>1. /\ g \in Guids /\ BranchesElsewhere(g)
      /\ tree[g] # None /\ branch'[g] = branch[g] \cup tree[g].dirt
      /\ IsClean(g) \/ MayCommit(g)
      /\ call[c].op \in Claimed /\ call'[c].op = call[c].op
      /\ \A e \in Callers \ {c} : call'[e] = call[e]
  BY DoesRescueCommit, CallIs DEF BaseInv, WellFormed, GoesOn, OthersCall, DirtSet
<1>2. call'[d] = call[d] /\ call[d].guid \in Guids
  BY <1>1, CallIs DEF BaseInv, WellFormed, Reapers, Claimed
<1>3. CASE call[d].guid = g
  <2>1. IsBeingRemoved(g)
    BY <1>2, <1>3 DEF IsBeingRemoved, ReapsAt
  <2>2. tree[g].dirt = {}
    BY <1>1, <2>1 DEF MayCommit, IsClean
  <2> QED  BY <1>1, <1>2, <1>3, <2>2
<1> QED  BY <1>1, <1>2, <1>3 DEF BranchesElsewhere

\* So a rescue leaves the rows of such worktrees safe.
LEMMA ReapedIsSafe_RescueCommit ==
  ASSUME BaseInv, Slips = {}, WorkInv, NEW c \in Callers, RescueCommit(c)
  PROVE  ReapedIsSafe'
<1>1. UNCHANGED <<row, recovery, target>>
  BY DoesRescueCommit DEF BaseInv
<1> QED  BY <1>1, RescueSparesReaped DEF WorkInv, ReapedIsSafe, IsSafe, OrEmpty

\* No step endangers the branch of a row whose worktree a reaper takes.
LEMMA ReapedIsSafeKept ==
  ASSUME BaseInv, BaseInv', Slips = {}, LifeInv, WorkInv, [Next]_vars
  PROVE  ReapedIsSafe'
<1> USE CallIs, Alone
    DEF BaseInv, WellFormed, GoesOn, IsOver, OthersCall, AsItWas, StatusSet, Reowned, AnchorSet, RowKept,
        IsNew, RowsElsewhere, TreesElsewhere, BranchesElsewhere, RefsElsewhere, DirtSet, work,
        Claimed, Reapers, ReapsAt, EndsLive, TearsDown, IsLive, Terminal, HasNonCleaned,
        MayInsert, MayLiveAgain, MayMake, NoAnchor, RefAnchor, OrEmpty, IsSafe, LifeInv,
        RowsAwaitCalls, OrphansStayOrphans, WorkInv, AnchorsHold, ReapedIsSafe, ReapsAreSafe,
        EndingsAreSafe, EndsSafely, LiveRowsHaveTrees, HasTree, IsThere, Anchored,
        AbandonIsProved, LandingIsProved, MayCommit, IsBeingRemoved
<1>1. ASSUME Quiet  PROVE ReapedIsSafe'
  BY <1>1 DEF Quiet, Early
<1>2. ASSUME NEW c \in Callers, Insert(c)  PROVE ReapedIsSafe'
  BY <1>2, DoesInsert
<1>3. ASSUME NEW c \in Callers, AddWorktree(c)  PROVE ReapedIsSafe'
  BY <1>3, DoesAddWorktree
<1>4. ASSUME NEW c \in Callers, Materialize(c)  PROVE ReapedIsSafe'
  BY <1>4, DoesMaterialize
<1>5. ASSUME NEW c \in Callers, Activate(c)  PROVE ReapedIsSafe'
  BY <1>5, DoesActivate
<1>6. ASSUME NEW c \in Callers, BindOwner(c)  PROVE ReapedIsSafe'
  BY <1>6, DoesBindOwner
<1>7. ASSUME NEW c \in Callers, AbandonPlainly(c)  PROVE ReapedIsSafe'
  BY <1>7, DoesAbandonPlainly
<1>8. ASSUME NEW c \in Callers, DeleteReserved(c)  PROVE ReapedIsSafe'
  BY <1>8, DoesDeleteReserved
<1>9. ASSUME NEW c \in Callers, CheckRescue(c) \/ CheckReap(c) \/ CheckTerminal(c)
       PROVE  ReapedIsSafe'
  BY <1>9, DoesCheck
<1>10. ASSUME NEW c \in Callers, RescueCommit(c)  PROVE ReapedIsSafe'
  BY <1>10, ReapedIsSafe_RescueCommit
<1>11. ASSUME NEW c \in Callers, RescueAnchor(c)  PROVE ReapedIsSafe'
  BY <1>11, DoesRescueAnchor
<1>12. ASSUME NEW c \in Callers, MarkAbandoned(c)  PROVE ReapedIsSafe'
  BY <1>12, DoesMarkAbandoned
<1>13. ASSUME NEW c \in Callers, LeaveWorktree(c)  PROVE ReapedIsSafe'
  BY <1>13, DoesLeaveWorktree
<1>14. ASSUME NEW c \in Callers, Prove(c)  PROVE ReapedIsSafe'
  BY <1>14, DoesProve
<1>15. ASSUME NEW c \in Callers, RemoveWorktree(c)  PROVE ReapedIsSafe'
  BY <1>15, DoesRemoveWorktree
<1>16. ASSUME NEW c \in Callers, DeleteOwnBranch(c) \/ DeleteOrphan(c)  PROVE ReapedIsSafe'
  BY <1>16, DoesDeleteBranch
<1>17. ASSUME NEW c \in Callers, MarkCleaned(c)  PROVE ReapedIsSafe'
  BY <1>17, DoesMarkCleaned
<1>18. ASSUME NEW c \in Callers, SweepReaps(c) \/ Drop(c) \/ Merge(c)  PROVE ReapedIsSafe'
  BY <1>18, DoesJudge
<1>19. ASSUME NEW c \in Callers, AdvanceTarget(c)  PROVE ReapedIsSafe'
  BY <1>19, DoesAdvanceTarget
<1>20. ASSUME NEW c \in Callers, NEW g \in Guids, NEW w \in Workers, ReserveWorker(c, g, w)
       PROVE  ReapedIsSafe'
  BY <1>20, DoesReserve
<1>21. ASSUME NEW g \in Guids, NEW s \in Sessions, TransferHandoff(g, s)  PROVE ReapedIsSafe'
  BY <1>21, DoesTransfer
<1>22. ASSUME NEW g \in Guids, NEW x \in Changes, Edit(g, x)  PROVE ReapedIsSafe'
  BY <1>22, DoesEdit
<1>23. ASSUME NEW g \in Guids, Commit(g)  PROVE ReapedIsSafe'
  BY <1>23, DoesCommit
<1>24. ASSUME NEW g \in Guids, Land(g)  PROVE ReapedIsSafe'
  BY <1>24, DoesLand
<1>25. ASSUME NEW x \in Changes, OperatorCommits(x)  PROVE ReapedIsSafe'
  BY <1>25, DoesOperatorCommit
<1>26. ASSUME NEW g \in Guids, DeleteDirectory(g)  PROVE ReapedIsSafe'
  BY <1>26, DoesDeleteDirectory
<1> QED  BY ONLY <1>1, <1>2, <1>3, <1>4, <1>5, <1>6, <1>7, <1>8, <1>9, <1>10, <1>11, <1>12,
    <1>13, <1>14, <1>15, <1>16, <1>17, <1>18, <1>19, <1>20, <1>21, <1>22, <1>23, <1>24, <1>25,
    <1>26, BaseInv, [Next]_vars, Steps
    DEF ActsOn, HappensTo

\* A check has yet to remove anything.
LEMMA EndingsAreSafe_Check ==
  ASSUME BaseInv, BaseInv', Slips = {}, LifeInv, WorkInv,
         NEW c \in Callers, CheckRescue(c) \/ CheckReap(c) \/ CheckTerminal(c)
  PROVE  EndingsAreSafe'
<1> DEFINE g == call[c].guid
<1>1. /\ g \in Guids /\ UNCHANGED <<row, work>> /\ call[c].op \in Claimed
      /\ call'[c].force = call[c].force
      /\ call'[c].present = IsThere(g) /\ call'[c].at \in {"commit", "anchor", "abandon", "prove"}
      /\ \A d \in Callers \ {c} : call'[d] = call[d]
      /\ call'[c].guid = g /\ call'[c].op = call[c].op /\ call[c] # None
      /\ call'[c].at = "abandon" => ~IsThere(g)
  BY DoesCheck, CallIs DEF BaseInv, WellFormed, GoesOn, OthersCall
<1>2. ~call[c].force  BY ONLY <1>1, WorkInv, c \in Callers
    DEF WorkInv, EndingsAreSafe, EndsSafely
<1>3. IsSafe(g)' <=> IsSafe(g)  BY ONLY <1>1 DEF IsSafe, OrEmpty, work
<1> HIDE DEF g
<1>4. ASSUME NEW d \in Callers, call'[d] # None, call'[d].op \in Claimed
      PROVE  EndsSafely(d)'
  <2>1. CASE d = c  BY ONLY <1>1, <1>2, <2>1 DEF work, EndsSafely
  <2>2. CASE d # c  BY ONLY <1>1, <2>2, <1>4, WorkInv, d \in Callers
      DEF work, IsSafe, OrEmpty, EndingsAreSafe, EndsSafely, WorkInv
  <2> QED  BY ONLY <2>1, <2>2
<1> QED  BY ONLY <1>4 DEF EndingsAreSafe, EndsSafely, IsSafe, OrEmpty

\* What a tombstone proves makes its branch safe.
LEMMA EndingsAreSafe_Prove ==
  ASSUME BaseInv, BaseInv', Slips = {}, LifeInv, WorkInv,
         NEW c \in Callers, Prove(c)
  PROVE  EndingsAreSafe'
<1> DEFINE g == call[c].guid
<1>1. /\ g \in Guids /\ UNCHANGED <<branch, tree, target>> /\ call[c].op \in Claimed /\ call[c] # None
      /\ call'[c].force = call[c].force /\ call[c].guid = g
      /\ call'[c].present = IsThere(g) /\ call'[c].at = "remove"
      /\ \A d \in Callers \ {c} : call'[d] = call[d]
      /\ call'[c].guid = g /\ call'[c].op = call[c].op
      /\ RefsElsewhere(g) \/ recovery' = recovery
      /\ RowsElsewhere(g) \/ row' = row
  BY DoesProve, CallIs DEF BaseInv, WellFormed, GoesOn, OthersCall, AnchorSet, RowKept
<1>2. row[g] # None /\ row[g].status \in {"integrated", "abandoned"}
  BY <1>1, DoesProve DEF BaseInv, LifeInv, RowsAwaitCalls, TearsDown
<1>3. IsSafe(g)' \/ (tree[g] # None /\ ~IsThere(g))
  <2>1. CASE row[g].status = "abandoned" /\ row[g].anchor.kind = "commit"
    <3>1. recovery'[g] = row[g].anchor.is /\ recovery'[g] # None /\ recovery[g] = None
      BY <1>1, <1>2, <2>1, DoesProve DEF BaseInv, WorkInv, AnchorsHold
    <3>2. IsThere(g) => branch[g] \subseteq row[g].anchor.is
      BY <2>1, DoesProve DEF BaseInv, AbandonIsProved, Anchored
    <3>3. tree[g] = None => OrEmpty(branch[g]) \subseteq target \cup row[g].anchor.is
      BY <1>1, <1>2, <2>1, <3>1 DEF WorkInv, TornDownIsSafe, IsSafe, OrEmpty, NoAnchor
    <3> QED  BY <1>1, <3>1, <3>2, <3>3 DEF IsSafe, OrEmpty, IsThere
  <2>2. CASE row[g].status = "abandoned" /\ row[g].anchor.kind # "commit"
    <3>1. recovery'[g] = recovery[g] /\ row[g].anchor # NoAnchor /\ recovery[g] # None
      BY <2>2, DoesProve DEF BaseInv, AbandonIsProved, Anchored
    <3>2. IsThere(g) => branch[g] \subseteq recovery[g]
      BY <2>2, DoesProve DEF BaseInv, AbandonIsProved, Anchored
    <3>3. tree[g] = None => IsSafe(g)
      BY <1>1, <1>2, <2>2, <3>1 DEF WorkInv, TornDownIsSafe
    <3> QED  BY <1>1, <3>1, <3>2, <3>3 DEF IsSafe, OrEmpty, IsThere
  <2>3. CASE row[g].status = "integrated"
    <3>1. recovery' = recovery /\ row[g].landed \subseteq target
      BY <2>3, DoesProve DEF BaseInv, LandingIsProved
    <3>2. IsThere(g) => branch[g] \subseteq target
      BY <2>3, DoesProve DEF BaseInv, LandingIsProved
    <3>3. row[g].anchor.kind # "commit"
      BY ONLY <1>1, <1>2, <2>3, WorkInv DEF WorkInv, AnchorsHold
    <3>4. tree[g] = None => IsSafe(g)
      BY ONLY <1>1, <1>2, <2>3, <3>3, WorkInv DEF WorkInv, TornDownIsSafe
    <3> QED  BY <1>1, <3>1, <3>2, <3>4 DEF IsSafe, OrEmpty, IsThere
  <2> QED  BY <1>2, <2>1, <2>2, <2>3
<1>4. row'[g].status = "integrated" \/ row'[g].anchor # NoAnchor
  <2>1. CASE row[g].status = "abandoned"
    BY <2>1, DoesProve DEF BaseInv, AbandonIsProved, AnchorSet, RefAnchor, NoAnchor
  <2>2. CASE row[g].status # "abandoned"
    BY <1>2, <2>2, DoesProve DEF BaseInv
  <2> QED  BY <2>1, <2>2
<1>5. \A d \in Callers \ {c} : call[d] # None /\ call[d].op \in Claimed => call[d].guid # g
  BY <1>1, Alone DEF BaseInv, WellFormed
<1>6. \A d \in Callers : call[d] # None => call[d].guid \in Guids
  BY CallIs DEF BaseInv, WellFormed
<1> HIDE DEF g
<1>7. ASSUME NEW d \in Callers, call'[d] # None, call'[d].op \in Claimed
      PROVE  EndsSafely(d)'
  <2>1. CASE d = c
    <3>1. ~call[c].force  BY ONLY <1>1, WorkInv, c \in Callers
        DEF WorkInv, EndingsAreSafe, EndsSafely
    <3> QED  BY ONLY <1>1, <1>3, <1>4, <2>1, <3>1 DEF EndsSafely, IsSafe, OrEmpty, IsThere, g
  <2>2. CASE d # c
    <3>1. call'[d] = call[d] /\ call[d].guid # g /\ call[d].guid \in Guids
      BY ONLY <1>1, <1>5, <1>6, <1>7, <2>2, d \in Callers
    <3> QED  BY ONLY <1>1, <1>7, <3>1, WorkInv, d \in Callers
        DEF WorkInv, EndingsAreSafe, EndsSafely, IsSafe, OrEmpty, RefsElsewhere, RowsElsewhere
  <2> QED  BY ONLY <2>1, <2>2
<1> QED  BY ONLY <1>7 DEF EndingsAreSafe, EndsSafely, IsSafe, OrEmpty

\* A removed worktree was the own one, clean, of a safe branch.
LEMMA EndingsAreSafe_RemoveWorktree ==
  ASSUME BaseInv, BaseInv', Slips = {}, LifeInv, WorkInv,
         NEW c \in Callers, RemoveWorktree(c)
  PROVE  EndingsAreSafe'
<1> DEFINE g == call[c].guid
<1>1. /\ g \in Guids /\ TreesElsewhere(g) /\ UNCHANGED <<row, branch, recovery, target>>
      /\ call[c] # None /\ call[c].at = "remove" /\ call'[c].at = "delete" /\ ~call'[c].force
      /\ \A d \in Callers \ {c} : call'[d] = call[d]
      /\ call'[c].guid = g /\ call'[c].op = call[c].op
      /\ ~call[c].present /\ ~call[c].force => tree'[g] = tree[g]
      /\ ~call'[c].present
      /\ call[c].op \in Reapers \cup {"cleanup", "reap"}
  BY DoesRemoveWorktree, CallIs DEF BaseInv, WellFormed, GoesOn, OthersCall
<1>2. \A d \in Callers : call[d] # None => call[d].guid \in Guids
  BY CallIs DEF BaseInv, WellFormed
<1>3. \A d \in Callers \ {c} : call[d] # None /\ call[d].op \in Claimed /\ call[d].guid = g
        /\ call[d].at \in {"remove", "delete"} => IsSafe(g)
  <2>1. ASSUME NEW d \in Callers \ {c}, call[d] # None, call[d].op \in Claimed,
               call[d].guid = g, call[d].at \in {"remove", "delete"}
        PROVE  IsSafe(g)
    <3>1. call[c].op \notin Claimed
      BY ONLY <2>1, <1>1, Alone, BaseInv, c \in Callers DEF BaseInv, WellFormed
    <3>2. call[c].op \in Reapers
      BY ONLY <1>1, <3>1 DEF Claimed
    <3>3. row[g] # None /\ row[g].status \in {"integrated", "abandoned"}
      BY ONLY <2>1, LifeInv DEF LifeInv, RowsAwaitCalls, TearsDown
    <3>4. row[g].status = "abandoned"
      BY ONLY <1>1, <3>2, <3>3, LifeInv, c \in Callers DEF LifeInv, OrphansStayOrphans, ReapsAt
    <3>5. row[g].anchor # NoAnchor
      BY ONLY <2>1, <3>4, WorkInv DEF WorkInv, EndingsAreSafe, EndsSafely
    <3> QED
      BY ONLY <1>1, <3>2, <3>3, <3>4, <3>5, WorkInv, c \in Callers
         DEF WorkInv, ReapedIsSafe, ReapsAt
  <2> QED  BY ONLY <2>1
<1> HIDE DEF g
<1>4. ASSUME NEW d \in Callers, call'[d] # None, call'[d].op \in Claimed
      PROVE  EndsSafely(d)'
  <2>1. CASE d = c
    <3>1. /\ ~call[c].force /\ (IsSafe(g) \/ (tree[g] # None /\ ~call[c].present))
          /\ row[g].status = "integrated" \/ row[g].anchor # NoAnchor
      BY ONLY <1>1, <1>4, <2>1, WorkInv, c \in Callers
         DEF WorkInv, EndingsAreSafe, EndsSafely, g
    <3> QED  BY ONLY <1>1, <2>1, <3>1 DEF EndsSafely, IsSafe, OrEmpty
  <2>2. CASE d # c
    <3>1. call'[d] = call[d] /\ call[d].guid \in Guids
      BY ONLY <1>1, <1>2, <1>4, <2>2, d \in Callers
    <3>2. CASE call[d].guid = g
      BY ONLY <1>1, <1>3, <1>4, <2>2, <3>1, <3>2, WorkInv, d \in Callers
         DEF WorkInv, EndingsAreSafe, EndsSafely, IsSafe, OrEmpty
    <3>3. CASE call[d].guid # g
      BY ONLY <1>1, <1>4, <3>1, <3>3, WorkInv, d \in Callers
         DEF WorkInv, EndingsAreSafe, EndsSafely, IsSafe, OrEmpty, TreesElsewhere
    <3> QED  BY ONLY <3>2, <3>3
  <2> QED  BY ONLY <2>1, <2>2
<1> QED  BY ONLY <1>4 DEF EndingsAreSafe, EndsSafely, IsSafe, OrEmpty

\* No step of another endangers what a claimed call has made safe.
LEMMA EndingsAreSafeKept ==
  ASSUME BaseInv, BaseInv', Slips = {}, LifeInv, WorkInv, [Next]_vars
  PROVE  EndingsAreSafe'
<1> USE CallIs, Alone
    DEF BaseInv, WellFormed, GoesOn, IsOver, OthersCall, AsItWas, StatusSet, Reowned, AnchorSet, RowKept,
        IsNew, RowsElsewhere, TreesElsewhere, BranchesElsewhere, RefsElsewhere, DirtSet, work,
        Claimed, Reapers, ReapsAt, EndsLive, TearsDown, IsLive, Terminal, HasNonCleaned,
        MayInsert, MayLiveAgain, MayMake, NoAnchor, RefAnchor, OrEmpty, IsSafe, LifeInv,
        RowsAwaitCalls, OrphansStayOrphans, WorkInv, AnchorsHold, TornDownIsSafe,
        EndingsAreSafe, EndsSafely, LiveRowsHaveTrees, HasTree, IsThere, IsClean, Anchored,
        AbandonIsProved, LandingIsProved, MayCommit, IsBeingRemoved
<1>1. ASSUME Quiet  PROVE EndingsAreSafe'
  BY <1>1 DEF Quiet, Early
<1>2. ASSUME NEW c \in Callers, Insert(c)  PROVE EndingsAreSafe'
  BY <1>2, DoesInsert
<1>3. ASSUME NEW c \in Callers, AddWorktree(c)  PROVE EndingsAreSafe'
  BY <1>3, DoesAddWorktree
<1>4. ASSUME NEW c \in Callers, Materialize(c)  PROVE EndingsAreSafe'
  BY <1>4, DoesMaterialize
<1>5. ASSUME NEW c \in Callers, Activate(c)  PROVE EndingsAreSafe'
  BY <1>5, DoesActivate
<1>6. ASSUME NEW c \in Callers, BindOwner(c)  PROVE EndingsAreSafe'
  BY <1>6, DoesBindOwner
<1>7. ASSUME NEW c \in Callers, AbandonPlainly(c)  PROVE EndingsAreSafe'
  BY <1>7, DoesAbandonPlainly
<1>8. ASSUME NEW c \in Callers, DeleteReserved(c)  PROVE EndingsAreSafe'
  BY <1>8, DoesDeleteReserved
<1>9. ASSUME NEW c \in Callers, CheckRescue(c) \/ CheckReap(c) \/ CheckTerminal(c)
       PROVE  EndingsAreSafe'
  BY <1>9, EndingsAreSafe_Check
<1>10. ASSUME NEW c \in Callers, RescueCommit(c)  PROVE EndingsAreSafe'
  BY <1>10, DoesRescueCommit
<1>11. ASSUME NEW c \in Callers, RescueAnchor(c)  PROVE EndingsAreSafe'
  BY <1>11, DoesRescueAnchor
<1>12. ASSUME NEW c \in Callers, MarkAbandoned(c)  PROVE EndingsAreSafe'
  BY <1>12, DoesMarkAbandoned
<1>13. ASSUME NEW c \in Callers, LeaveWorktree(c)  PROVE EndingsAreSafe'
  BY <1>13, DoesLeaveWorktree
<1>14. ASSUME NEW c \in Callers, Prove(c)  PROVE EndingsAreSafe'
  BY <1>14, EndingsAreSafe_Prove
<1>15. ASSUME NEW c \in Callers, RemoveWorktree(c)  PROVE EndingsAreSafe'
  BY <1>15, EndingsAreSafe_RemoveWorktree
<1>16. ASSUME NEW c \in Callers, DeleteOwnBranch(c) \/ DeleteOrphan(c)  PROVE EndingsAreSafe'
  BY <1>16, DoesDeleteBranch
<1>17. ASSUME NEW c \in Callers, MarkCleaned(c)  PROVE EndingsAreSafe'
  BY <1>17, DoesMarkCleaned
<1>18. ASSUME NEW c \in Callers, SweepReaps(c) \/ Drop(c) \/ Merge(c)  PROVE EndingsAreSafe'
  BY <1>18, DoesJudge
<1>19. ASSUME NEW c \in Callers, AdvanceTarget(c)  PROVE EndingsAreSafe'
  BY <1>19, DoesAdvanceTarget
<1>20. ASSUME NEW c \in Callers, NEW g \in Guids, NEW w \in Workers, ReserveWorker(c, g, w)
       PROVE  EndingsAreSafe'
  BY <1>20, DoesReserve
<1>21. ASSUME NEW g \in Guids, NEW s \in Sessions, TransferHandoff(g, s)  PROVE EndingsAreSafe'
  BY <1>21, DoesTransfer
<1>22. ASSUME NEW g \in Guids, NEW x \in Changes, Edit(g, x)  PROVE EndingsAreSafe'
  BY <1>22, DoesEdit
<1>23. ASSUME NEW g \in Guids, Commit(g)  PROVE EndingsAreSafe'
  BY <1>23, DoesCommit
<1>24. ASSUME NEW g \in Guids, Land(g)  PROVE EndingsAreSafe'
  BY <1>24, DoesLand
<1>25. ASSUME NEW x \in Changes, OperatorCommits(x)  PROVE EndingsAreSafe'
  BY <1>25, DoesOperatorCommit
<1>26. ASSUME NEW g \in Guids, DeleteDirectory(g)  PROVE EndingsAreSafe'
  BY <1>26, DoesDeleteDirectory
<1> QED  BY ONLY <1>1, <1>2, <1>3, <1>4, <1>5, <1>6, <1>7, <1>8, <1>9, <1>10, <1>11, <1>12,
    <1>13, <1>14, <1>15, <1>16, <1>17, <1>18, <1>19, <1>20, <1>21, <1>22, <1>23, <1>24, <1>25,
    <1>26, BaseInv, [Next]_vars, Steps
    DEF ActsOn, HappensTo

\* What an answered merge has added is in the target when it removes.
LEMMA ReapsAreSafe_AdvanceTarget ==
  ASSUME BaseInv, WorkInv,
         NEW c \in Callers, AdvanceTarget(c)
  PROVE ReapsAreSafe'
<1>1. /\ call[c] # None /\ call'[c] # None /\ call[c].at = "advance" /\ call'[c].at = "remove"
      /\ call[c].op = "merge" /\ call'[c].op = "merge" /\ call'[c].guid = call[c].guid
      /\ call'[c].tip = call[c].tip /\ call'[c].force = call[c].force
      /\ call'[c].category = call[c].category
      /\ target' = target \cup call[c].tip
      /\ \A d \in Callers \ {c} : call'[d] = call[d]
      /\ UNCHANGED <<tree, branch>>
  BY DoesAdvanceTarget DEF GoesOn, OthersCall, AsItWas, BaseInv
<1>2. ASSUME NEW d \in Callers, call'[d] # None, call'[d].op \in Reapers
      PROVE  call[d] # None /\ call[d].op \in Reapers /\ call'[d].guid = call[d].guid
  BY ONLY <1>1, <1>2
<1> QED  BY ONLY <1>1, <1>2, WorkInv DEF WorkInv, ReapsAreSafe, Reapers, ReapsAt, OrEmpty

\* A rescue leaves what a reaper has judged as it was.
LEMMA ReapsAreSafe_RescueCommit ==
  ASSUME BaseInv, Slips = {}, WorkInv, NEW c \in Callers, RescueCommit(c)
  PROVE  ReapsAreSafe'
<1>1. /\ TreesElsewhere(call[c].guid) /\ tree[call[c].guid] # None /\ tree[call[c].guid].there
      /\ UNCHANGED target
  BY DoesRescueCommit DEF BaseInv, DirtSet
<1>2. \A d \in Callers : call[d] # None => call[d].guid \in Guids
  BY CallIs DEF BaseInv, WellFormed
<1> QED
  BY <1>1, <1>2, RescueSparesReaped DEF WorkInv, ReapsAreSafe, ReapsAt, OrEmpty, TreesElsewhere

\* No step of another endangers what a reaper has judged.
LEMMA ReapsAreSafeKept ==
  ASSUME BaseInv, BaseInv', Slips = {}, LifeInv, WorkInv, [Next]_vars
  PROVE  ReapsAreSafe'
<1> USE CallIs, Alone
    DEF BaseInv, WellFormed, GoesOn, IsOver, OthersCall, AsItWas, StatusSet, Reowned, AnchorSet, RowKept,
        IsNew, RowsElsewhere, TreesElsewhere, BranchesElsewhere, RefsElsewhere, DirtSet, work,
        Claimed, Reapers, ReapsAt, EndsLive, TearsDown, IsLive, Terminal, HasNonCleaned,
        MayInsert, MayLiveAgain, MayMake, NoAnchor, RefAnchor, OrEmpty, IsSafe, LifeInv,
        RowsAwaitCalls, OrphansStayOrphans, WorkInv, ReapsAreSafe, IsThere, IsClean,
        MayCommit, IsBeingRemoved
<1>1. ASSUME Quiet  PROVE ReapsAreSafe'
  BY <1>1 DEF Quiet, Early
<1>2. ASSUME NEW c \in Callers, Insert(c)  PROVE ReapsAreSafe'
  BY <1>2, DoesInsert
<1>3. ASSUME NEW c \in Callers, AddWorktree(c)  PROVE ReapsAreSafe'
  BY <1>3, DoesAddWorktree
<1>4. ASSUME NEW c \in Callers, Materialize(c)  PROVE ReapsAreSafe'
  BY <1>4, DoesMaterialize
<1>5. ASSUME NEW c \in Callers, Activate(c)  PROVE ReapsAreSafe'
  BY <1>5, DoesActivate
<1>6. ASSUME NEW c \in Callers, BindOwner(c)  PROVE ReapsAreSafe'
  BY <1>6, DoesBindOwner
<1>7. ASSUME NEW c \in Callers, AbandonPlainly(c)  PROVE ReapsAreSafe'
  BY <1>7, DoesAbandonPlainly
<1>8. ASSUME NEW c \in Callers, DeleteReserved(c)  PROVE ReapsAreSafe'
  BY <1>8, DoesDeleteReserved
<1>9. ASSUME NEW c \in Callers, CheckRescue(c) \/ CheckReap(c) \/ CheckTerminal(c)
       PROVE  ReapsAreSafe'
  BY <1>9, DoesCheck
<1>10. ASSUME NEW c \in Callers, RescueCommit(c)  PROVE ReapsAreSafe'
  BY <1>10, ReapsAreSafe_RescueCommit
<1>11. ASSUME NEW c \in Callers, RescueAnchor(c)  PROVE ReapsAreSafe'
  BY <1>11, DoesRescueAnchor
<1>12. ASSUME NEW c \in Callers, MarkAbandoned(c)  PROVE ReapsAreSafe'
  BY <1>12, DoesMarkAbandoned
<1>13. ASSUME NEW c \in Callers, LeaveWorktree(c)  PROVE ReapsAreSafe'
  BY <1>13, DoesLeaveWorktree
<1>14. ASSUME NEW c \in Callers, Prove(c)  PROVE ReapsAreSafe'
  BY <1>14, DoesProve
<1>15. ASSUME NEW c \in Callers, RemoveWorktree(c)  PROVE ReapsAreSafe'
  BY <1>15, DoesRemoveWorktree
<1>16. ASSUME NEW c \in Callers, DeleteOwnBranch(c) \/ DeleteOrphan(c)  PROVE ReapsAreSafe'
  BY <1>16, DoesDeleteBranch
<1>17. ASSUME NEW c \in Callers, MarkCleaned(c)  PROVE ReapsAreSafe'
  BY <1>17, DoesMarkCleaned
<1>18. ASSUME NEW c \in Callers, SweepReaps(c) \/ Drop(c) \/ Merge(c)  PROVE ReapsAreSafe'
  BY <1>18, DoesJudge
<1>19. ASSUME NEW c \in Callers, AdvanceTarget(c)  PROVE ReapsAreSafe'
  BY <1>19, ReapsAreSafe_AdvanceTarget
<1>20. ASSUME NEW c \in Callers, NEW g \in Guids, NEW w \in Workers, ReserveWorker(c, g, w)
       PROVE  ReapsAreSafe'
  BY <1>20, DoesReserve
<1>21. ASSUME NEW g \in Guids, NEW s \in Sessions, TransferHandoff(g, s)  PROVE ReapsAreSafe'
  BY <1>21, DoesTransfer
<1>22. ASSUME NEW g \in Guids, NEW x \in Changes, Edit(g, x)  PROVE ReapsAreSafe'
  BY <1>22, DoesEdit
<1>23. ASSUME NEW g \in Guids, Commit(g)  PROVE ReapsAreSafe'
  BY <1>23, DoesCommit
<1>24. ASSUME NEW g \in Guids, Land(g)  PROVE ReapsAreSafe'
  BY <1>24, DoesLand
<1>25. ASSUME NEW x \in Changes, OperatorCommits(x)  PROVE ReapsAreSafe'
  BY <1>25, DoesOperatorCommit
<1>26. ASSUME NEW g \in Guids, DeleteDirectory(g)  PROVE ReapsAreSafe'
  BY <1>26, DoesDeleteDirectory
<1> QED  BY ONLY <1>1, <1>2, <1>3, <1>4, <1>5, <1>6, <1>7, <1>8, <1>9, <1>10, <1>11, <1>12,
    <1>13, <1>14, <1>15, <1>16, <1>17, <1>18, <1>19, <1>20, <1>21, <1>22, <1>23, <1>24, <1>25,
    <1>26, BaseInv, [Next]_vars, Steps
    DEF ActsOn, HappensTo

(* --- The invariants ---------------------------------------------------- *)
LEMMA WorkKept ==
  ASSUME BaseInv, BaseInv', Slips = {}, LifeInv, WorkInv, [Next]_vars
  PROVE  WorkInv'
BY NothingIsLostKept, GoneIsCleanKept, AnchorsHoldKept, TornDownIsSafeKept,
   ReapedIsSafeKept, EndingsAreSafeKept, ReapsAreSafeKept DEF WorkInv

\* What a GUID may start with.
LEMMA StartIs ==
  ASSUME NEW x \in Starts
  PROVE  /\ x.row \in {None} \cup Rows /\ x.branch \in {None} \cup Commits
         /\ x.tree \in {None} \cup Trees
         /\ x.tree # None => x.branch # None /\ (~x.tree.there => x.tree.dirt = {})
         /\ x.row # None => /\ x.row.status = "abandoned" /\ x.tree = None
                            /\ x.row.anchor.kind = "commit" /\ x.branch = x.row.anchor.is
<1>1. CASE x = [row |-> None, branch |-> None, tree |-> None]
  BY <1>1
<1>2. CASE x \in OrphanStarts
  <2>1. PICK y \in Commits : x \in [row : {None}, branch : {y}, tree : OrphanTrees(y)]
    BY <1>2, Zenon DEF OrphanStarts
  <2>2. x.row = None /\ x.branch = y /\ x.tree \in OrphanTrees(y)
    BY <2>1
  <2> DEFINE lost == [there |-> FALSE, dirt |-> {}]
  <2>3. lost \in Trees /\ ~lost.there /\ lost.dirt = {}
    BY DEF Trees, Commits
  <2> HIDE DEF lost
  <2>4. CASE x.tree \in {None, lost}
    BY <2>2, <2>3, <2>4, NoneAssumption
  <2>5. CASE x.tree \in [there : {TRUE}, dirt : SUBSET (Changes \ y)]
    <3>1. x.tree \in Trees /\ x.tree.there
      BY <2>5 DEF Trees, Commits
    <3> QED  BY <2>2, <3>1, NoneAssumption
  <2> QED  BY <2>2, <2>4, <2>5 DEF OrphanTrees, lost
<1>3. CASE x \in OldStarts
  <2>1. PICK s \in Sessions, y \in Commits :
          x = [row |-> OldRow(s, y), branch |-> y, tree |-> None]
    BY <1>3 DEF OldStarts
  <2>2. /\ OldRow(s, y) \in Rows /\ OldRow(s, y).status = "abandoned"
        /\ OldRow(s, y).anchor = [kind |-> "commit", is |-> y]
    BY DEF OldRow, NewRow, Rows, Statuses, Anchors
  <2> QED  BY <2>1, <2>2
<1> QED  BY <1>1, <1>2, <1>3 DEF Starts

\* The invariants hold where a run starts.
LEMMA Initially ==
  ASSUME Init
  PROVE  BaseInv /\ LifeInv /\ WorkInv
<1>1. PICK starts \in [Guids -> Starts] :
        /\ row = [g \in Guids |-> starts[g].row]
        /\ branch = [g \in Guids |-> starts[g].branch]
        /\ tree = [g \in Guids |-> starts[g].tree]
  BY DEF Init
<1>2. \A g \in Guids :
        /\ row[g] \in {None} \cup Rows /\ branch[g] \in {None} \cup Commits
        /\ tree[g] \in {None} \cup Trees
        /\ tree[g] # None => branch[g] # None /\ (~tree[g].there => tree[g].dirt = {})
        /\ row[g] # None => /\ row[g].status = "abandoned" /\ tree[g] = None
                            /\ row[g].anchor.kind = "commit" /\ branch[g] = row[g].anchor.is
  BY <1>1, StartIs
<1> DEFINE IsAtStart ==
      /\ claim = [g \in Guids |-> None] /\ handoff = [g \in Guids |-> "none"]
      /\ surface = [g \in Guids |-> None] /\ recovery = [g \in Guids |-> None]
      /\ target = {} /\ young = {} /\ call = [c \in Callers |-> None]
      /\ dropped = {} /\ crashes = 0
<1>3. IsAtStart
  BY DEF Init
<1>4. made = UNION ({branch[g] : g \in {h \in Guids : branch[h] # None}}
                      \cup {tree[g].dirt : g \in {h \in Guids : tree[h] # None}})
  BY DEF Init
<1>5. made \in Commits
  <2>1. \A g \in Guids : tree[g] # None => tree[g].dirt \subseteq Changes
    BY <1>2 DEF Trees, Commits
  <2>2. \A g \in Guids : branch[g] # None => branch[g] \subseteq Changes
    BY <1>2 DEF Commits
  <2> QED  BY <1>4, <2>1, <2>2 DEF Commits
<1>6. CallsOK
  BY <1>3, WorkspaceAssumption DEF CallsOK, AnswersHaveTips, CallsHoldClaims
<1>7. StoreOK
  <2>1. /\ row \in [Guids -> {None} \cup Rows] /\ branch \in [Guids -> {None} \cup Commits]
        /\ tree \in [Guids -> {None} \cup Trees]
    BY <1>1, <1>2
  <2>2. crashes \in 0 .. MaxCrashes
    BY <1>3, WorkspaceAssumption
  <2>3. {} \in Commits
    BY DEF Commits
  <2> QED
    BY <1>2, <1>3, <1>5, <2>1, <2>2, <2>3
       DEF StoreOK, TreesHaveBranches, HandoffsHaveRows, Phases, Commits
<1>8. LifeInv
  BY <1>2, <1>3
     DEF LifeInv, RowsAwaitCalls, OrphansStayOrphans, LiveRowsHaveTrees, IsLive, Terminal
<1>9. NothingIsLost
  BY <1>4 DEF NothingIsLost, Held
<1>10. GoneIsClean /\ AnchorsHold /\ TornDownIsSafe
  BY <1>2, <1>3, NoneAssumption
     DEF GoneIsClean, AnchorsHold, TornDownIsSafe, IsLive, Terminal, OrEmpty
<1>11. ReapedIsSafe /\ EndingsAreSafe /\ ReapsAreSafe
  BY <1>3 DEF ReapedIsSafe, EndingsAreSafe, ReapsAreSafe
<1>12. BasesAreMerged
  BY <1>3 DEF BasesAreMerged
<1> QED  BY <1>6, <1>7, <1>8, <1>9, <1>10, <1>11, <1>12 DEF BaseInv, WellFormed, WorkInv

\* The state is well-formed in every run.
LEMMA BaseAlways == Spec => []BaseInv
BY Initially, BaseKept, PTL DEF Spec

\* Where no call comes late, a call finds its row as it left it.
LEMMA LifeAlways ==
  ASSUME "late-call" \notin Slips
  PROVE  Spec => [](BaseInv /\ LifeInv)
<1>1. BaseInv /\ LifeInv /\ [Next]_vars => (BaseInv /\ LifeInv)'
  BY BaseKept, LifeKept
<1> QED  BY Initially, <1>1, PTL DEF Spec

(* --- The theorems ------------------------------------------------------ *)
\* The state is well-formed, and a claim is held only for a call that runs.
THEOREM StateIsWellFormed == Spec => []TypeOK
<1>1. BaseInv => TypeOK
  BY DEF BaseInv, WellFormed, CallsOK, StoreOK, TypeOK
<1> QED  BY <1>1, BaseAlways, PTL

\* Where no call comes late, an active row has its worktree and its branch.
THEOREM ActiveRowsKeepTrees ==
  ASSUME "late-call" \notin Slips
  PROVE  Spec => []ActiveRowsHaveTrees
<1>1. BaseInv /\ LifeInv => ActiveRowsHaveTrees
  BY DEF LifeInv, LiveRowsHaveTrees, ActiveRowsHaveTrees, HasTree, IsLive, Terminal
<1> QED  BY <1>1, LifeAlways, PTL

\* There too a hand-off has its assignment to itself from grant to finish.
THEOREM HandoffsAreUndisturbed ==
  ASSUME "late-call" \notin Slips
  PROVE  Spec => []HandoffIsUndisturbed
<1>1. BaseInv /\ LifeInv => HandoffIsUndisturbed
  BY DEF BaseInv, WellFormed, StoreOK, HandoffsHaveRows, LifeInv, LiveRowsHaveTrees, HandoffIsUndisturbed,
         HasTree, IsLive, Terminal
<1> QED  BY <1>1, LifeAlways, PTL

\* Without slips no change is lost that nobody chose to drop.
THEOREM WorkIsKept ==
  ASSUME Slips = {}
  PROVE  Spec => []NothingIsLost
<1>1. "late-call" \notin Slips
  OBVIOUS
<1>2. BaseInv /\ LifeInv /\ WorkInv /\ [Next]_vars => WorkInv'
  BY BaseKept, WorkKept
<1>3. WorkInv => NothingIsLost
  BY DEF WorkInv
<1> QED  BY Initially, <1>1, <1>2, <1>3, LifeAlways, PTL DEF Spec

(* --- Owners ------------------------------------------------------------ *)
OwnerStays(g) == row[g] # None /\ row'[g] # None => row'[g].owner = row[g].owner

\* A step that sets the status, the anchor or the landing keeps the owner.
LEMMA FieldSets ==
  ASSUME BaseInv, NEW g \in Guids, row[g] # None, NEW to \in Statuses, NEW x \in Commits,
         \/ row' = [row EXCEPT ![g].status = to]
         \/ row' = [row EXCEPT ![g].anchor = RefAnchor]
         \/ row' = [row EXCEPT ![g].status = to, ![g].landed = x]
  PROVE  \A h \in Guids : OwnerStays(h)
<1>1. row \in [Guids -> {None} \cup Rows] /\ row[g] \in Rows
  BY DEF BaseInv, WellFormed, StoreOK
<1>2. ASSUME NEW r, r = [row[g] EXCEPT !.status = to]
             \/ r = [row[g] EXCEPT !.anchor = RefAnchor]
             \/ r = [row[g] EXCEPT !.status = to, !.landed = x],
             row' = [row EXCEPT ![g] = r]
      PROVE  \A h \in Guids : OwnerStays(h)
  <2>1. r.owner = row[g].owner
    BY <1>1, <1>2 DEF Rows
  <2> QED  BY <1>1, <1>2, <2>1 DEF OwnerStays
<1> QED  BY <1>1, <1>2

\* Only an insert over a tombstone and a transfer change a row's owner.
LEMMA OwnersKept ==
  ASSUME BaseInv, [Next]_vars, NEW g \in Guids, row[g] # None, row'[g] # None,
         row[g].owner # None, row'[g].owner # row[g].owner
  PROVE  \/ handoff[g] = "begun" /\ handoff'[g] = "transferred"
         \/ row[g].status = "cleaned" /\ row'[g].status = "reserved"
<1> DEFINE Goal == \/ handoff[g] = "begun" /\ handoff'[g] = "transferred"
                   \/ row[g].status = "cleaned" /\ row'[g].status = "reserved"
<1>1. row \in [Guids -> {None} \cup Rows]
  BY DEF BaseInv, WellFormed, StoreOK
<1>2. ~UNCHANGED row
  OBVIOUS
<1>3. ASSUME NEW h \in Guids, row[h] # None,
             \/ \E to \in Statuses : row' = [row EXCEPT ![h].status = to]
             \/ row' = [row EXCEPT ![h].anchor = RefAnchor]
             \/ \E to \in Statuses, x \in Commits :
                  row' = [row EXCEPT ![h].status = to, ![h].landed = x]
      PROVE  FALSE
  <2>1. ~\A k \in Guids : OwnerStays(k)
    BY DEF OwnerStays
  <2>2. {} \in Commits /\ "active" \in Statuses
    BY DEF Commits, Statuses
  <2>3. CASE \E to \in Statuses : row' = [row EXCEPT ![h].status = to]
    BY <1>3, <2>1, <2>2, <2>3, FieldSets
  <2>4. CASE row' = [row EXCEPT ![h].anchor = RefAnchor]
    BY <1>3, <2>1, <2>2, <2>4, FieldSets
  <2>5. CASE \E to \in Statuses, x \in Commits :
               row' = [row EXCEPT ![h].status = to, ![h].landed = x]
    BY <1>3, <2>1, <2>5, FieldSets
  <2> QED  BY <1>3, <2>3, <2>4, <2>5
<1>4. ASSUME NEW c \in Callers, NEW h \in Guids, NEW w \in Workers, ReserveWorker(c, h, w)
      PROVE  FALSE
  BY <1>1, <1>4 DEF ReserveWorker
<1>5. ASSUME NEW c \in Callers, Insert(c)  PROVE Goal
  <2>1. row' = [row EXCEPT ![call[c].guid] = NewRow(call[c].by, None)] /\ MayInsert(call[c].guid)
    BY <1>5 DEF Insert
  <2> QED  BY <1>1, <2>1 DEF MayInsert, NewRow
<1>6. ASSUME NEW c \in Callers, BindOwner(c)  PROVE FALSE
  BY <1>1, <1>6 DEF BindOwner, MayBind
<1>7. ASSUME NEW c \in Callers, DeleteReserved(c)  PROVE FALSE
  BY <1>1, <1>7 DEF DeleteReserved
<1>8. ASSUME NEW h \in Guids, NEW s \in Sessions, TransferHandoff(h, s)  PROVE Goal
  BY <1>1, <1>8 DEF TransferHandoff, SetPhase, BaseInv, WellFormed, StoreOK
<1>9. ASSUME NEW h \in Guids, Land(h)  PROVE FALSE
  <2>1. target \cup branch[h] \in Commits
    BY <1>9 DEF Land, BaseInv, WellFormed, StoreOK, Commits
  <2> QED  BY <1>3, <1>9, <2>1 DEF Land, Statuses
<1>10. ASSUME NEW c \in Callers, NEW from, NEW to \in Statuses, NEW h \in Guids,
              Transition(h, from, to)
       PROVE  FALSE
  BY <1>3, <1>10 DEF Transition
<1>11. \A c \in Callers : call[c] # None => call[c].guid \in Guids
  BY CallIs DEF BaseInv, WellFormed
<1>12. ASSUME NEW c \in Callers, ActsOn(c)  PROVE Goal
  <2>1. ~(RescueAnchor(c) \/ Prove(c))
    BY <1>2, <1>3, <1>11 DEF RescueAnchor, Prove, EnsureAnchor, IsAt
  <2>2. ~(Materialize(c) \/ Activate(c) \/ AbandonPlainly(c) \/ MarkAbandoned(c) \/ MarkCleaned(c))
    BY <1>10, <1>11
       DEF Materialize, Activate, AbandonPlainly, MarkAbandoned, MarkCleaned, IsAt, Statuses
  <2>3. ~(CheckRescue(c) \/ CheckReap(c) \/ CheckTerminal(c) \/ AddWorktree(c) \/ RescueCommit(c)
          \/ LeaveWorktree(c) \/ RemoveWorktree(c) \/ DeleteOwnBranch(c) \/ DeleteOrphan(c)
          \/ SweepReaps(c) \/ Drop(c) \/ Merge(c) \/ AdvanceTarget(c))
    BY <1>2, DoesCheck, DoesAddWorktree, DoesRescueCommit, DoesLeaveWorktree,
       DoesRemoveWorktree,
       DoesDeleteBranch, DoesJudge, DoesAdvanceTarget DEF BaseInv
  <2> QED  BY <1>4, <1>5, <1>6, <1>7, <1>12, <2>1, <2>2, <2>3 DEF ActsOn
<1>13. ASSUME NEW h \in Guids, HappensTo(h)  PROVE Goal
  BY <1>2, <1>8, <1>9, <1>13 DEF HappensTo, Edit, Commit, DeleteDirectory
<1>14. ~(\E x \in Changes : OperatorCommits(x)) /\ ~Quiet
  BY <1>2 DEF OperatorCommits, Quiet
<1> QED  BY <1>12, <1>13, <1>14, Steps DEF BaseInv

\* An owner keeps its row for its life, but for the transfer of a hand-off.
THEOREM OwnersKeepTheirRows == Spec => OneOwnerPerLife
<1>1. BaseInv /\ [Next]_vars =>
        [\A g \in Guids :
           row[g] # None /\ row'[g] # None /\ row[g].owner # None
             /\ row'[g].owner # row[g].owner =>
           \/ handoff[g] = "begun" /\ handoff'[g] = "transferred"
           \/ row[g].status = "cleaned" /\ row'[g].status = "reserved"]_vars
  BY OwnersKept
<1> QED  BY <1>1, BaseAlways, PTL DEF Spec, OneOwnerPerLife
==============================================================================
