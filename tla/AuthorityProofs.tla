-------------------------- MODULE AuthorityProofs --------------------------
(***************************************************************************)
(* For any sessions, assignments, branches, files, plans and numbers of    *)
(* commands and moves: what is done to git is what a human asked for, as   *)
(* they saw it, once, and by the owner; a prompt is not voided by what it  *)
(* does not depend on; and the primary checkout is not taken from a        *)
(* session that may have it.                                               *)
(*                                                                         *)
(* The inductive invariant has three parts.  The repository is well-formed *)
(* (RepoOK).  Every command keeps the key of what its human saw, every     *)
(* call stands on a command that is used up, and every deed stands on one  *)
(* too, of a kind its call cannot do again (IntentInv).  A claim excludes  *)
(* the other claims and the hand-offs, so that what a call has seen of its *)
(* row under the claim stays true (ClaimInv).                              *)
(***************************************************************************)
EXTENDS Authority, TLAPS

LOCAL INSTANCE SequencesExt

\* A commit has at least the root below it.
History == Commit \ {<< >>}
Modes == {"managed", "primary", "unassigned"}
Statuses == {"none", "active", "ready", "integrated", "abandoned", "cleaned"}
Steps == {"verified", "claimed", "checked", "committed", "landed", "sending"}

\* The evidence a key may hold, and what a human may see.
Keys ==
  [mode : Modes, branch : AllBranches, head : OrNone(History),
   tree : OrNone(SUBSET Files), remote : OrNone(History), status : OrNone(Statuses),
   scope : OrNone(Scopes)]

Sights ==
  [branch : OrNone(AllBranches), head : OrNone(History), staged : SUBSET Files,
   remote : [AllBranches -> OrNone(History)], scope : Scopes]

\* What the key of a command says of what was there when it was typed.
IsKeyOf(q) ==
  /\ q.key.branch = q.saw.branch /\ q.saw.branch # None
  /\ q.key.head = q.saw.head /\ q.saw.head \in History
  /\ q.key.mode = "unassigned" <=> q.where = Primary
  /\ q.key.tree = IF ~Commits(q.op) THEN None
                  ELSE IF q.where = Primary
                  THEN Scoped(q.saw.head, q.saw.staged, q.saw.scope)
                  ELSE q.saw.staged
  /\ q.key.remote = IF Pushes(q.op) THEN q.saw.remote[WantedBranch(q)] ELSE None
  /\ q.op \notin CheckoutOps => q.key.status = None
  /\ q.key.scope = IF Commits(q.op) /\ q.where = Primary THEN q.saw.scope ELSE None
  /\ q.where = Primary /\ Pushes(q.op) /\ q.key.remote # None =>
       IsAncestor(q.key.remote, q.key.head)

\* The key of a close-out is the branch alone.
IsCloseOutKey(q) ==
  q.key = [mode |-> "managed", branch |-> q.where, head |-> None, tree |-> None,
           remote |-> None, status |-> None, scope |-> None]

\* The commands and the calls there may be.
Asks ==
  {q \in [by : Sessions, op : Ops, where : Places, key : Keys, saw : Sights] :
     /\ q.where = Primary => q.op \in GitOps
     /\ IF q.op = "close-out" THEN IsCloseOutKey(q) ELSE IsKeyOf(q)}

Calls ==
  {c \in [at : Steps, id : Nat, op : Ops, where : Places, seen : Keys] :
     /\ c.seen.head \in History
     /\ c.where = Primary => c.op \in GitOps
     /\ Commits(c.op) => c.seen.tree \in SUBSET Files
     /\ c.at = "checked" => Commits(c.op) \/ c.op \in LandOps
     /\ c.at = "committed" => Commits(c.op)
     /\ c.at = "landed" => c.op = "commit-and-push"
     /\ c.at = "sending" => Pushes(c.op)
     /\ c.at = "verified" => c.op \notin CheckoutOps}

\* The deeds there may be.
Kinds == {"commit", "land", "push", "take", "return"}
Deeds ==
  [id : Nat, by : Sessions, where : Places, kind : Kinds, branch : OrNone(AllBranches),
   from : OrNone(History), to : OrNone(History)]

\* The repository, the rows, the ownership and the plans are well-formed.
RepoOK ==
  /\ refs \in [AllBranches -> History]
  /\ remote \in [AllBranches -> OrNone(History)]
  /\ on \in [Places -> OrNone(AllBranches)]
  /\ on[Primary] \in AllBranches /\ \A a \in Assignments : on[a] \in {None, a}
  /\ index \in [Places -> SUBSET Files]
  /\ row \in [Assignments -> Row]
  /\ owner \in OrNone([by : Sessions, of : Assignments, old : BOOLEAN])
  /\ scope \in [Sessions -> Scopes]

\* The commands, the calls and the deeds are.
IntentOK ==
  /\ asked \in Seq(Asks) /\ done \in Seq(Deeds)
  /\ call \in [Sessions -> OrNone(Calls)]
  /\ pending \subseteq DOMAIN asked

\* The commands that were matched, superseded or have expired.
Used == DOMAIN asked \ pending

\* A call stands on a used command of its session, with its key.
CallsAreAsked ==
  \A s \in Sessions : call[s] # None =>
    LET c == call[s]
        q == asked[c.id]
    IN /\ c.id \in Used
       /\ q.by = s /\ q.op = c.op /\ q.where = c.where
       /\ c.op # "close-out" => q.key = c.seen

\* So does a deed, and it is what the command asked for.
DeedsAreAsked ==
  \A n \in DOMAIN done : done[n].id \in Used /\ AsAsked(done[n], asked[done[n].id])

\* What a call may have done by the step it has reached.
DoneBefore(c) ==
  CASE c.at = "committed" -> {"commit"}
    [] c.at = "landed" \/ (c.at = "sending" /\ c.op # "push") -> {"commit", "land"}
    [] OTHER -> {}

\* No kind of deed is done twice, nor will be by a call under way.
EachKindOnce ==
  /\ OncePerPrompt
  /\ \A s \in Sessions, n \in DOMAIN done :
       call[s] # None /\ done[n].id = call[s].id => done[n].kind \in DoneBefore(call[s])

\* A claim excludes the other claims and the hand-offs.
ClaimExcludes ==
  \A s \in Sessions, a \in Assignments : HoldsClaim(s, a) =>
    /\ ~row[a].held
    /\ \A t \in Sessions : HoldsClaim(t, a) => t = s

\* The calls that have looked at the row under their claim.
Checked(s) ==
  /\ call[s] # None /\ Assigned(s)
  /\ \/ call[s].at \in {"checked", "committed", "landed", "sending"}
     \/ call[s].op \in CheckoutOps

\* Such a call is the owner's, and the row still there.
CheckedOwner ==
  \A s \in Sessions : Checked(s) =>
    RowOf(s).by = s /\ RowOf(s).status \notin {"none", "cleaned"}

\* A row that is fresh or cleaned has no worktree.
CleanedIsAway ==
  \A a \in Assignments : row[a].status \in {"none", "cleaned"} => on[a] = None

ClaimInv == ClaimExcludes /\ CheckedOwner /\ CleanedIsAway

-----------------------------------------------------------------------------
\* A tree of a commit, and what is made of trees, is a set of files.
LEMMA Trees ==
  ASSUME NEW c \in History
  PROVE  /\ TreeOf(c) \in SUBSET Files
         /\ \A t \in SUBSET Files : Append(c, t) \in History /\ IsAncestor(c, Append(c, t))
         /\ IsAncestor(c, c)
<1>1. Len(c) \in Nat /\ Len(c) # 0 /\ c \in Seq(SUBSET Files)
  BY DEF History, Commit
<1>2. TreeOf(c) \in SUBSET Files
  BY <1>1 DEF TreeOf, Last
<1>3. ASSUME NEW t \in SUBSET Files
      PROVE  Append(c, t) \in History /\ IsAncestor(c, Append(c, t))
  <2>1. Append(c, t) \in Seq(SUBSET Files) /\ Len(Append(c, t)) = Len(c) + 1
    BY <1>1
  <2>2. Append(c, t) # << >>
    BY <1>1, <2>1
  <2>3. SubSeq(Append(c, t), 1, Len(c)) = SubSeq(c, 1, Len(c))
    <3>1. \A i \in 1 .. Len(c) : Append(c, t)[i] = c[i]
      BY <1>1
    <3> QED  BY <1>1, <2>1, <3>1
  <2> QED  BY <1>1, <2>1, <2>2, <2>3 DEF History, Commit, IsAncestor, IsPrefix
<1>4. IsAncestor(c, c)
  BY <1>1 DEF IsAncestor, IsPrefix
<1> QED  BY <1>2, <1>3, <1>4

\* What two trees differ in is a set of files.
LEMMA Differences ==
  ASSUME NEW t \in SUBSET Files, NEW u \in SUBSET Files
  PROVE  Difference(t, u) \in SUBSET Files
BY DEF Difference

\* What a call may make is a commit.
LEMMA MadeIsCommit ==
  ASSUME IntentOK, NEW s \in Sessions, call[s] # None
  PROVE  /\ call[s] \in Calls /\ Made(s) \in History
         /\ call[s].seen.head \in History /\ call[s].seen.branch \in AllBranches
<1>1. call[s] \in Calls
  BY DEF IntentOK, OrNone
<1>2. call[s].seen.head \in History /\ call[s].seen.branch \in AllBranches
  BY <1>1 DEF Calls, Keys
<1>3. Commits(call[s].op) => call[s].seen.tree \in SUBSET Files
  BY <1>1 DEF Calls
<1> QED  BY <1>1, <1>2, <1>3, Trees DEF Made

-----------------------------------------------------------------------------
(***************************************************************************)
(* The repository and the rows.                                            *)
(***************************************************************************)
LEMMA StatusOfRow ==
  ASSUME RepoOK, IntentOK, NEW s \in Sessions, call[s] # None, Assigned(s),
         NEW status \in Statuses, SetStatus(s, status)
  PROVE  /\ row' \in [Assignments -> Row]
         /\ \A a \in Assignments : row'[a].by = row[a].by /\ row'[a].held = row[a].held
         /\ \A a \in Assignments : row'[a].status = IF a = call[s].where THEN status
                                                    ELSE row[a].status
<1>1. call[s].where \in Assignments
  BY MadeIsCommit DEF Assigned, Calls, Places
<1> QED  BY <1>1 DEF RepoOK, Row, SetStatus, Statuses

\* What a deed does to the repository.
LEMMA DeedKeepsRepo ==
  ASSUME RepoOK, IntentOK, NEW s \in Sessions,
         CreateCommit(s) \/ Land(s) \/ Send(s) \/ TakePrimary(s) \/ ReturnPrimary(s)
  PROVE  RepoOK'
<1>0. call[s] # None
  BY DEF CreateCommit, Land, Send, TakePrimary, ReturnPrimary, At
<1>1. /\ call[s] \in Calls /\ Made(s) \in History
      /\ call[s].seen.head \in History /\ call[s].seen.branch \in AllBranches
  BY <1>0, MadeIsCommit
<1>2. CASE CreateCommit(s)
  BY <1>1, <1>2 DEF CreateCommit, RepoOK
<1>3. CASE Land(s)
  <2>1. Assigned(s) /\ Target \in AllBranches /\ Primary \in Places
    BY <1>3, AuthorityAssumption DEF Land, MayLand, AllBranches, Places
  <2>2. refs' \in [AllBranches -> History]
    BY <1>1, <1>3 DEF Land, RepoOK
  <2>3. index' \in [Places -> SUBSET Files]
    <3>1. Carried(Primary, refs[Target], Made(s)) \in SUBSET Files
      BY <1>1, <2>1, Trees, Differences DEF Carried, RepoOK
    <3> QED  BY <1>3, <2>1, <3>1 DEF Land, RepoOK
  <2>4. row' \in [Assignments -> Row]
    BY <1>0, <1>3, <2>1, StatusOfRow DEF Land, Cleaned, Statuses
  <2>5. /\ on' \in [Places -> OrNone(AllBranches)]
        /\ on'[Primary] \in AllBranches /\ \A a \in Assignments : on'[a] \in {None, a}
    <3>1. CASE on' = on
      BY <3>1 DEF RepoOK
    <3>2. CASE on' = [on EXCEPT ![call[s].where] = None]
      <4>1. call[s].where \in Assignments
        BY <1>1, <2>1 DEF Assigned, Calls, Places
      <4> QED  BY <3>2, <4>1, AuthorityAssumption DEF RepoOK, OrNone, Places
    <3> QED  BY <1>3, <3>1, <3>2 DEF Land, Cleaned
  <2> QED  BY <1>3, <2>2, <2>3, <2>4, <2>5 DEF Land, RepoOK
<1>4. CASE Send(s)
  <2>1. PushTo(s) \in AllBranches
    BY <1>1, AuthorityAssumption DEF PushTo, Destination, AllBranches
  <2>2. remote' \in [AllBranches -> OrNone(History)]
    BY <1>1, <1>4, <2>1 DEF Send, RepoOK, OrNone
  <2>3. row' \in [Assignments -> Row]
    BY <1>0, <1>4, StatusOfRow DEF Send, Statuses, RepoOK
  <2> QED  BY <1>4, <2>2, <2>3 DEF Send, RepoOK
<1>5. CASE TakePrimary(s)
  <2>1. call[s].where \in Assignments
    BY <1>1, <1>5 DEF TakePrimary, Calls, Places, GitOps
  <2>2. owner' \in OrNone([by : Sessions, of : Assignments, old : BOOLEAN])
    BY <1>5, <2>1 DEF TakePrimary, RepoOK, OrNone
  <2> QED  BY <1>5, <2>2 DEF TakePrimary, RepoOK, repo
<1>6. CASE ReturnPrimary(s)
  BY <1>6 DEF ReturnPrimary, RepoOK, repo, OrNone
<1> QED  BY <1>2, <1>3, <1>4, <1>5, <1>6

\* The steps between the deeds.
LEMMA CallKeepsRepo ==
  ASSUME RepoOK, IntentOK, NEW s \in Sessions, Call(s) \/ Human(s)
  PROVE  RepoOK'
<1>1. ASSUME UNCHANGED <<repo, row, scope>>,
             owner' \in {owner, None}
      PROVE  RepoOK'
  BY <1>1 DEF RepoOK, repo, OrNone
<1>2. \A op : OwnerAfterLook(op) \in {owner, None}
  BY DEF OwnerAfterLook, Reaped
<1>3. ASSUME NEW op \in Ops, NEW w \in Places, Prompt(s, op, w) \/ Verify(s, op, w)
      PROVE  RepoOK'
  BY <1>1, <1>2, <1>3 DEF Prompt, Verify
<1>4. CASE Claim(s) \/ Stop(s) \/ CheckLaneCommit(s) \/ CheckCommit(s) \/ CheckLand(s) \/ CheckPush(s)
  BY <1>1, <1>4 DEF Claim, Stop, CheckLaneCommit, CheckCommit, CheckLand, CheckPush
<1>5. CASE PutOff(s) \/ CloseOutLanded(s)
  <2>1. call[s] # None /\ Assigned(s)
    BY <1>5, MadeIsCommit DEF PutOff, MayLand, CloseOutLanded, At, Assigned, Calls, GitOps
  <2>2. call[s].where \in Assignments
    BY <2>1, MadeIsCommit DEF Assigned, Calls, Places
  <2>3. row' \in [Assignments -> Row]
    BY <1>5, <2>1, StatusOfRow DEF PutOff, CloseOutLanded, Cleaned, Statuses
  <2>4. /\ on' \in [Places -> OrNone(AllBranches)]
        /\ on'[Primary] \in AllBranches /\ \A a \in Assignments : on'[a] \in {None, a}
    <3>1. PICK b \in {None, call[s].where} : on' = [on EXCEPT ![call[s].where] = b]
      BY <1>5 DEF PutOff, CloseOutLanded, Cleaned
    <3> QED  BY <2>2, <3>1, AuthorityAssumption DEF RepoOK, OrNone, Places, AllBranches
  <2> QED  BY <1>5, <2>3, <2>4 DEF PutOff, CloseOutLanded, RepoOK
<1> QED  BY <1>3, <1>4, <1>5, DeedKeepsRepo DEF Call, Human

\* What everything else does to it.
LEMMA OthersKeepRepo ==
  ASSUME RepoOK, Environment
  PROVE  RepoOK'
<1>0. Target \in AllBranches /\ Primary \in Places /\ Assignments \subseteq Places \cap AllBranches
      /\ Branches \subseteq AllBranches /\ Scopes \subseteq SUBSET Files
  BY AuthorityAssumption DEF AllBranches, Places
<1>1. ASSUME NEW place \in Places, on[place] # None
      PROVE  on[place] \in AllBranches /\ Tip(place) \in History
  BY <1>1 DEF RepoOK, OrNone, Tip
<1>2. ASSUME NEW place \in Places, NEW file \in Files, Stage(place, file)
      PROVE  RepoOK'
  <2>1. index' \in [Places -> SUBSET Files]
    BY <1>2, Differences DEF Stage, RepoOK
  <2> QED  BY <1>2, <2>1 DEF Stage, RepoOK
<1>3. ASSUME NEW place \in Places, PlainCommit(place)  PROVE RepoOK'
  <2>1. Append(refs[on[place]], index[place]) \in History /\ on[place] \in AllBranches
    BY <1>1, <1>3, Trees DEF PlainCommit, RepoOK
  <2> QED  BY <1>3, <2>1 DEF PlainCommit, RepoOK
<1>4. ASSUME NEW branch \in Branches, Switch(branch)  PROVE RepoOK'
  <2>1. Carried(Primary, Tip(Primary), refs[branch]) \in SUBSET Files
    BY <1>0, Trees, Differences DEF Carried, RepoOK, Tip
  <2> QED  BY <1>0, <1>4, <2>1, AuthorityAssumption DEF Switch, RepoOK, OrNone, Places
<1>5. ASSUME NEW branch \in AllBranches, NEW file \in Files, RemotePush(branch, file)
      PROVE  RepoOK'
  <2>1. remote[branch] \in History /\ {file} \in SUBSET Files
    BY <1>5 DEF RemotePush, RepoOK, OrNone
  <2>2. Append(remote[branch], Difference(TreeOf(remote[branch]), {file})) \in History
    BY <2>1, Trees, Differences
  <2> QED  BY <1>5, <2>2 DEF RemotePush, RepoOK, OrNone
<1>6. ASSUME NEW s \in Sessions, NEW files \in Scopes, Replan(s, files)  PROVE RepoOK'
  BY <1>6 DEF Replan, RepoOK, repo
<1>7. ASSUME NEW a \in Assignments, NEW s \in Sessions, Reserve(a, s)  PROVE RepoOK'
  <2>1. ActiveRow(s) \in Row
    BY DEF ActiveRow, NoRow, Row, OrNone
  <2>2. Tip(Primary) \in History /\ TreeOf(Tip(Primary)) \in SUBSET Files
    BY <1>0, Trees DEF RepoOK, Tip
  <2> QED  BY <1>0, <1>7, <2>1, <2>2, AuthorityAssumption DEF Reserve, RepoOK, OrNone
<1>8. ASSUME NEW a \in Assignments, NEW s \in Sessions, Transfer(a, s)  PROVE RepoOK'
  <2>1. [row[a] EXCEPT !.by = s, !.held = FALSE] \in Row
    <3>1. row[a] \in Row
      BY DEF RepoOK
    <3> QED  BY <3>1 DEF Row, OrNone
  <2>2. row' = [row EXCEPT ![a] = [row[a] EXCEPT !.by = s, !.held = FALSE]]
    BY <1>8 DEF Transfer
  <2>3. row' \in [Assignments -> Row]
    BY <2>1, <2>2 DEF RepoOK
  <2> QED  BY <1>8, <2>3 DEF Transfer, RepoOK, repo
<1>9. ASSUME NEW a \in Assignments, Abandon(a)  PROVE RepoOK'
  <2>1. Append(refs[a], index[a]) \in History
    BY <1>0, Trees DEF RepoOK
  <2>2. /\ refs' \in [AllBranches -> History] /\ on' \in [Places -> OrNone(AllBranches)]
        /\ on'[Primary] = on[Primary] /\ \A b \in Assignments : on'[b] \in {None, b}
    <3>1. CASE Rescue(a)
      <4>1. refs' = refs \/ refs' = [refs EXCEPT ![a] = Append(refs[a], index[a])]
        BY <3>1 DEF Rescue
      <4>2. on' = [on EXCEPT ![a] = None]
        BY <3>1 DEF Rescue
      <4>3. a \in AllBranches /\ a # Primary /\ a \in Places
        BY <1>0, AuthorityAssumption
      <4>4. refs' \in [AllBranches -> History]
        <5>1. CASE refs' = refs
          BY <5>1 DEF RepoOK
        <5>2. CASE refs' = [refs EXCEPT ![a] = Append(refs[a], index[a])]
          BY <2>1, <4>3, <5>2 DEF RepoOK
        <5> QED  BY <4>1, <5>1, <5>2
      <4>5. /\ on' \in [Places -> OrNone(AllBranches)] /\ on'[Primary] = on[Primary]
            /\ \A b \in Assignments : on'[b] \in {None, b}
        BY <1>0, <4>2, <4>3 DEF RepoOK, OrNone
      <4> QED  BY <4>4, <4>5
    <3>2. CASE UNCHANGED <<refs, on>>
      BY <3>2 DEF RepoOK
    <3> QED  BY <1>9, <3>1, <3>2 DEF Abandon
  <2> QED  BY <1>0, <1>9, <2>2, AuthorityAssumption DEF Abandon, RepoOK, Row, OrNone
<1>10. ASSUME NEW a \in Assignments, Resolve(a)  PROVE RepoOK'
  <2> DEFINE commit == Append(refs[Target], TreeOf(refs[a]))
  <2>1. commit \in History
    BY <1>0, Trees DEF RepoOK
  <2>2. TreeOf(commit) \in SUBSET Files
    BY <2>1, Trees
  <2>3. PICK candidate \in {None, commit} : row' = [row EXCEPT ![a].candidate = candidate]
    BY <1>10 DEF Resolve
  <2>4. candidate \in OrNone(Commit)
    BY <2>1, <2>3 DEF OrNone, History
  <2>5. row' \in [Assignments -> Row]
    BY <2>3, <2>4 DEF RepoOK, Row
  <2>6. /\ refs' = [refs EXCEPT ![a] = commit]
        /\ on' = [on EXCEPT ![a] = a]
        /\ index' = [index EXCEPT ![a] = TreeOf(commit)]
        /\ UNCHANGED <<remote, owner, scope>>
    BY <1>10 DEF Resolve
  <2> HIDE DEF commit
  <2> QED  BY <1>0, <2>1, <2>2, <2>5, <2>6, AuthorityAssumption DEF RepoOK, OrNone
<1>11. ASSUME NEW a \in Assignments, Hold(a) \/ Release(a)  PROVE RepoOK'
  <2>1. PICK held \in BOOLEAN : row' = [row EXCEPT ![a].held = held]
    BY <1>11 DEF Hold, Release
  <2>2. row' \in [Assignments -> Row]
    BY <2>1 DEF RepoOK, Row
  <2> QED  BY <1>11, <2>2 DEF Hold, Release, RepoOK, repo
<1>12. CASE GrowOld
  BY <1>12 DEF GrowOld, RepoOK, repo, OrNone
<1> QED
  BY <1>2, <1>3, <1>4, <1>5, <1>6, <1>7, <1>8, <1>9, <1>10, <1>11, <1>12 DEF Environment

\* A repository of roots, with the rows the model starts from.
LEMMA RepoInit == Init => RepoOK
<1> SUFFICES ASSUME Init PROVE RepoOK
  OBVIOUS
<1>1. Root \in History
  BY DEF Root, History, Commit
<1>2. Target \in AllBranches /\ Primary \in Places /\ Primary \notin Assignments
  BY AuthorityAssumption DEF AllBranches, Places
<1>3. NoRow \in Row /\ \A s \in Sessions : ActiveRow(s) \in Row
  BY DEF NoRow, ActiveRow, Row, OrNone
<1>4. row \in [Assignments -> Row]
  BY <1>3 DEF Init
<1>5. /\ on \in [Places -> OrNone(AllBranches)] /\ on[Primary] = Target
      /\ \A a \in Assignments : on[a] \in {None, a}
  BY <1>2 DEF Init, OrNone, Places, AllBranches
<1> QED  BY <1>1, <1>2, <1>4, <1>5 DEF Init, RepoOK, OrNone

\* No step breaks the repository or the rows.
LEMMA RepoStep == RepoOK /\ IntentOK /\ [Next]_vars => RepoOK'
<1> SUFFICES ASSUME RepoOK, IntentOK, [Next]_vars PROVE RepoOK'
  OBVIOUS
<1>1. CASE \E s \in Sessions : Human(s) \/ Call(s)
  BY <1>1, CallKeepsRepo
<1>2. CASE \E i \in pending : Expire(i)
  BY <1>2 DEF Expire, RepoOK, repo
<1>3. CASE Environment
  BY <1>3, OthersKeepRepo
<1>4. CASE UNCHANGED vars
  BY <1>4 DEF vars, RepoOK, repo
<1> QED  BY <1>1, <1>2, <1>3, <1>4 DEF Next

-----------------------------------------------------------------------------
(***************************************************************************)
(* What is observed.                                                       *)
(***************************************************************************)
LEMMA Observed ==
  ASSUME RepoOK, NEW s \in Sessions, NEW op \in Ops, NEW w \in Places, MayObserve(s, op, w)
  PROVE  LET path == Workplace(s, op, w)
             k == Seen(s, op, w)
             destination == IF op = "commit-and-push" /\ w # Primary THEN Target ELSE on[path]
         IN /\ path \in Places /\ on[path] \in AllBranches /\ Tip(path) \in History
            /\ w = Primary => op \in GitOps
            /\ k \in Keys /\ k.branch = on[path] /\ k.head = Tip(path)
            /\ k.mode = ModeSeen(s, op, w) /\ (k.mode = "unassigned" <=> w = Primary)
            /\ k.tree = IF ~Commits(op) THEN None
                        ELSE IF w = Primary THEN Scoped(Tip(path), index[path], scope[s])
                        ELSE index[path]
            /\ Commits(op) => k.tree \in SUBSET Files
            /\ k.remote = IF Pushes(op) THEN remote[destination] ELSE None
            /\ k.status = IF op \in CheckoutOps THEN row[w].status ELSE None
            /\ k.scope = IF Commits(op) /\ w = Primary THEN scope[s] ELSE None
            /\ w = Primary /\ Pushes(op) /\ k.remote # None => IsAncestor(k.remote, k.head)
<1> DEFINE path == Workplace(s, op, w)
           k == Seen(s, op, w)
           destination == IF op = "commit-and-push" /\ w # Primary THEN Target ELSE on[path]
<1>1. w # Primary => w \in Assignments /\ Bound(s, w) /\ on[w] = w
  BY DEF MayObserve, MayObserveAssigned, Bound, IsManaged, Places
<1>2. /\ w = Primary => op \in GitOps /\ MayUseLane(s) /\ (Pushes(op) => FastForwards(on[Primary]))
      /\ op \in LandOps \cup CheckoutOps => w # Primary
  BY DEF MayObserve, MayObserveUnassigned, GitOps, LandOps, CheckoutOps
<1>3. path \in Places /\ on[path] \in AllBranches
  <2>1. CASE op \in GitOps
    <3>1. path = PathOf(Lane(s, w), w)
      BY <2>1 DEF Workplace
    <3>2. CASE w = Primary
      BY <3>1, <3>2 DEF Lane, PathOf, Places, RepoOK
    <3>3. CASE w # Primary
      BY <1>1, <2>1, <3>1, <3>3
         DEF Lane, PathOf, Places, MayObserve, MayObserveAssigned, RepoOK, OrNone
    <3> QED  BY <3>2, <3>3
  <2>2. CASE op \notin GitOps
    BY <1>1, <1>2, <2>2 DEF Workplace, AllBranches
  <2> QED  BY <2>1, <2>2
<1>4. Tip(path) \in History /\ index[path] \in SUBSET Files /\ scope[s] \in Scopes
  BY <1>3 DEF RepoOK, Tip
<1>5. /\ ModeSeen(s, op, w) \in Modes
      /\ ModeSeen(s, op, w) = "unassigned" <=> w = Primary
  BY <1>2 DEF ModeSeen, Lane, ModeOf, Modes, CheckoutOps
<1>6. /\ k.mode = ModeSeen(s, op, w) /\ k.branch = on[path] /\ k.head = refs[on[path]]
      /\ k.tree = Staged(s, op, ModeSeen(s, op, w), path)
      /\ k.remote = (IF Pushes(op) THEN remote[Destination(op, ModeSeen(s, op, w), on[path])] ELSE None)
      /\ k.status = (IF op \in CheckoutOps THEN row[on[path]].status ELSE None)
      /\ k.scope = (IF Commits(op) /\ ModeSeen(s, op, w) = "unassigned" THEN scope[s] ELSE None)
      /\ k = [mode |-> k.mode, branch |-> k.branch, head |-> k.head, tree |-> k.tree,
              remote |-> k.remote, status |-> k.status, scope |-> k.scope]
  BY DEF Seen, Evidence
<1>7. k.tree = IF ~Commits(op) THEN None
               ELSE IF w = Primary THEN Scoped(Tip(path), index[path], scope[s])
               ELSE index[path]
  BY <1>5, <1>6 DEF Staged
<1>8. Commits(op) => k.tree \in SUBSET Files
  BY <1>4, <1>7, Trees, AuthorityAssumption DEF Scoped
<1>9. Destination(op, ModeSeen(s, op, w), on[path]) = destination /\ destination \in AllBranches
  BY <1>3, <1>5, AuthorityAssumption DEF Destination, AllBranches
<1>10. k.remote = (IF Pushes(op) THEN remote[destination] ELSE None) /\ k.remote \in OrNone(History)
  BY <1>6, <1>9 DEF RepoOK, OrNone
<1>11. /\ k.status = (IF op \in CheckoutOps THEN row[w].status ELSE None)
       /\ k.status \in OrNone(Statuses)
  <2>1. op \in CheckoutOps => path = w /\ on[path] = w /\ w \in Assignments
    BY <1>1, <1>2 DEF Workplace, GitOps, CheckoutOps
  <2> QED  BY <1>6, <2>1 DEF RepoOK, Row, Statuses, OrNone
<1>12. k.scope = (IF Commits(op) /\ w = Primary THEN scope[s] ELSE None) /\ k.scope \in OrNone(Scopes)
  BY <1>4, <1>5, <1>6 DEF OrNone
<1>13. k.head = Tip(path)
  BY <1>6 DEF Tip
<1>14. w = Primary /\ Pushes(op) /\ k.remote # None => IsAncestor(k.remote, k.head)
  <2> SUFFICES ASSUME w = Primary, Pushes(op), k.remote # None
               PROVE  IsAncestor(k.remote, k.head)
    OBVIOUS
  <2>1. path = Primary
    BY <1>2 DEF Workplace, Lane, PathOf
  <2> QED  BY <1>2, <1>10, <1>13, <2>1 DEF FastForwards, Tip
<1>15. k.tree \in OrNone(SUBSET Files)
  BY <1>7, <1>8 DEF OrNone
<1>16. k \in Keys
  <2> HIDE DEF k
  <2> QED  BY <1>3, <1>4, <1>5, <1>6, <1>10, <1>11, <1>12, <1>13, <1>15 DEF Keys, OrNone
<1> HIDE DEF k, path, destination
<1>17. /\ path \in Places /\ on[path] \in AllBranches /\ Tip(path) \in History
       /\ w = Primary => op \in GitOps
       /\ k \in Keys /\ k.branch = on[path] /\ k.head = Tip(path)
       /\ k.mode = ModeSeen(s, op, w) /\ (k.mode = "unassigned" <=> w = Primary)
       /\ k.tree = IF ~Commits(op) THEN None
                   ELSE IF w = Primary THEN Scoped(Tip(path), index[path], scope[s])
                   ELSE index[path]
       /\ Commits(op) => k.tree \in SUBSET Files
       /\ k.remote = IF Pushes(op) THEN remote[destination] ELSE None
       /\ k.status = IF op \in CheckoutOps THEN row[w].status ELSE None
       /\ k.scope = IF Commits(op) /\ w = Primary THEN scope[s] ELSE None
       /\ w = Primary /\ Pushes(op) /\ k.remote # None => IsAncestor(k.remote, k.head)
  BY <1>2, <1>3, <1>4, <1>5, <1>6, <1>7, <1>8, <1>10, <1>11, <1>12, <1>13, <1>14, <1>16
<1> QED  BY <1>17 DEF k, path, destination

\* The key a command leaves is that of what the human had before them.
LEMMA CommandIsKept ==
  ASSUME RepoOK, NEW s \in Sessions, NEW op \in Ops, NEW w \in Places, MayIssue(s, op, w)
  PROVE  [by |-> s, op |-> op, where |-> w, key |-> Key(s, op, w), saw |-> Before(s, op, w)]
           \in Asks
<1> DEFINE path == Workplace(s, op, w)
           q == [by |-> s, op |-> op, where |-> w, key |-> Key(s, op, w), saw |-> Before(s, op, w)]
<1>1. CASE op = "close-out"
  <2>1. w \in Assignments /\ path = w
    BY <1>1 DEF MayIssue, Addresses, Closeable, Workplace, GitOps
  <2>2. Before(s, op, w) \in Sights
    BY <2>1 DEF Before, Sights, RepoOK, Places, OrNone, Tip
  <2>3. Key(s, op, w) = [mode |-> "managed", branch |-> w, head |-> None, tree |-> None,
                         remote |-> None, status |-> None, scope |-> None]
    BY <1>1 DEF Key
  <2>4. Key(s, op, w) \in Keys
    BY <2>1, <2>3 DEF Keys, OrNone, Modes, AllBranches
  <2>5. w # Primary
    BY <2>1, AuthorityAssumption
  <2> QED  BY <1>1, <2>2, <2>3, <2>4, <2>5 DEF Asks, IsCloseOutKey
<1>2. CASE op # "close-out"
  <2>1. MayObserve(s, op, w) /\ Key(s, op, w) = Seen(s, op, w)
    BY <1>2 DEF MayIssue, Key
  <2> DEFINE k == Seen(s, op, w)
             saw == Before(s, op, w)
  <2>2. /\ path \in Places /\ on[path] \in AllBranches /\ Tip(path) \in History
        /\ w = Primary => op \in GitOps
        /\ k \in Keys /\ k.branch = on[path] /\ k.head = Tip(path)
        /\ (k.mode = "unassigned" <=> w = Primary)
        /\ k.tree = (IF ~Commits(op) THEN None
                     ELSE IF w = Primary THEN Scoped(Tip(path), index[path], scope[s])
                     ELSE index[path])
        /\ k.remote = (IF Pushes(op)
                       THEN remote[IF op = "commit-and-push" /\ w # Primary THEN Target
                                   ELSE on[path]]
                       ELSE None)
        /\ op \notin CheckoutOps => k.status = None
        /\ k.scope = (IF Commits(op) /\ w = Primary THEN scope[s] ELSE None)
        /\ (w = Primary /\ Pushes(op) /\ k.remote # None => IsAncestor(k.remote, k.head))
    BY <2>1, Observed
  <2>3. /\ saw.branch = on[path] /\ saw.head = Tip(path) /\ saw.staged = index[path]
        /\ saw.remote = remote /\ saw.scope = scope[s] /\ on[path] # None
    BY <2>2, AuthorityAssumption DEF Before
  <2>4. saw \in Sights
    BY <2>2, <2>3 DEF Before, Sights, RepoOK, OrNone
  <2> HIDE DEF k, saw, path
  <2>5. q.by = s /\ q.op = op /\ q.where = w /\ q.key = k /\ q.saw = saw
    BY <2>1 DEF k, saw
  <2>6. WantedBranch(q) = IF op = "commit-and-push" /\ w # Primary THEN Target ELSE on[path]
    BY <2>3, <2>5 DEF WantedBranch
  <2>7. q \in [by : Sessions, op : Ops, where : Places, key : Keys, saw : Sights]
    BY <2>2, <2>4, <2>5
  <2> HIDE DEF q
  <2>8. IsKeyOf(q)
    BY <2>2, <2>3, <2>5, <2>6 DEF IsKeyOf
  <2> QED  BY <1>2, <2>2, <2>5, <2>7, <2>8 DEF Asks, q
<1> QED  BY <1>1, <1>2

-----------------------------------------------------------------------------
(***************************************************************************)
(* Commands and calls.                                                     *)
(***************************************************************************)
\* A step that goes on within a call.
LEMMA CallMoves ==
  ASSUME IntentOK, NEW s \in Sessions, call[s] # None, NEW place \in Steps, Goes(s, place),
         place = "checked" => Commits(call[s].op) \/ call[s].op \in LandOps,
         place = "committed" => Commits(call[s].op),
         place = "landed" => call[s].op = "commit-and-push",
         place = "sending" => Pushes(call[s].op),
         place # "verified"
  PROVE  /\ call' \in [Sessions -> OrNone(Calls)]
         /\ call'[s] = [call[s] EXCEPT !.at = place] /\ call'[s] \in Calls
         /\ \A t \in Sessions \ {s} : call'[t] = call[t]
<1>1. call[s] \in Calls
  BY MadeIsCommit
<1>2. [call[s] EXCEPT !.at = place] \in Calls
  BY <1>1 DEF Calls
<1>3. call' = [call EXCEPT ![s] = [call[s] EXCEPT !.at = place]]
  BY DEF Goes
<1> QED  BY <1>2, <1>3 DEF IntentOK, OrNone

\* A step that ends a call.
LEMMA CallEnds ==
  ASSUME IntentOK, NEW s \in Sessions, Ends(s)
  PROVE  /\ call' \in [Sessions -> OrNone(Calls)]
         /\ call'[s] = None /\ \A t \in Sessions \ {s} : call'[t] = call[t]
BY DEF IntentOK, OrNone, Ends

\* The part of the invariant about commands, calls and deeds.
IntentInv == IntentOK /\ CallsAreAsked /\ DeedsAreAsked /\ EachKindOnce

\* The call of a session ends, or goes on about the same command.
Onward(s) ==
  /\ call' \in [Sessions -> OrNone(Calls)]
  /\ \A t \in Sessions \ {s} : call'[t] = call[t]
  /\ call'[s] # None =>
       /\ call'[s].id = call[s].id /\ call'[s].op = call[s].op
       /\ call'[s].where = call[s].where /\ call'[s].seen = call[s].seen
       /\ DoneBefore(call[s]) \subseteq DoneBefore(call'[s])

\* The end of a call is one way to go on.
LEMMA EndsIsOnward ==
  ASSUME IntentOK, NEW s \in Sessions, Ends(s)
  PROVE  Onward(s) /\ call'[s] = None
BY CallEnds DEF Onward

\* Two sessions never have a call about one command.
LEMMA CallsDiffer ==
  ASSUME CallsAreAsked, NEW s \in Sessions, NEW t \in Sessions, s # t,
         call[s] # None, call[t] # None
  PROVE  call[s].id # call[t].id
BY DEF CallsAreAsked

\* A step between two deeds.
LEMMA BetweenDeeds ==
  ASSUME IntentInv, NEW s \in Sessions, call[s] # None, Onward(s),
         UNCHANGED <<intents, done>>
  PROVE  IntentInv'
<1>1. IntentOK'
  BY DEF IntentInv, IntentOK, Onward, intents
<1>2. CallsAreAsked'
  <2> SUFFICES ASSUME NEW t \in Sessions, call'[t] # None
               PROVE  /\ call'[t].id \in Used /\ asked[call'[t].id].by = t
                      /\ asked[call'[t].id].op = call'[t].op
                      /\ asked[call'[t].id].where = call'[t].where
                      /\ call'[t].op # "close-out" => asked[call'[t].id].key = call'[t].seen
    BY DEF CallsAreAsked, Used, intents
  <2>1. CASE t = s
    BY <2>1 DEF IntentInv, CallsAreAsked, Onward
  <2>2. CASE t # s
    BY <2>2 DEF IntentInv, CallsAreAsked, Onward
  <2> QED  BY <2>1, <2>2
<1>3. DeedsAreAsked'
  BY DEF IntentInv, DeedsAreAsked, Used, intents
<1>4. OncePerPrompt'
  BY DEF IntentInv, EachKindOnce, OncePerPrompt
<1>5. ASSUME NEW t \in Sessions, NEW n \in DOMAIN done, call'[t] # None,
             done[n].id = call'[t].id
      PROVE  done[n].kind \in DoneBefore(call'[t])
  <2>1. CASE t = s
    BY <1>5, <2>1 DEF IntentInv, EachKindOnce, Onward
  <2>2. CASE t # s
    BY <1>5, <2>2 DEF IntentInv, EachKindOnce, Onward
  <2> QED  BY <2>1, <2>2
<1>6. EachKindOnce'
  BY <1>4, <1>5 DEF EachKindOnce, DoneBefore
<1> QED  BY <1>1, <1>2, <1>3, <1>6 DEF IntentInv

\* A deed: what was asked, of a kind the call has not done before.
LEMMA DeedIsDone ==
  ASSUME IntentInv, NEW s \in Sessions, call[s] # None, Onward(s), UNCHANGED intents,
         NEW d \in Deeds, done' = Append(done, d), d.id = call[s].id,
         AsAsked(d, asked[call[s].id]), d.kind \notin DoneBefore(call[s]),
         call'[s] # None => d.kind \in DoneBefore(call'[s])
  PROVE  IntentInv'
<1>0. /\ done \in Seq(Deeds) /\ done' \in Seq(Deeds) /\ Len(done) \in Nat
      /\ DOMAIN done = 1 .. Len(done) /\ DOMAIN done' = 1 .. (Len(done) + 1)
      /\ \A n \in DOMAIN done : n # Len(done) + 1 /\ done'[n] = done[n]
      /\ done'[Len(done) + 1] = d
      /\ \A n \in DOMAIN done' : n \in DOMAIN done \/ n = Len(done) + 1
  BY DEF IntentInv, IntentOK
<1>1. IntentOK'
  BY <1>0 DEF IntentInv, IntentOK, Onward, intents
<1>2. CallsAreAsked'
  <2> SUFFICES ASSUME NEW t \in Sessions, call'[t] # None
               PROVE  /\ call'[t].id \in Used /\ asked[call'[t].id].by = t
                      /\ asked[call'[t].id].op = call'[t].op
                      /\ asked[call'[t].id].where = call'[t].where
                      /\ call'[t].op # "close-out" => asked[call'[t].id].key = call'[t].seen
    BY DEF CallsAreAsked, Used, intents
  <2>1. CASE t = s
    BY <2>1 DEF IntentInv, CallsAreAsked, Onward
  <2>2. CASE t # s
    BY <2>2 DEF IntentInv, CallsAreAsked, Onward
  <2> QED  BY <2>1, <2>2
<1>3. call[s].id \in Used
  BY DEF IntentInv, CallsAreAsked
<1>4. ASSUME NEW n \in DOMAIN done'
      PROVE  done'[n].id \in Used /\ AsAsked(done'[n], asked[done'[n].id])
  <2>1. CASE n \in DOMAIN done
    BY <1>0, <2>1 DEF IntentInv, DeedsAreAsked
  <2>2. CASE n = Len(done) + 1
    BY <1>0, <1>3, <2>2
  <2> QED  BY <1>0, <2>1, <2>2
<1>5. DeedsAreAsked'
  BY <1>4 DEF DeedsAreAsked, Used, intents
<1>6. \A n \in DOMAIN done : <<done[n].id, done[n].kind>> # <<d.id, d.kind>>
  BY DEF IntentInv, EachKindOnce
<1>7. OncePerPrompt'
  <2> SUFFICES ASSUME NEW m \in DOMAIN done', NEW n \in DOMAIN done', m # n
               PROVE  <<done'[m].id, done'[m].kind>> # <<done'[n].id, done'[n].kind>>
    BY DEF OncePerPrompt
  <2>1. CASE m \in DOMAIN done /\ n \in DOMAIN done
    BY <1>0, <2>1 DEF IntentInv, EachKindOnce, OncePerPrompt
  <2>2. CASE m = Len(done) + 1
    BY <1>0, <1>6, <2>2
  <2>3. CASE n = Len(done) + 1
    BY <1>0, <1>6, <2>3
  <2> QED  BY <1>0, <2>1, <2>2, <2>3
<1>8. ASSUME NEW t \in Sessions, NEW n \in DOMAIN done', call'[t] # None,
             done'[n].id = call'[t].id
      PROVE  done'[n].kind \in DoneBefore(call'[t])
  <2>1. CASE n \in DOMAIN done /\ t = s
    BY <1>0, <1>8, <2>1 DEF IntentInv, EachKindOnce, Onward
  <2>2. CASE n \in DOMAIN done /\ t # s
    BY <1>0, <1>8, <2>2 DEF IntentInv, EachKindOnce, Onward
  <2>3. CASE n = Len(done) + 1
    <3>1. t = s
      BY <1>0, <1>8, <2>3, CallsDiffer DEF IntentInv, Onward
    <3> QED  BY <1>0, <1>8, <2>3, <3>1
  <2> QED  BY <1>0, <2>1, <2>2, <2>3
<1>9. EachKindOnce'
  BY <1>7, <1>8 DEF EachKindOnce, DoneBefore
<1> QED  BY <1>1, <1>2, <1>5, <1>9 DEF IntentInv

\* The commands lose entitlements, and nothing else.
LEMMA OthersKeepIntents ==
  ASSUME IntentInv, pending' \subseteq pending, UNCHANGED <<asked, call, done>>
  PROVE  IntentInv'
<1>1. Used \subseteq Used'
  BY DEF Used
<1>2. IntentOK'
  BY DEF IntentInv, IntentOK
<1>3. CallsAreAsked'
  BY <1>1 DEF IntentInv, CallsAreAsked
<1>4. DeedsAreAsked'
  BY <1>1 DEF IntentInv, DeedsAreAsked
<1>5. EachKindOnce'
  BY DEF IntentInv, EachKindOnce, OncePerPrompt, DoneBefore
<1> QED  BY <1>2, <1>3, <1>4, <1>5 DEF IntentInv

\* What a call knows is what its command was typed for.
LEMMA CallOfCommand ==
  ASSUME IntentInv, NEW s \in Sessions, call[s] # None
  PROVE  LET q == asked[call[s].id]
         IN /\ q \in Asks /\ q.by = s /\ q.op = call[s].op /\ q.where = call[s].where
            /\ call[s].op # "close-out" =>
                 /\ call[s].seen.branch = q.saw.branch /\ call[s].seen.head = q.saw.head
                 /\ Made(s) = IF Commits(q.op) THEN Wanted(q) ELSE q.saw.head
                 /\ Pushes(q.op) => /\ PushTo(s) = WantedBranch(q)
                                    /\ call[s].seen.remote = q.saw.remote[WantedBranch(q)]
<1> DEFINE q == asked[call[s].id]
<1>1. /\ call[s].id \in DOMAIN asked /\ q.by = s /\ q.op = call[s].op /\ q.where = call[s].where
      /\ call[s].op # "close-out" => q.key = call[s].seen
  BY DEF IntentInv, CallsAreAsked, Used
<1>2. q \in Asks
  BY <1>1 DEF IntentInv, IntentOK
<1> HIDE DEF q
<1>3. ASSUME call[s].op # "close-out"
      PROVE  /\ call[s].seen.branch = q.saw.branch /\ call[s].seen.head = q.saw.head
             /\ Made(s) = IF Commits(q.op) THEN Wanted(q) ELSE q.saw.head
             /\ Pushes(q.op) => /\ PushTo(s) = WantedBranch(q)
                                /\ call[s].seen.remote = q.saw.remote[WantedBranch(q)]
  <2>1. IsKeyOf(q) /\ q.key = call[s].seen
    BY <1>1, <1>2, <1>3 DEF Asks
  <2>2. call[s].seen.branch = q.saw.branch /\ call[s].seen.head = q.saw.head
    BY <2>1 DEF IsKeyOf
  <2>3. Commits(q.op) =>
          call[s].seen.tree = IF q.where = Primary
                              THEN Scoped(q.saw.head, q.saw.staged, q.saw.scope)
                              ELSE q.saw.staged
    BY <2>1 DEF IsKeyOf
  <2>4. Made(s) = IF Commits(q.op) THEN Wanted(q) ELSE q.saw.head
    BY <1>1, <2>2, <2>3 DEF Made, Wanted
  <2>5. PushTo(s) = WantedBranch(q)
    BY <1>1, <2>1 DEF PushTo, Destination, WantedBranch, IsKeyOf
  <2>6. Pushes(q.op) => call[s].seen.remote = q.saw.remote[WantedBranch(q)]
    BY <2>1 DEF IsKeyOf
  <2> QED  BY <2>2, <2>4, <2>5, <2>6
<1>4. /\ q \in Asks /\ q.by = s /\ q.op = call[s].op /\ q.where = call[s].where
      /\ call[s].op # "close-out" =>
           /\ call[s].seen.branch = q.saw.branch /\ call[s].seen.head = q.saw.head
           /\ Made(s) = IF Commits(q.op) THEN Wanted(q) ELSE q.saw.head
           /\ Pushes(q.op) => /\ PushTo(s) = WantedBranch(q)
                              /\ call[s].seen.remote = q.saw.remote[WantedBranch(q)]
  BY <1>1, <1>2, <1>3
<1> QED  BY <1>4 DEF q

\* A new command leaves the calls and the deeds with their own.
LEMMA PromptKeepsIntents ==
  ASSUME RepoOK, IntentInv, NEW s \in Sessions, NEW op \in Ops, NEW w \in Places,
         Prompt(s, op, w)
  PROVE  IntentInv'
<1> DEFINE q == [by |-> s, op |-> op, where |-> w, key |-> Key(s, op, w),
                 saw |-> Before(s, op, w)]
<1>1. q \in Asks
  BY CommandIsKept DEF Prompt
<1>2. asked' = Append(asked, q) /\ UNCHANGED <<call, done>>
      /\ pending' \subseteq pending \cup {Len(asked) + 1}
  BY DEF Prompt
<1> HIDE DEF q
<1>3. /\ asked \in Seq(Asks) /\ asked' \in Seq(Asks)
      /\ DOMAIN asked \subseteq DOMAIN asked' /\ Len(asked) + 1 \in DOMAIN asked'
      /\ Len(asked) + 1 \notin DOMAIN asked
      /\ \A i \in DOMAIN asked : asked'[i] = asked[i]
  BY <1>1, <1>2 DEF IntentInv, IntentOK
<1>4. Used \subseteq Used'
  BY <1>2, <1>3 DEF Used
<1>5. IntentOK'
  BY <1>2, <1>3 DEF IntentInv, IntentOK
<1>6. \A i \in Used : asked'[i] = asked[i]
  BY <1>3 DEF Used
<1>7. CallsAreAsked'
  <2> SUFFICES ASSUME NEW t \in Sessions, call[t] # None
               PROVE  /\ call[t].id \in Used' /\ asked'[call[t].id].by = t
                      /\ asked'[call[t].id].op = call[t].op
                      /\ asked'[call[t].id].where = call[t].where
                      /\ call[t].op # "close-out" => asked'[call[t].id].key = call[t].seen
    BY <1>2 DEF CallsAreAsked
  <2> QED  BY <1>4, <1>6 DEF IntentInv, CallsAreAsked
<1>8. DeedsAreAsked'
  <2> SUFFICES ASSUME NEW n \in DOMAIN done
               PROVE  done[n].id \in Used' /\ AsAsked(done[n], asked'[done[n].id])
    BY <1>2 DEF DeedsAreAsked
  <2> QED  BY <1>4, <1>6 DEF IntentInv, DeedsAreAsked
<1>9. EachKindOnce'
  BY <1>2 DEF IntentInv, EachKindOnce, OncePerPrompt, DoneBefore
<1> QED  BY <1>5, <1>7, <1>8, <1>9 DEF IntentInv

\* A call begins with a command nothing was done for.
LEMMA VerifyKeepsIntents ==
  ASSUME RepoOK, IntentInv, NEW s \in Sessions, NEW op \in Ops, NEW w \in Places,
         Verify(s, op, w)
  PROVE  IntentInv'
<1>1. PICK i \in pending :
        /\ asked[i].by = s /\ asked[i].op = op /\ asked[i].where = w
        /\ asked[i].key = Key(s, op, w)
        /\ pending' = pending \ {i}
        /\ call' = [call EXCEPT ![s] =
                      [at |-> IF op \in CheckoutOps THEN "claimed" ELSE "verified",
                       id |-> i, op |-> op, where |-> w, seen |-> Seen(s, op, w)]]
  BY DEF Verify, Consumed
<1> DEFINE c == [at |-> IF op \in CheckoutOps THEN "claimed" ELSE "verified",
                 id |-> i, op |-> op, where |-> w, seen |-> Seen(s, op, w)]
<1>2. /\ call' = [call EXCEPT ![s] = c] /\ UNCHANGED <<asked, done>> /\ MayObserve(s, op, w)
      /\ c.id = i /\ c.op = op /\ c.where = w /\ c.seen = Seen(s, op, w)
      /\ c.at = IF op \in CheckoutOps THEN "claimed" ELSE "verified"
  BY <1>1 DEF Verify
<1>3. i \in DOMAIN asked /\ i \in Nat
  BY DEF IntentInv, IntentOK
<1>4. c \in Calls
  <2>1. /\ Seen(s, op, w) \in Keys /\ Seen(s, op, w).head \in History
        /\ w = Primary => op \in GitOps
        /\ Commits(op) => Seen(s, op, w).tree \in SUBSET Files
    BY <1>2, Observed
  <2> QED  BY <1>3, <2>1 DEF Calls, Steps
<1> HIDE DEF c
<1>5. /\ call' \in [Sessions -> OrNone(Calls)] /\ call'[s] = c
      /\ \A t \in Sessions \ {s} : call'[t] = call[t]
  BY <1>2, <1>4 DEF IntentInv, IntentOK, OrNone
<1>6. Used \subseteq Used' /\ i \in Used' /\ i \notin Used
  BY <1>1, <1>2, <1>3 DEF Used
<1>7. IntentOK'
  BY <1>1, <1>2, <1>5 DEF IntentInv, IntentOK
<1>8. CallsAreAsked'
  <2> SUFFICES ASSUME NEW t \in Sessions, call'[t] # None
               PROVE  /\ call'[t].id \in Used' /\ asked[call'[t].id].by = t
                      /\ asked[call'[t].id].op = call'[t].op
                      /\ asked[call'[t].id].where = call'[t].where
                      /\ call'[t].op # "close-out" => asked[call'[t].id].key = call'[t].seen
    BY <1>2 DEF CallsAreAsked
  <2>1. CASE t = s
    BY <1>1, <1>2, <1>5, <1>6, <2>1 DEF Key
  <2>2. CASE t # s
    BY <1>5, <1>6, <2>2 DEF IntentInv, CallsAreAsked
  <2> QED  BY <2>1, <2>2
<1>9. DeedsAreAsked'
  BY <1>2, <1>6 DEF IntentInv, DeedsAreAsked
<1>10. OncePerPrompt'
  BY <1>2 DEF IntentInv, EachKindOnce, OncePerPrompt
<1>11. ASSUME NEW t \in Sessions, NEW n \in DOMAIN done, call'[t] # None,
              done[n].id = call'[t].id
       PROVE  done[n].kind \in DoneBefore(call'[t])
  <2>1. CASE t = s
    BY <1>2, <1>5, <1>6, <1>11, <2>1 DEF IntentInv, DeedsAreAsked
  <2>2. CASE t # s
    BY <1>5, <1>11, <2>2 DEF IntentInv, EachKindOnce
  <2> QED  BY <2>1, <2>2
<1>12. EachKindOnce'
  BY <1>2, <1>10, <1>11 DEF EachKindOnce, DoneBefore
<1> QED  BY <1>7, <1>8, <1>9, <1>12 DEF IntentInv

\* The steps of a call that do nothing a human could have asked for.
LEMMA StepsKeepIntents ==
  ASSUME IntentInv, NEW s \in Sessions,
         \/ Claim(s) \/ Stop(s) \/ CheckLaneCommit(s) \/ CheckCommit(s) \/ CheckLand(s)
         \/ CheckPush(s) \/ PutOff(s) \/ CloseOutLanded(s)
  PROVE  IntentInv'
<1>0. IntentOK /\ call[s] # None /\ UNCHANGED <<intents, done>>
  BY DEF IntentInv, Claim, Stop, CheckLaneCommit, CheckCommit, CheckLand, CheckPush, PutOff,
         CloseOutLanded, At
<1> SUFFICES Onward(s)
  BY <1>0, BetweenDeeds
<1>1. call[s] \in Calls
  BY <1>0, MadeIsCommit
<1>2. ASSUME NEW place \in Steps, Goes(s, place), place \in {"claimed", "checked", "sending"},
             place = "checked" => Commits(call[s].op) \/ call[s].op \in LandOps,
             place = "sending" => Pushes(call[s].op),
             DoneBefore(call[s]) = {} \/ (place = "sending" /\ call[s].op # "push")
      PROVE  Onward(s)
  <2>1. /\ call' \in [Sessions -> OrNone(Calls)]
        /\ call'[s] = [call[s] EXCEPT !.at = place]
        /\ \A t \in Sessions \ {s} : call'[t] = call[t]
    BY <1>0, <1>2, CallMoves
  <2>2. /\ call'[s].id = call[s].id /\ call'[s].op = call[s].op
        /\ call'[s].where = call[s].where /\ call'[s].seen = call[s].seen
        /\ call'[s].at = place
    BY <1>1, <2>1 DEF Calls
  <2>3. DoneBefore(call[s]) \subseteq {"commit", "land"}
    BY DEF DoneBefore
  <2>4. place = "sending" /\ call[s].op # "push" => DoneBefore(call'[s]) = {"commit", "land"}
    BY <2>2 DEF DoneBefore
  <2> QED  BY <1>2, <2>1, <2>2, <2>3, <2>4 DEF Onward
<1>3. CASE Claim(s)
  BY <1>2, <1>3 DEF Claim, At, DoneBefore, Steps
<1>4. CASE CheckLaneCommit(s) \/ CheckCommit(s) \/ CheckLand(s)
  <2>1. Goes(s, "checked") /\ call[s].at \in {"verified", "claimed"}
        /\ (Commits(call[s].op) \/ call[s].op \in LandOps)
    BY <1>4 DEF CheckLaneCommit, CheckCommit, CheckLand, At
  <2> QED  BY <1>2, <2>1 DEF DoneBefore, Steps
<1>5. CASE CheckPush(s)
  <2>1. Goes(s, "sending") /\ Pushes(call[s].op)
    BY <1>5 DEF CheckPush
  <2>2. call[s].op = "push" => call[s].at \in {"verified", "claimed"}
    BY <1>5 DEF CheckPush, LaneReadyToPush, WorktreeReadyToPush, At
  <2> QED  BY <1>2, <2>1, <2>2 DEF DoneBefore, Steps
<1>6. CASE Stop(s) \/ PutOff(s) \/ CloseOutLanded(s)
  BY <1>0, <1>6, EndsIsOnward DEF Stop, PutOff, CloseOutLanded, Cleaned
<1> QED  BY <1>3, <1>4, <1>5, <1>6

\* The deeds are those asked for, each of a kind that is new to the call.
LEMMA DeedsKeepIntents ==
  ASSUME RepoOK, IntentInv, NEW s \in Sessions,
         CreateCommit(s) \/ Land(s) \/ Send(s) \/ TakePrimary(s) \/ ReturnPrimary(s)
  PROVE  IntentInv'
<1>0. IntentOK /\ call[s] # None /\ UNCHANGED intents
  BY DEF IntentInv, CreateCommit, Land, Send, TakePrimary, ReturnPrimary, At
<1>1. /\ call[s] \in Calls /\ Made(s) \in History
      /\ call[s].seen.head \in History /\ call[s].seen.branch \in AllBranches
  BY <1>0, MadeIsCommit
<1> DEFINE q == asked[call[s].id]
<1>2. /\ q \in Asks /\ q.by = s /\ q.op = call[s].op /\ q.where = call[s].where
      /\ call[s].op # "close-out" =>
           /\ call[s].seen.branch = q.saw.branch /\ call[s].seen.head = q.saw.head
           /\ Made(s) = IF Commits(q.op) THEN Wanted(q) ELSE q.saw.head
           /\ Pushes(q.op) => /\ PushTo(s) = WantedBranch(q)
                              /\ call[s].seen.remote = q.saw.remote[WantedBranch(q)]
  BY <1>0, CallOfCommand
<1> HIDE DEF q
<1>3. Target \in AllBranches /\ PushTo(s) \in AllBranches
  BY <1>1, AuthorityAssumption DEF PushTo, Destination, AllBranches
<1>4. ASSUME NEW kind \in Kinds, NEW branch \in OrNone(AllBranches),
             NEW from \in OrNone(History), NEW to \in OrNone(History),
             Did(s, kind, branch, from, to), Onward(s),
             kind \notin DoneBefore(call[s]),
             call'[s] # None => kind \in DoneBefore(call'[s]),
             \A d \in Deeds : /\ d.by = s /\ d.where = call[s].where /\ d.kind = kind
                              /\ d.branch = branch /\ d.from = from /\ d.to = to
                              => AsAsked(d, q)
      PROVE  IntentInv'
  <2> DEFINE d == [id |-> call[s].id, by |-> s, where |-> call[s].where, kind |-> kind,
                   branch |-> branch, from |-> from, to |-> to]
  <2>1. d \in Deeds
    BY <1>1 DEF Deeds, Calls
  <2>2. AsAsked(d, q)
    BY <1>4, <2>1
  <2>3. done' = Append(done, d) /\ d.id = call[s].id /\ d.kind = kind
    BY <1>4 DEF Did
  <2> HIDE DEF d
  <2> QED  BY <1>0, <1>4, <2>1, <2>2, <2>3, DeedIsDone DEF q
<1>5. ASSUME NEW place \in Steps, Goes(s, place), place \in {"committed", "landed"},
             place = "committed" => Commits(call[s].op) /\ DoneBefore(call[s]) = {},
             place = "landed" => call[s].op = "commit-and-push"
                                 /\ DoneBefore(call[s]) \subseteq {"commit"}
      PROVE  Onward(s) /\ call'[s].at = place
  <2>1. /\ call' \in [Sessions -> OrNone(Calls)]
        /\ call'[s] = [call[s] EXCEPT !.at = place]
        /\ \A t \in Sessions \ {s} : call'[t] = call[t]
    BY <1>0, <1>5, CallMoves
  <2>2. /\ call'[s].id = call[s].id /\ call'[s].op = call[s].op
        /\ call'[s].where = call[s].where /\ call'[s].seen = call[s].seen
        /\ call'[s].at = place
    BY <1>1, <2>1 DEF Calls
  <2>3. DoneBefore(call'[s]) = IF place = "committed" THEN {"commit"} ELSE {"commit", "land"}
    BY <1>5, <2>2 DEF DoneBefore
  <2> QED  BY <1>5, <2>1, <2>2, <2>3 DEF Onward
<1>6. CASE CreateCommit(s)
  <2> DEFINE branch == call[s].seen.branch
  <2>1. /\ call[s].at = "checked" /\ Commits(call[s].op) /\ call[s].op # "close-out"
        /\ Did(s, "commit", branch, call[s].seen.head, Made(s))
        /\ Ends(s) \/ Goes(s, "committed")
    BY <1>6 DEF CreateCommit, At, Commits
  <2>2. DoneBefore(call[s]) = {}
    BY <2>1 DEF DoneBefore
  <2>3. Onward(s) /\ (call'[s] # None => "commit" \in DoneBefore(call'[s]))
    BY <1>0, <1>5, <2>1, <2>2, EndsIsOnward DEF DoneBefore, Steps
  <2>4. ASSUME NEW d \in Deeds, d.by = s, d.where = call[s].where, d.kind = "commit",
               d.branch = branch, d.from = call[s].seen.head, d.to = Made(s)
        PROVE  AsAsked(d, q)
    BY <1>2, <2>1, <2>4 DEF AsAsked
  <2> QED  BY <1>1, <1>4, <2>1, <2>2, <2>3, <2>4 DEF Kinds, OrNone
<1>7. CASE Land(s)
  <2>1. /\ \/ call[s].at = "committed" /\ Commits(call[s].op)
           \/ call[s].at = "checked" /\ call[s].op \in LandOps
        /\ Did(s, "land", Target, refs[Target], Made(s))
        /\ Ends(s) \/ (Goes(s, "landed") /\ call[s].op = "commit-and-push")
    BY <1>1, <1>7 DEF Land, MayLand, Cleaned, At, Calls
  <2>2. DoneBefore(call[s]) \subseteq {"commit"}
    BY <2>1 DEF DoneBefore
  <2>3. Onward(s) /\ (call'[s] # None => "land" \in DoneBefore(call'[s]))
    BY <1>0, <1>5, <2>1, <2>2, EndsIsOnward DEF DoneBefore, Steps
  <2>4. ASSUME NEW d \in Deeds, d.by = s, d.where = call[s].where, d.kind = "land",
               d.branch = Target, d.to = Made(s)
        PROVE  AsAsked(d, q)
    <3>1. Commits(call[s].op) => call[s].op # "close-out"
      BY DEF Commits
    <3>2. call[s].op \in LandOps => ~Commits(call[s].op)
      BY DEF Commits, LandOps
    <3> QED  BY <1>2, <2>1, <2>4, <3>1, <3>2 DEF AsAsked
  <2>5. refs[Target] \in History
    BY <1>3 DEF RepoOK
  <2> QED  BY <1>1, <1>3, <1>4, <2>1, <2>2, <2>3, <2>4, <2>5 DEF Kinds, OrNone
<1>8. CASE Send(s)
  <2>1. /\ call[s].at = "sending" /\ Pushes(call[s].op) /\ call[s].op # "close-out"
        /\ Did(s, "push", PushTo(s), remote[PushTo(s)], Made(s)) /\ Ends(s)
        /\ remote[PushTo(s)] = call[s].seen.remote
    BY <1>1, <1>8 DEF Send, At, Calls, Pushes, LeaseHolds
  <2>2. "push" \notin DoneBefore(call[s])
    BY DEF DoneBefore
  <2>3. Onward(s) /\ call'[s] = None
    BY <1>0, <2>1, EndsIsOnward
  <2>4. ASSUME NEW d \in Deeds, d.by = s, d.where = call[s].where, d.kind = "push",
               d.branch = PushTo(s), d.from = remote[PushTo(s)], d.to = Made(s)
        PROVE  AsAsked(d, q)
    <3>1. Made(s) = WantedPush(q)
      BY <1>2, <2>1 DEF WantedPush, Pushes, Commits
    <3> QED  BY <1>2, <2>1, <2>4, <3>1 DEF AsAsked
  <2>5. remote[PushTo(s)] \in OrNone(History)
    BY <1>3 DEF RepoOK
  <2> QED  BY <1>1, <1>3, <1>4, <2>1, <2>2, <2>3, <2>4, <2>5 DEF Kinds, OrNone
<1>9. CASE TakePrimary(s) \/ ReturnPrimary(s)
  <2>1. PICK kind \in {"take", "return"} :
          /\ Did(s, kind, None, None, None) /\ Ends(s)
          /\ kind = "take" => call[s].op = "use-primary-checkout"
          /\ kind = "return" => call[s].op = "return-to-managed-worktree"
    BY <1>9 DEF TakePrimary, ReturnPrimary
  <2>2. kind \notin DoneBefore(call[s])
    BY DEF DoneBefore
  <2>3. Onward(s) /\ call'[s] = None
    BY <1>0, <2>1, EndsIsOnward
  <2>4. ASSUME NEW d \in Deeds, d.by = s, d.where = call[s].where, d.kind = kind
        PROVE  AsAsked(d, q)
    BY <1>2, <2>1, <2>4 DEF AsAsked
  <2> QED  BY <1>4, <2>1, <2>2, <2>3, <2>4 DEF Kinds, OrNone
<1> QED  BY <1>6, <1>7, <1>8, <1>9

\* Nothing is asked, called or done at first.
LEMMA IntentInit == Init => IntentInv
<1> SUFFICES ASSUME Init PROVE IntentInv
  OBVIOUS
<1>1. /\ asked = << >> /\ done = << >> /\ pending = {}
      /\ call = [s \in Sessions |-> None]
  BY DEF Init
<1> QED
  BY <1>1 DEF IntentInv, IntentOK, CallsAreAsked, DeedsAreAsked, EachKindOnce, OncePerPrompt, OrNone

\* What others do grants no command, and is no call and no deed.
LEMMA EnvironmentKeepsIntents ==
  ASSUME Environment
  PROVE  pending' \subseteq pending /\ UNCHANGED <<asked, call, done>>
BY DEF Environment, Others, intents, Stage, PlainCommit, Switch, RemotePush, Replan, Reserve,
       Abandon, Resolve, Hold, Transfer, Release, GrowOld

\* No step leaves a call or a deed without its command.
LEMMA IntentStep == RepoOK /\ IntentInv /\ [Next]_vars => IntentInv'
<1> SUFFICES ASSUME RepoOK, IntentInv, [Next]_vars PROVE IntentInv'
  OBVIOUS
<1>1. ASSUME NEW s \in Sessions, Human(s)  PROVE IntentInv'
  BY <1>1, PromptKeepsIntents DEF Human
<1>2. ASSUME NEW s \in Sessions, Call(s)  PROVE IntentInv'
  <2>1. CASE \E op \in Ops, w \in Places : Verify(s, op, w)
    BY <2>1, VerifyKeepsIntents
  <2> QED  BY <1>2, <2>1, StepsKeepIntents, DeedsKeepIntents DEF Call
<1>3. CASE \E i \in pending : Expire(i)
  BY <1>3, OthersKeepIntents DEF Expire
<1>4. CASE Environment
  BY <1>4, EnvironmentKeepsIntents, OthersKeepIntents
<1>5. CASE UNCHANGED vars
  BY <1>5, OthersKeepIntents DEF vars, intents
<1> QED  BY <1>1, <1>2, <1>3, <1>4, <1>5 DEF Next

-----------------------------------------------------------------------------
(***************************************************************************)
(* Claims.                                                                 *)
(***************************************************************************)
\* Who has looked at the row holds the claim on it.
LEMMA CheckedHolds ==
  ASSUME IntentOK, NEW s \in Sessions, Checked(s)
  PROVE  call[s].where \in Assignments /\ HoldsClaim(s, call[s].where)
<1>1. call[s] # None /\ call[s] \in Calls
  BY MadeIsCommit DEF Checked
<1> QED  BY <1>1 DEF Checked, Assigned, Calls, Places, HoldsClaim

\* A step of a call that claims what is free, and changes the status only of
\* what it has claimed.
LEMMA CallerKeepsClaims ==
  ASSUME IntentOK, IntentOK', ClaimInv, NEW s \in Sessions,
         \A t \in Sessions \ {s} : call'[t] = call[t],
         \A a \in Assignments : HoldsClaim(s, a)' => HoldsClaim(s, a) \/ MayClaim(a),
         \A a \in Assignments : row'[a].held = row[a].held /\ row'[a].by = row[a].by,
         \A a \in Assignments : row'[a].status = row[a].status \/ HoldsClaim(s, a),
         \A a \in Assignments : row'[a].status \in {"none", "cleaned"} => on'[a] = None,
         Checked(s)' => (RowOf(s).by = s /\ RowOf(s).status \notin {"none", "cleaned"})'
  PROVE  ClaimInv'
<1>1. \A t \in Sessions \ {s}, a \in Assignments : HoldsClaim(t, a)' <=> HoldsClaim(t, a)
  BY DEF HoldsClaim
<1>2. ClaimExcludes'
  <2> SUFFICES ASSUME NEW t \in Sessions, NEW a \in Assignments, HoldsClaim(t, a)'
               PROVE  /\ ~row'[a].held
                      /\ \A u \in Sessions : HoldsClaim(u, a)' => u = t
    BY DEF ClaimExcludes
  <2>1. HoldsClaim(t, a) \/ MayClaim(a)
    BY <1>1
  <2>2. ~row[a].held
    BY <2>1 DEF ClaimInv, ClaimExcludes, MayClaim
  <2>3. ASSUME NEW u \in Sessions, HoldsClaim(u, a)'  PROVE u = t
    BY <1>1, <2>1, <2>3 DEF ClaimInv, ClaimExcludes, MayClaim
  <2> QED  BY <2>2, <2>3
<1>3. CheckedOwner'
  <2> SUFFICES ASSUME NEW t \in Sessions, t # s, Checked(t)'
               PROVE  (RowOf(t).by = t /\ RowOf(t).status \notin {"none", "cleaned"})'
    BY DEF CheckedOwner
  <2>1. Checked(t) /\ call'[t] = call[t]
    BY DEF Checked, Assigned
  <2>2. call[t].where \in Assignments /\ HoldsClaim(t, call[t].where)
    BY <2>1, CheckedHolds
  <2>3. row'[call[t].where].status = row[call[t].where].status
    BY <2>2 DEF ClaimInv, ClaimExcludes
  <2> QED  BY <2>1, <2>2, <2>3 DEF RowOf, ClaimInv, CheckedOwner
<1> QED  BY <1>2, <1>3 DEF ClaimInv, CleanedIsAway

\* A row whose worktree is in place is neither fresh nor cleaned.
LEMMA InPlace ==
  ASSUME ClaimInv, NEW s \in Sessions, NEW a \in Assignments, Bound(s, a)
  PROVE  row[a].by = s /\ row[a].status \notin {"none", "cleaned"}
<1>1. None # a \/ on[a] # a
  BY AuthorityAssumption DEF AllBranches
<1> QED  BY <1>1 DEF Bound, IsManaged, ClaimInv, CleanedIsAway

\* The steps of a call that leave the rows alone.
LEMMA StepsKeepClaims ==
  ASSUME RepoOK, IntentOK, IntentOK', ClaimInv, NEW s \in Sessions,
         \/ Claim(s) \/ Stop(s) \/ CheckLaneCommit(s) \/ CheckCommit(s) \/ CheckLand(s)
         \/ CheckPush(s) \/ CreateCommit(s) \/ TakePrimary(s) \/ ReturnPrimary(s)
  PROVE  ClaimInv'
<1>0. call[s] # None /\ UNCHANGED <<row, on>>
  BY DEF Claim, Stop, CheckLaneCommit, CheckCommit, CheckLand, CheckPush, CreateCommit,
         TakePrimary, ReturnPrimary, At, repo
<1>1. call[s] \in Calls
  BY <1>0, MadeIsCommit
<1>2. ASSUME Ends(s)  PROVE ClaimInv'
  BY <1>0, <1>2, CallEnds, CallerKeepsClaims DEF HoldsClaim, Checked, ClaimInv, CleanedIsAway
<1>3. ASSUME NEW place \in Steps, Goes(s, place), place # "verified",
             call[s].at # "verified" \/ ~Assigned(s)
               \/ (MayClaim(call[s].where) /\ call[s].op \notin CheckoutOps /\ place = "claimed"),
             Checked(s) \/ ~Assigned(s) \/ Bound(s, call[s].where) \/ place = "claimed"
      PROVE  ClaimInv'
  <2>1. /\ call'[s] = [call[s] EXCEPT !.at = place]
        /\ \A t \in Sessions \ {s} : call'[t] = call[t]
    BY <1>3 DEF IntentOK, Goes
  <2>2. call'[s].where = call[s].where /\ call'[s].op = call[s].op /\ call'[s].at = place
    BY <1>1, <2>1 DEF Calls
  <2>3. \A a \in Assignments : HoldsClaim(s, a)' => HoldsClaim(s, a) \/ MayClaim(a)
    BY <1>0, <1>3, <2>2, AuthorityAssumption DEF HoldsClaim, Assigned
  <2>4. ASSUME Checked(s)'
        PROVE  row[call[s].where].by = s /\ row[call[s].where].status \notin {"none", "cleaned"}
    <3>1. Assigned(s) /\ call[s].where \in Assignments
      BY <1>1, <2>2, <2>4 DEF Checked, Assigned, Calls, Places
    <3>2. CASE Checked(s)
      BY <3>2 DEF ClaimInv, CheckedOwner, RowOf
    <3>3. CASE Bound(s, call[s].where)
      BY <3>1, <3>3, InPlace
    <3>4. CASE place = "claimed"
      <4>1. call[s].op \in CheckoutOps
        BY <2>2, <2>4, <3>4 DEF Checked
      <4> QED  BY <1>0, <3>1, <4>1, <3>2 DEF Checked
    <3> QED  BY <1>3, <3>1, <3>2, <3>3, <3>4
  <2> QED
    BY <1>0, <2>1, <2>2, <2>3, <2>4, CallerKeepsClaims DEF RowOf, ClaimInv, CleanedIsAway
<1>4. CASE Claim(s)
  BY <1>1, <1>3, <1>4 DEF Claim, At, Steps, Calls
<1>5. CASE CheckLaneCommit(s)
  BY <1>3, <1>5 DEF CheckLaneCommit, At, Steps
<1>6. CASE CheckCommit(s) \/ CheckLand(s)
  <2>1. call[s].at = "claimed" /\ Stands(s) /\ Goes(s, "checked")
    BY <1>6 DEF CheckCommit, CheckLand, At
  <2> QED  BY <1>3, <2>1 DEF Stands, Steps
<1>7. CASE CheckPush(s)
  <2>1. Stands(s) /\ Goes(s, "sending") /\ (~Assigned(s) \/ call[s].at # "verified")
    BY <1>7 DEF CheckPush, LaneReadyToPush, WorktreeReadyToPush, At
  <2> QED  BY <1>3, <2>1 DEF Stands, Steps
<1>8. CASE CreateCommit(s)
  <2>1. call[s].at = "checked" /\ (Ends(s) \/ Goes(s, "committed"))
    BY <1>8 DEF CreateCommit, At
  <2>2. Checked(s) \/ ~Assigned(s)
    BY <1>0, <2>1 DEF Checked
  <2> QED  BY <1>2, <1>3, <2>1, <2>2 DEF Steps
<1>9. CASE Stop(s) \/ TakePrimary(s) \/ ReturnPrimary(s)
  BY <1>2, <1>9 DEF Stop, TakePrimary, ReturnPrimary
<1> QED  BY <1>4, <1>5, <1>6, <1>7, <1>8, <1>9

\* A checkout tool looks at the row and claims it in one.
LEMMA VerifyKeepsClaims ==
  ASSUME RepoOK, IntentOK, IntentOK', ClaimInv, NEW s \in Sessions,
         NEW op \in Ops, NEW w \in Places, Verify(s, op, w)
  PROVE  ClaimInv'
<1>1. PICK i \in pending :
        call' = [call EXCEPT ![s] =
                   [at |-> IF op \in CheckoutOps THEN "claimed" ELSE "verified",
                    id |-> i, op |-> op, where |-> w, seen |-> Seen(s, op, w)]]
  BY DEF Verify
<1>2. /\ call'[s].op = op /\ call'[s].where = w
      /\ call'[s].at = IF op \in CheckoutOps THEN "claimed" ELSE "verified"
      /\ \A t \in Sessions \ {s} : call'[t] = call[t]
  BY <1>1 DEF IntentOK
<1>3. UNCHANGED <<row, on>> /\ MayObserve(s, op, w) /\ (op \in CheckoutOps => MayClaim(w))
  BY DEF Verify, repo
<1>4. \A a \in Assignments : HoldsClaim(s, a)' => MayClaim(a)
  BY <1>2, <1>3 DEF HoldsClaim
<1>5. ASSUME Checked(s)'
      PROVE  row[w].by = s /\ row[w].status \notin {"none", "cleaned"}
  <2>1. w \in Assignments
    BY <1>2, <1>5 DEF Checked, Assigned, Places
  <2>2. Bound(s, w)
    BY <1>3, <2>1, AuthorityAssumption DEF MayObserve, MayObserveAssigned
  <2> QED  BY <2>1, <2>2, InPlace
<1> QED  BY <1>2, <1>3, <1>4, <1>5, CallerKeepsClaims DEF RowOf, ClaimInv, CleanedIsAway

\* A landing and what follows it change the row under the claim.
LEMMA LandingsKeepClaims ==
  ASSUME RepoOK, IntentOK, IntentOK', ClaimInv, NEW s \in Sessions,
         Land(s) \/ PutOff(s) \/ CloseOutLanded(s) \/ Send(s)
  PROVE  ClaimInv'
<1>0. call[s] # None
  BY DEF Land, PutOff, CloseOutLanded, Send, At
<1>1. call[s] \in Calls
  BY <1>0, MadeIsCommit
<1>2. Ends(s) \/ (Goes(s, "landed") /\ Land(s))
  BY DEF Land, PutOff, CloseOutLanded, Send, Cleaned
<1>3. \A t \in Sessions \ {s} : call'[t] = call[t]
  BY <1>2 DEF Ends, Goes, IntentOK
<1>4. call[s].at # "verified"
  BY DEF Land, PutOff, MayLand, CloseOutLanded, Send, At
<1>5. \A a \in Assignments : HoldsClaim(s, a)' => HoldsClaim(s, a)
  <2>1. CASE Ends(s)
    BY <2>1, CallEnds DEF HoldsClaim
  <2>2. CASE Goes(s, "landed")
    <3>1. call'[s] = [call[s] EXCEPT !.at = "landed"]
      BY <2>2 DEF Goes, IntentOK
    <3>2. call'[s].where = call[s].where
      BY <1>1, <3>1 DEF Calls
    <3> QED  BY <1>0, <1>4, <3>2 DEF HoldsClaim
  <2> QED  BY <1>2, <2>1, <2>2
<1>6. \/ UNCHANGED <<row, on>> /\ Ends(s)
      \/ /\ Assigned(s)
         /\ \/ SetStatus(s, "cleaned") /\ on' = [on EXCEPT ![call[s].where] = None] /\ Ends(s)
            \/ \E status \in {"integrated", "active"} : SetStatus(s, status) /\ UNCHANGED on
            \/ /\ SetStatus(s, "ready") /\ Ends(s)
               /\ \E branch \in {None, call[s].where} : on' = [on EXCEPT ![call[s].where] = branch]
  <2>1. CASE Land(s)
    <3>1. Assigned(s)
      BY <2>1 DEF Land, MayLand
    <3> QED  BY <2>1, <3>1 DEF Land, Cleaned
  <2>2. CASE PutOff(s)
    BY <2>2 DEF PutOff, MayLand
  <2>3. CASE CloseOutLanded(s)
    <3>1. Assigned(s)
      BY <1>1, <2>3 DEF CloseOutLanded, At, Assigned, Calls, GitOps
    <3> QED  BY <2>3, <3>1 DEF CloseOutLanded, Cleaned
  <2>4. CASE Send(s)
    BY <2>4 DEF Send
  <2> QED  BY <2>1, <2>2, <2>3, <2>4
<1>7. CASE UNCHANGED <<row, on>> /\ Ends(s)
  BY <1>3, <1>5, <1>7, CallEnds, CallerKeepsClaims DEF Checked, ClaimInv, CleanedIsAway
<1>8. CASE Assigned(s) /\ ~(UNCHANGED <<row, on>> /\ Ends(s))
  <2>1. call[s].where \in Assignments
    BY <1>1, <1>8 DEF Assigned, Calls, Places
  <2>2. PICK status \in {"cleaned", "integrated", "active", "ready"} : SetStatus(s, status)
    BY <1>6, <1>8
  <2>3. /\ \A a \in Assignments : row'[a].by = row[a].by /\ row'[a].held = row[a].held
        /\ \A a \in Assignments : row'[a].status = IF a = call[s].where THEN status
                                                   ELSE row[a].status
    BY <1>0, <1>8, <2>2, StatusOfRow DEF Statuses
  <2>4. \A a \in Assignments : row'[a].status = row[a].status \/ HoldsClaim(s, a)
    BY <1>0, <1>4, <2>3 DEF HoldsClaim
  <2>5. /\ status = "cleaned" => on'[call[s].where] = None /\ Ends(s)
        /\ \A a \in Assignments : a # call[s].where => on'[a] = on[a]
    <3>1. \A st \in Statuses : SetStatus(s, st) => st = status
      BY <2>1, <2>2 DEF SetStatus, RepoOK, Row
    <3> QED  BY <1>6, <1>8, <2>1, <3>1, AuthorityAssumption DEF RepoOK, Places, Statuses
  <2>6. \A a \in Assignments : row'[a].status \in {"none", "cleaned"} => on'[a] = None
    BY <2>2, <2>3, <2>5 DEF ClaimInv, CleanedIsAway
  <2>7. ASSUME Checked(s)'
        PROVE  (RowOf(s).by = s /\ RowOf(s).status \notin {"none", "cleaned"})'
    <3>1. Goes(s, "landed") /\ Land(s)
      BY <1>2, <2>7, CallEnds DEF Checked
    <3>2. call[s].at \in {"checked", "committed"}
      BY <3>1 DEF Land, MayLand, At
    <3>3. row[call[s].where].by = s
      BY <1>0, <1>8, <3>2 DEF Checked, ClaimInv, CheckedOwner, RowOf
    <3>4. call'[s] = [call[s] EXCEPT !.at = "landed"]
      BY <3>1 DEF Goes, IntentOK
    <3>5. call'[s].where = call[s].where
      BY <1>1, <3>4 DEF Calls
    <3>6. status # "cleaned"
      <4>1. call'[s] # None
        BY <2>7 DEF Checked
      <4> QED  BY <2>5, <4>1, CallEnds
    <3> QED  BY <2>1, <2>2, <2>3, <3>3, <3>5, <3>6 DEF RowOf
  <2> QED  BY <1>3, <1>5, <2>3, <2>4, <2>6, <2>7, CallerKeepsClaims
<1> QED  BY <1>6, <1>7, <1>8

\* What others do while the calls stand still: a row that is claimed keeps
\* its owner and its worktree's status, and is not taken for a hand-off.
LEMMA OthersLeaveClaims ==
  ASSUME IntentOK, ClaimInv, UNCHANGED call,
         \A a \in Assignments : row'[a].held => row[a].held \/ MayClaim(a),
         \A a \in Assignments : \/ row'[a].by = row[a].by
                                \/ row[a].held
                                \/ row[a].status \in {"none", "cleaned"},
         \A a \in Assignments : row'[a].status \in {"none", "cleaned"} =>
                                  row'[a].status = row[a].status /\ on'[a] = None
  PROVE  ClaimInv'
<1>1. \A t \in Sessions, a \in Assignments : HoldsClaim(t, a)' <=> HoldsClaim(t, a)
  BY DEF HoldsClaim
<1>2. ClaimExcludes'
  <2> SUFFICES ASSUME NEW t \in Sessions, NEW a \in Assignments, HoldsClaim(t, a)
               PROVE  ~row'[a].held /\ \A u \in Sessions : HoldsClaim(u, a) => u = t
    BY <1>1 DEF ClaimExcludes
  <2> QED  BY DEF ClaimInv, ClaimExcludes, MayClaim
<1>3. CheckedOwner'
  <2> SUFFICES ASSUME NEW t \in Sessions, Checked(t)
               PROVE  /\ row'[call[t].where].by = t
                      /\ row'[call[t].where].status \notin {"none", "cleaned"}
    BY DEF CheckedOwner, Checked, Assigned, RowOf
  <2>1. call[t].where \in Assignments /\ HoldsClaim(t, call[t].where)
    BY CheckedHolds
  <2>2. /\ ~row[call[t].where].held /\ row[call[t].where].by = t
        /\ row[call[t].where].status \notin {"none", "cleaned"}
    BY <2>1 DEF ClaimInv, ClaimExcludes, CheckedOwner, RowOf
  <2> QED  BY <2>1, <2>2
<1> QED  BY <1>2, <1>3 DEF ClaimInv, CleanedIsAway

\* Others hold, transfer, abandon and reserve rows around the claims.
LEMMA EnvironmentKeepsClaims ==
  ASSUME RepoOK, IntentOK, ClaimInv, Environment
  PROVE  ClaimInv'
<1>0. UNCHANGED call
  BY EnvironmentKeepsIntents
<1>1. ASSUME UNCHANGED row, \A a \in Assignments : on'[a] = on[a]  PROVE ClaimInv'
  BY <1>0, <1>1, OthersLeaveClaims DEF ClaimInv, CleanedIsAway
<1>2. CASE \E place \in Places, file \in Files : Stage(place, file)
  BY <1>1, <1>2 DEF Stage
<1>3. CASE \E place \in Places : PlainCommit(place)
  BY <1>1, <1>3 DEF PlainCommit
<1>4. CASE \E branch \in Branches : Switch(branch)
  BY <1>1, <1>4, AuthorityAssumption DEF Switch, RepoOK, Places
<1>5. CASE \E branch \in AllBranches, file \in Files : RemotePush(branch, file)
  BY <1>1, <1>5 DEF RemotePush
<1>6. CASE \E s \in Sessions, files \in Scopes : Replan(s, files)
  BY <1>1, <1>6 DEF Replan, repo
<1>7. CASE GrowOld
  BY <1>1, <1>7 DEF GrowOld, repo
<1>8. ASSUME NEW a \in Assignments, NEW s \in Sessions, Reserve(a, s)  PROVE ClaimInv'
  <2>1. /\ row' = [row EXCEPT ![a] = ActiveRow(s)] /\ on' = [on EXCEPT ![a] = a]
        /\ row[a].status \in {"none", "cleaned"}
    BY <1>8 DEF Reserve
  <2>2. ActiveRow(s).status = "active" /\ ActiveRow(s).held = FALSE
    BY DEF ActiveRow, NoRow
  <2> QED
    BY <1>0, <2>1, <2>2, OthersLeaveClaims DEF RepoOK, ClaimInv, CleanedIsAway, Places
<1>9. ASSUME NEW a \in Assignments, NEW s \in Sessions, Transfer(a, s)  PROVE ClaimInv'
  <2>1. /\ row' = [row EXCEPT ![a] = [row[a] EXCEPT !.by = s, !.held = FALSE]]
        /\ on' = on /\ row[a].held /\ row[a] \in Row
    BY <1>9 DEF Transfer, repo, RepoOK
  <2>2. row'[a].status = row[a].status /\ row'[a].held = FALSE
    BY <2>1 DEF RepoOK, Row
  <2>3. \A b \in Assignments \ {a} : row'[b] = row[b]
    BY <2>1 DEF RepoOK
  <2> QED  BY <1>0, <2>1, <2>2, <2>3, OthersLeaveClaims DEF ClaimInv, CleanedIsAway
<1>10. ASSUME NEW a \in Assignments, Abandon(a) \/ Resolve(a)  PROVE ClaimInv'
  <2>1. /\ row'[a].held = row[a].held /\ row'[a].by = row[a].by
        /\ row'[a].status \notin {"none", "cleaned"}
        /\ \A b \in Assignments \ {a} : row'[b] = row[b] /\ on'[b] = on[b]
    <3>1. CASE Abandon(a)
      BY <3>1 DEF Abandon, Rescue, RepoOK, Row, Places
    <3>2. CASE Resolve(a)
      <4>1. PICK candidate : row' = [row EXCEPT ![a].candidate = candidate]
        BY <3>2 DEF Resolve
      <4>2. row[a].status = "ready" /\ on' = [on EXCEPT ![a] = a] /\ row[a] \in Row
        BY <3>2 DEF Resolve, RepoOK
      <4> QED  BY <4>1, <4>2 DEF RepoOK, Row, Places
    <3> QED  BY <1>10, <3>1, <3>2
  <2> QED  BY <1>0, <2>1, OthersLeaveClaims DEF ClaimInv, CleanedIsAway
<1>11. ASSUME NEW a \in Assignments, Hold(a) \/ Release(a)  PROVE ClaimInv'
  <2>1. PICK held \in BOOLEAN : /\ row' = [row EXCEPT ![a].held = held] /\ on' = on
                                /\ held => MayClaim(a)
    BY <1>11 DEF Hold, MayHold, Release, repo
  <2>2. /\ row'[a].held = held /\ row'[a].by = row[a].by /\ row'[a].status = row[a].status
        /\ \A b \in Assignments \ {a} : row'[b] = row[b]
    BY <2>1 DEF RepoOK, Row
  <2> QED  BY <1>0, <2>1, <2>2, OthersLeaveClaims DEF ClaimInv, CleanedIsAway
<1> QED
  BY <1>2, <1>3, <1>4, <1>5, <1>6, <1>7, <1>8, <1>9, <1>10, <1>11 DEF Environment

\* No claim is held at first.
LEMMA ClaimInit == Init => ClaimInv
<1> SUFFICES ASSUME Init PROVE ClaimInv
  OBVIOUS
<1>1. \A s \in Sessions : call[s] = None
  BY DEF Init
<1>2. \A a \in Assignments : row[a].status \in {"none", "cleaned"} => on[a] = None
  BY AuthorityAssumption DEF Init, IsLive, Places
<1> QED  BY <1>1, <1>2 DEF ClaimInv, ClaimExcludes, HoldsClaim, CheckedOwner, Checked, CleanedIsAway

\* No step takes a claimed row from its owner.
LEMMA ClaimStep == RepoOK /\ IntentOK /\ IntentOK' /\ ClaimInv /\ [Next]_vars => ClaimInv'
<1> SUFFICES ASSUME RepoOK, IntentOK, IntentOK', ClaimInv, [Next]_vars PROVE ClaimInv'
  OBVIOUS
<1>1. ASSUME UNCHANGED <<call, row, on>>  PROVE ClaimInv'
  BY <1>1, OthersLeaveClaims DEF ClaimInv, CleanedIsAway
<1>2. ASSUME NEW s \in Sessions, Human(s)  PROVE ClaimInv'
  BY <1>1, <1>2 DEF Human, Prompt, repo
<1>3. ASSUME NEW s \in Sessions, Call(s)  PROVE ClaimInv'
  <2>1. CASE \E op \in Ops, w \in Places : Verify(s, op, w)
    BY <2>1, VerifyKeepsClaims
  <2> QED  BY <1>3, <2>1, StepsKeepClaims, LandingsKeepClaims DEF Call
<1>4. CASE \E i \in pending : Expire(i)
  BY <1>1, <1>4 DEF Expire, repo
<1>5. CASE Environment
  BY <1>5, EnvironmentKeepsClaims
<1>6. CASE UNCHANGED vars
  BY <1>1, <1>6 DEF vars, repo
<1> QED  BY <1>2, <1>3, <1>4, <1>5, <1>6 DEF Next

-----------------------------------------------------------------------------
AuthorityInv == RepoOK /\ IntentInv /\ ClaimInv

\* The inductive invariant holds throughout.
THEOREM Invariance == Spec => []AuthorityInv
<1>1. Init => AuthorityInv
  BY RepoInit, IntentInit, ClaimInit DEF AuthorityInv
<1>2. AuthorityInv /\ [Next]_vars => AuthorityInv'
  BY RepoStep, IntentStep, ClaimStep DEF AuthorityInv, IntentInv
<1> QED  BY <1>1, <1>2, PTL DEF Spec

-----------------------------------------------------------------------------
\* The state is well-formed: what a call knows is in its types, and the command
\* it stands on is used up.
THEOREM TypeCorrect == Spec => []TypeOK
<1>1. AuthorityInv => TypeOK
  <2> SUFFICES ASSUME RepoOK, IntentOK, CallsAreAsked PROVE TypeOK
    BY DEF AuthorityInv, IntentInv
  <2>1. refs \in [AllBranches -> Commit] /\ remote \in [AllBranches -> OrNone(Commit)]
    BY DEF RepoOK, History, OrNone
  <2> QED  BY <2>1 DEF TypeOK, RepoOK, IntentOK, CallsAreAsked, Used
<1> QED  BY <1>1, Invariance, PTL

\* Every commit, landing, push and change of ownership is what a human asked
\* for, on what they had before them (verifyDirectGitAuthority).
THEOREM ExactlyAsAsked == Spec => []DoneAsAsked
<1>1. AuthorityInv => DoneAsAsked
  BY DEF AuthorityInv, IntentInv, DeedsAreAsked, DoneAsAsked
<1> QED  BY <1>1, Invariance, PTL

\* A command is good for one deed of each kind (consumeMatchingHumanIntent).
THEOREM OnceAsked == Spec => []OncePerPrompt
<1>1. AuthorityInv => OncePerPrompt
  BY DEF AuthorityInv, IntentInv, EachKindOnce
<1> QED  BY <1>1, Invariance, PTL

\* A commit on top of a descendant is a descendant.
LEMMA AncestorOfLonger ==
  ASSUME NEW c \in History, NEW d \in History, IsAncestor(c, d), NEW t \in SUBSET Files
  PROVE  IsAncestor(c, Append(d, t))
<1>1. c \in Seq(SUBSET Files) /\ d \in Seq(SUBSET Files)
  BY DEF History, Commit
<1>2. Len(c) <= Len(d) /\ SubSeq(c, 1, Len(c)) = SubSeq(d, 1, Len(c))
  BY DEF IsAncestor, IsPrefix
<1>3. /\ Append(d, t) \in Seq(SUBSET Files) /\ Len(Append(d, t)) = Len(d) + 1
      /\ \A i \in 1 .. Len(c) : Append(d, t)[i] = d[i]
  BY <1>1, <1>2
<1>4. SubSeq(Append(d, t), 1, Len(c)) = SubSeq(d, 1, Len(c))
  BY <1>1, <1>2, <1>3
<1> QED  BY <1>1, <1>2, <1>3, <1>4 DEF IsAncestor, IsPrefix

\* A push from the lane without an assignment only adds to the branch of
\* origin: the proof of it is in the key of the command (IsKeyOf), and the
\* lease holds the push to the remote of that key.
THEOREM LanePushesAdd == Spec => []PushIsFastForward
<1>1. AuthorityInv => PushIsFastForward
  <2> SUFFICES ASSUME AuthorityInv, NEW n \in DOMAIN done, done[n].kind = "push",
                      done[n].where = Primary, done[n].from # None
               PROVE  IsAncestor(done[n].from, done[n].to)
    BY DEF PushIsFastForward
  <2> DEFINE d == done[n]
             q == asked[d.id]
  <2>1. AsAsked(d, q) /\ d.id \in DOMAIN asked /\ d \in Deeds
    BY DEF AuthorityInv, IntentInv, DeedsAreAsked, Used, IntentOK
  <2>2. q \in Asks
    BY <2>1 DEF AuthorityInv, IntentInv, IntentOK
  <2>3. d.kind = "push" /\ d.where = Primary /\ d.from # None
    OBVIOUS
  <2> HIDE DEF q, d
  <2>4. /\ q.where = Primary /\ Pushes(q.op) /\ d.branch = WantedBranch(q)
        /\ d.from = q.saw.remote[d.branch] /\ d.to = WantedPush(q)
    BY <2>1, <2>3 DEF AsAsked
  <2>5. IsKeyOf(q)
    BY <2>2, <2>4 DEF Asks, Pushes
  <2>6. q.key.remote = d.from /\ q.key.head = q.saw.head /\ IsAncestor(d.from, q.saw.head)
    BY <2>3, <2>4, <2>5 DEF IsKeyOf
  <2>7. d.from \in History /\ q.saw.head \in History
    BY <2>1, <2>3, <2>5 DEF Deeds, OrNone, IsKeyOf
  <2>8. Scoped(q.saw.head, q.saw.staged, q.saw.scope) \in SUBSET Files
    <3>1. TreeOf(q.saw.head) \in SUBSET Files
      BY <2>7, Trees
    <3>2. q.saw.staged \in SUBSET Files
      BY <2>2 DEF Asks, Sights
    <3> QED  BY <3>1, <3>2 DEF Scoped
  <2>9. IsAncestor(d.from, d.to)
    <3>1. CASE q.op = "push"
      BY <2>4, <2>6, <3>1 DEF WantedPush
    <3>2. CASE q.op # "push"
      BY <2>4, <2>6, <2>7, <2>8, <3>2, AncestorOfLonger DEF WantedPush, Wanted
    <3> QED  BY <3>1, <3>2
  <2> QED  BY <2>9 DEF d
<1> QED  BY <1>1, Invariance, PTL

\* A command is not voided by what it does not depend on: its key is made of
\* nothing else.
THEOREM HonouredPrompts == Spec => []PromptIsHonoured
<1>1. AuthorityInv => PromptIsHonoured
  <2> SUFFICES ASSUME AuthorityInv, NEW i \in pending, StillAsSeen(i),
                      MayObserve(asked[i].by, asked[i].op, asked[i].where),
                      asked[i].key.mode = ModeSeen(asked[i].by, asked[i].op, asked[i].where),
                      asked[i].op \in CheckoutOps =>
                        row[asked[i].where].status = asked[i].key.status
               PROVE  asked[i].key = Key(asked[i].by, asked[i].op, asked[i].where)
    BY DEF PromptIsHonoured
  <2> DEFINE q == asked[i]
             s == q.by
             op == q.op
             w == q.where
             path == Workplace(s, op, w)
             k == Seen(s, op, w)
  <2>1. q \in Asks
    BY DEF AuthorityInv, IntentInv, IntentOK
  <2>2. /\ s \in Sessions /\ op \in Ops /\ w \in Places /\ q.key \in Keys
        /\ MayObserve(s, op, w) /\ q.key.mode = ModeSeen(s, op, w)
        /\ op \in CheckoutOps => row[w].status = q.key.status
    BY <2>1 DEF Asks
  <2>3. CASE op = "close-out"
    BY <2>1, <2>3 DEF Asks, IsCloseOutKey, Key
  <2>4. CASE op # "close-out"
    <3>1. /\ path \in Places /\ on[path] \in AllBranches /\ Tip(path) \in History
          /\ w = Primary => op \in GitOps
          /\ k \in Keys /\ k.branch = on[path] /\ k.head = Tip(path)
          /\ k.mode = ModeSeen(s, op, w)
          /\ k.tree = (IF ~Commits(op) THEN None
                       ELSE IF w = Primary THEN Scoped(Tip(path), index[path], scope[s])
                       ELSE index[path])
          /\ k.remote = (IF Pushes(op)
                         THEN remote[IF op = "commit-and-push" /\ w # Primary THEN Target
                                     ELSE on[path]]
                         ELSE None)
          /\ k.status = (IF op \in CheckoutOps THEN row[w].status ELSE None)
          /\ k.scope = (IF Commits(op) /\ w = Primary THEN scope[s] ELSE None)
      BY <2>2, Observed DEF AuthorityInv
    <3>2. /\ on[path] = q.saw.branch /\ Tip(path) = q.saw.head
          /\ Commits(op) => IF w = Primary
                            THEN /\ scope[s] = q.saw.scope
                                 /\ index[path] \cap scope[s] = q.saw.staged \cap scope[s]
                            ELSE index[path] = q.saw.staged
          /\ Pushes(op) => remote[WantedBranch(q)] = q.saw.remote[WantedBranch(q)]
      BY <2>4 DEF StillAsSeen
    <3>3. IsKeyOf(q)
      BY <2>1, <2>4 DEF Asks
    <3>4. WantedBranch(q) = IF op = "commit-and-push" /\ w # Primary THEN Target ELSE on[path]
      BY <3>2 DEF WantedBranch
    <3> HIDE DEF k, path
    <3>5. k.tree = q.key.tree
      BY <3>1, <3>2, <3>3 DEF IsKeyOf, Scoped
    <3>6. k.remote = q.key.remote
      BY <3>1, <3>2, <3>3, <3>4 DEF IsKeyOf
    <3>7. k.status = q.key.status
      BY <2>2, <3>1, <3>3 DEF IsKeyOf
    <3>8. k.scope = q.key.scope
      BY <3>1, <3>2, <3>3 DEF IsKeyOf
    <3>9. k.mode = q.key.mode /\ k.branch = q.key.branch /\ k.head = q.key.head
      BY <2>2, <3>1, <3>2, <3>3 DEF IsKeyOf
    <3>10. k = q.key
      BY <2>2, <3>1, <3>5, <3>6, <3>7, <3>8, <3>9 DEF Keys
    <3> QED  BY <2>4, <3>10 DEF Key, k
  <2> QED  BY <2>3, <2>4
<1> QED  BY <1>1, Invariance, PTL

\* Deeds are done in steps of a call, by who owns the row at that moment.
LEMMA DeedByOwner ==
  ASSUME AuthorityInv, [Next]_vars, done' # done, NEW d, d = Last(done'), d.where # Primary
  PROVE  row[d.where].by = d.by
<1>1. PICK s \in Sessions :
        CreateCommit(s) \/ Land(s) \/ Send(s) \/ TakePrimary(s) \/ ReturnPrimary(s)
  <2>1. ASSUME NEW s \in Sessions, Human(s)  PROVE FALSE
    BY <2>1 DEF Human, Prompt
  <2>2. ~Environment
    BY EnvironmentKeepsIntents
  <2>3. ~\E i \in pending : Expire(i)
    BY DEF Expire
  <2>4. done = done' \/ ~UNCHANGED vars
    BY DEF vars
  <2>5. PICK s \in Sessions : Call(s)
    BY <2>1, <2>2, <2>3, <2>4 DEF Next
  <2> QED
    BY <2>5 DEF Call, Verify, Claim, Stop, CheckLaneCommit, CheckCommit, CheckLand, PutOff,
                CloseOutLanded, CheckPush
<1>2. call[s] # None /\ call[s] \in Calls
  <2>1. call[s] # None
    BY <1>1 DEF CreateCommit, Land, Send, TakePrimary, ReturnPrimary, At
  <2> QED  BY <2>1, MadeIsCommit DEF AuthorityInv, IntentInv
<1>3. PICK kind, branch, from, to : Did(s, kind, branch, from, to)
  BY <1>1 DEF CreateCommit, Land, Send, TakePrimary, ReturnPrimary
<1>4. d.by = s /\ d.where = call[s].where
  <2> DEFINE e == [id |-> call[s].id, by |-> s, where |-> call[s].where, kind |-> kind,
                   branch |-> branch, from |-> from, to |-> to]
  <2>1. done' = Append(done, e) /\ e.by = s /\ e.where = call[s].where
    BY <1>3 DEF Did
  <2> HIDE DEF e
  <2>2. Len(done) \in Nat /\ Len(Append(done, e)) = Len(done) + 1
        /\ Append(done, e)[Len(done) + 1] = e
    BY DEF AuthorityInv, IntentInv, IntentOK
  <2>3. Last(done') = e
    BY <2>1, <2>2 DEF Last
  <2> QED  BY <2>1, <2>3
<1>5. Checked(s)
  <2>1. call[s].at \in {"checked", "committed", "sending"} \/ call[s].op \in CheckoutOps
    BY <1>1 DEF CreateCommit, Land, MayLand, Send, TakePrimary, ReturnPrimary, At, CheckoutOps
  <2> QED  BY <1>2, <1>4, <2>1 DEF Checked, Assigned
<1> QED  BY <1>4, <1>5 DEF AuthorityInv, ClaimInv, CheckedOwner, RowOf

\* A deed on an assignment is done by its owner: who does one has looked at
\* the row under a claim, and a claimed row is not handed over.
THEOREM OwnersAct == Spec => OwnerActs
<1>1. AuthorityInv /\ [Next]_vars =>
        [done' # done => LET d == Last(done') IN d.where # Primary => row[d.where].by = d.by]_vars
  BY DeedByOwner
<1> QED  BY <1>1, Invariance, PTL DEF Spec, OwnerActs

\* Only a look at a stale owner, or the owner itself, ends an ownership.
LEMMA OwnerStays ==
  ASSUME RepoOK, [Next]_vars, owner # None,
         owner' = None \/ [owner' EXCEPT !.old = FALSE] # [owner EXCEPT !.old = FALSE]
  PROVE  \/ IsStale(owner)
         \/ At(owner.by, {"claimed"}) /\ call[owner.by].op = "return-to-managed-worktree"
<1>0. owner \in [by : Sessions, of : Assignments, old : BOOLEAN] /\ owner' # owner
  BY DEF RepoOK, OrNone
<1>1. ASSUME NEW op, owner' = OwnerAfterLook(op)  PROVE IsStale(owner)
  BY <1>0, <1>1 DEF OwnerAfterLook, Reaped
<1>2. ASSUME NEW s \in Sessions, Human(s)  PROVE IsStale(owner)
  BY <1>1, <1>2 DEF Human, Prompt
<1>3. ASSUME NEW s \in Sessions, Call(s)
      PROVE  \/ IsStale(owner)
             \/ At(owner.by, {"claimed"}) /\ call[owner.by].op = "return-to-managed-worktree"
  <2>1. CASE \E op \in Ops, w \in Places : Verify(s, op, w)
    BY <1>1, <2>1 DEF Verify
  <2>2. CASE TakePrimary(s)
    BY <1>0, <2>2 DEF TakePrimary, MayAcquire, Reaped
  <2>3. CASE ReturnPrimary(s)
    BY <2>3 DEF ReturnPrimary, Owns
  <2> QED
    BY <1>0, <1>3, <2>1, <2>2, <2>3
       DEF Call, Claim, Stop, CheckLaneCommit, CheckCommit, CreateCommit, CheckLand, Land,
           PutOff, CloseOutLanded, CheckPush, Send
<1>4. ~\E i \in pending : Expire(i)
  BY <1>0 DEF Expire
<1>5. ~Environment
  <2>1. ~GrowOld
    <3> SUFFICES ASSUME GrowOld PROVE FALSE
      OBVIOUS
    <3>1. owner' = [owner EXCEPT !.old = TRUE]
      BY DEF GrowOld
    <3>2. owner' \in [by : Sessions, of : Assignments, old : BOOLEAN]
      BY <1>0, <3>1
    <3>3. owner' # None
      BY <3>2, AuthorityAssumption
    <3>4. [owner' EXCEPT !.old = FALSE] = [owner EXCEPT !.old = FALSE]
      BY <1>0, <3>1
    <3> QED  BY <3>3, <3>4
  <2> QED
    BY <1>0, <2>1 DEF Environment, Stage, PlainCommit, Switch, RemotePush, Replan, Reserve,
                      Abandon, Resolve, Hold, Transfer, Release
<1>6. ~UNCHANGED vars
  BY <1>0 DEF vars
<1> QED  BY <1>2, <1>3, <1>4, <1>5, <1>6 DEF Next

\* The primary checkout is not taken from an owner that is not stale.
THEOREM OwnersStay == Spec => OwnerIsNotOusted
<1>1. AuthorityInv /\ [Next]_vars =>
        [owner # None
           /\ (owner' = None
                 \/ [owner' EXCEPT !.old = FALSE] # [owner EXCEPT !.old = FALSE])
         => \/ IsStale(owner)
            \/ /\ At(owner.by, {"claimed"})
               /\ call[owner.by].op = "return-to-managed-worktree"]_vars
  BY OwnerStays DEF AuthorityInv
<1> QED  BY <1>1, Invariance, PTL DEF Spec, OwnerIsNotOusted
=============================================================================
