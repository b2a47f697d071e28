---------------------------- MODULE GitHistory ----------------------------
(***************************************************************************)
(* The part of git the workspace manager relies on, as it uses it through  *)
(* git.ts: linear histories, ancestry, merge bases, the replay of          *)
(* "git rebase --onto", and the digest of "git diff --binary --full-index" *)
(* that integration.ts compares to tell whether a replay changed what was  *)
(* reviewed.                                                               *)
(*                                                                         *)
(* A commit is the sequence of the patches from the root to it.  A patch   *)
(* is a change together with the way it got there: as it was written, or   *)
(* reworked by whoever resolved a conflict.  The content of a change is    *)
(* abstracted to two facts about a pair of changes: they touch a common    *)
(* file (Near), so that each alters the blob ids the other's diff shows,   *)
(* or they touch the same lines (Clash), so that a replay of one over the  *)
(* other stops.                                                            *)
(***************************************************************************)
EXTENDS Integers, SequencesExt

CONSTANTS
  Changes,   \* the changes people make to the files of the repository
  Near,      \* Near[c]: the changes that touch a file c touches
  Clash      \* Clash[c]: the changes that touch the lines c touches

ASSUME ContentAssumption ==
  /\ Near \in [Changes -> SUBSET Changes]
  /\ Clash \in [Changes -> SUBSET Changes]
  /\ \A c \in Changes : Clash[c] \subseteq Near[c]

Patch == [of : Changes, reworked : BOOLEAN]
Written(c) == [of |-> c, reworked |-> FALSE]
Reworked(p) == [p EXCEPT !.reworked = TRUE]

Root == << >>
ChangesOf(commit) == {commit[i].of : i \in DOMAIN commit}

\* git merge-base --is-ancestor
IsAncestor(old, new) == IsPrefix(old, new)

\* git merge-base
MergeBase(s, t) == LongestCommonPrefix({s, t})

(***************************************************************************)
(* The digest of the diff between two commits: which patches it adds and   *)
(* which it takes away, each with the changes of the base that share a     *)
(* file with it, since their blob ids are part of the diff.                *)
(***************************************************************************)
Effect(base, head) ==
  LET PatchesOf(s) == {s[i] : i \in DOMAIN s}
      InContext(ps) == {<<p, Near[p.of] \cap ChangesOf(base)>> : p \in ps}
  IN [adds  |-> InContext(PatchesOf(head) \ PatchesOf(base)),
      drops |-> InContext(PatchesOf(base) \ PatchesOf(head))]

(***************************************************************************)
(* git rebase --onto onto base, run with head checked out.  The patches    *)
(* above the base are replayed in order, those already present in onto     *)
(* become empty and are dropped.  A patch that clashes with a change its   *)
(* author had not seen stops the replay; the state of a stopped replay is  *)
(* what git keeps in rebase-merge.                                         *)
(***************************************************************************)
NoReplay == [orig |-> Root, done |-> Root, left |-> Root]

\* The entries of a history at the given positions, in order.
AtPositions(s, kept) ==
  LET Rank(i) == Cardinality({j \in kept : j <= i})
  IN [k \in 1..Cardinality(kept) |-> s[CHOOSE i \in kept : Rank(i) = k]]

ReplayPlan(onto, base, head) ==
  LET above == Len(MergeBase(base, head)) + 1 .. Len(head)
      missing == {i \in above : head[i].of \notin ChangesOf(onto)}
  IN [orig |-> head, done |-> onto, left |-> AtPositions(head, missing)]

\* The positions in left at which the replay stops.
Stops(r) ==
  {i \in DOMAIN r.left :
     Clash[r.left[i].of] \cap (ChangesOf(r.done) \ ChangesOf(r.orig)) # {}}

\* Replays as far as it goes: to the end, or up to the first clash.
Replayed(r) ==
  LET stop == IF Stops(r) = {} THEN Len(r.left) + 1
              ELSE CHOOSE i \in Stops(r) : \A j \in Stops(r) : i <= j
  IN [r EXCEPT !.done = @ \o SubSeq(r.left, 1, stop - 1),
               !.left = SubSeq(r.left, stop, Len(r.left))]

Complete(r) == r.left = Root

\* The replay after the patch it stopped at got the given resolution: a
\* sequence with the patch that takes its place, or an empty one.
Resolved(r, resolution) ==
  Replayed([r EXCEPT !.done = @ \o resolution, !.left = Tail(r.left)])
=============================================================================
