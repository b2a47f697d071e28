------------------------ MODULE FinalizationProofs ------------------------
(***************************************************************************)
(* For any assignments, changes, ways to begin and numbers of crashes: the *)
(* target is advanced only by what was reviewed, from the commit the lock  *)
(* names; an integrated row keeps its proof; what is owed to the remote is *)
(* in the target; and, where a row that landed is reconciled before it is  *)
(* given another HEAD, an advance can always be proved and acknowledged,   *)
(* the operator's checkout follows it, and no other assignment comes in    *)
(* between: Finalization implements Landing.  Where no worker edits while  *)
(* a handler of its own worktree runs, no work is lost; and no obligation  *)
(* to push ends before the remote has its commit.                          *)
(*                                                                         *)
(* First come the facts about histories: merge bases, what a replay leaves *)
(* and that it only adds.  The invariant, Sound, says of each assignment   *)
(* how its worktree, its row, its debt, its refs, the lock and the place   *)
(* of its handler fit together; a step of one assignment keeps the others  *)
(* as they were (MoveKeepsOthers), so each action is treated by what it    *)
(* does to its own (Keeps).  Lands, on top of it, says where an advance    *)
(* that is not recorded yet can be found; Kept, where every change is; and *)
(* Paid, why neither the remote nor the ledger forgets what is owed.       *)
(***************************************************************************)
EXTENDS Finalization, SequenceTheorems, FiniteSetTheorems, WellFoundedInduction, TLAPS

-----------------------------------------------------------------------------
(* Histories: ancestry, merge bases and replays.                            *)

\* Every set of naturals that is not empty has a least element: the sets
\* {0..k} are finite, and strict inclusion of finite sets is well founded.
LEMMA LeastNatural ==
  ASSUME NEW T, T \subseteq Nat, T # {}
  PROVE  \E m \in T : \A k \in T : m <= k
<1>1. PICK n \in T : TRUE
  OBVIOUS
<1> DEFINE Below == {k \in T : k <= n}
           Initial == {0..k : k \in Below}
           Order == StrictSubsetOrdering(0..n)
<1>2. n \in Nat /\ n \in Below
  OBVIOUS
<1>3. IsWellFoundedOn(Order, FiniteSubsetsOf(0..n))
  BY FS_StrictSubsetOrderingWellFounded, Zenon
<1>4. Initial \subseteq FiniteSubsetsOf(0..n)
  <2>1. IsFiniteSet(0..n)
    BY <1>2, FS_Interval
  <2>2. FiniteSubsetsOf(0..n) = SUBSET (0..n)
    BY <2>1, FS_FiniteSubsetsOfFinite, Zenon
  <2>3. \A k \in Below : 0..k \subseteq 0..n
    BY <1>2
  <2> QED
    BY <2>2, <2>3
<1>5. Initial # {}
  BY <1>2
<1>6. PICK X \in Initial : \A Y \in Initial : ~(<<Y, X>> \in Order)
  <2> HIDE DEF Initial, Order
  <2> QED
    BY <1>3, <1>4, <1>5, WFMin, SMT
<1>7. PICK m \in Below : X = 0..m
  OBVIOUS
<1>8. ASSUME NEW k \in T, k < m
      PROVE  FALSE
  <2>1. k \in Below
    BY <1>8
  <2>2. 0..k \in Initial
    BY <2>1
  <2>3. 0..k \subseteq 0..m /\ m \in 0..m /\ m \notin 0..k
    BY <1>8
  <2>4. 0..k \in SUBSET (0..n) /\ 0..m \in SUBSET (0..n)
    BY <2>1
  <2>5. <<0..k, 0..m>> \in Order
    BY <2>3, <2>4 DEF StrictSubsetOrdering
  <2> QED
    BY <1>6, <1>7, <2>2, <2>5
<1> QED
  BY <1>8

\* A bounded set of naturals that is not empty has a greatest element.
LEMMA GreatestNatural ==
  ASSUME NEW T, T \subseteq Nat, T # {}, NEW n \in Nat, \A k \in T : k <= n
  PROVE  \E m \in T : \A k \in T : k <= m
<1> DEFINE D == {d \in Nat : \E k \in T : d = n - k}
<1>1. \A k \in T : n - k \in D
  OBVIOUS
<1>2. PICK d \in D : \A e \in D : d <= e
  <2>1. D \subseteq Nat /\ D # {}
    BY <1>1
  <2> HIDE DEF D
  <2> QED
    BY <2>1, LeastNatural
<1>3. PICK m \in T : d = n - m
  OBVIOUS
<1>4. ASSUME NEW k \in T
      PROVE  k <= m
  <2>1. n - m <= n - k
    BY <1>1, <1>2, <1>3
  <2>2. k \in Nat /\ m \in Nat
    OBVIOUS
  <2> HIDE DEF D
  <2> QED
    BY <2>1, <2>2
<1> QED
  BY <1>4

LEMMA AncestorIs ==
  ASSUME NEW s \in Commits, NEW t \in Commits
  PROVE  IsAncestor(s, t) <=> Len(s) <= Len(t) /\ \A i \in 1..Len(s) : s[i] = t[i]
<1>1. Len(s) \in Nat /\ Len(t) \in Nat /\ s \in Seq(Patch) /\ t \in Seq(Patch)
  BY LenProperties DEF Commits
<1>2. SubSeq(s, 1, Len(s)) = s
  BY <1>1, SubSeqFull
<1>3. ASSUME Len(s) <= Len(t)
      PROVE  /\ SubSeq(t, 1, Len(s)) \in Seq(Patch)
             /\ Len(SubSeq(t, 1, Len(s))) = Len(s)
             /\ \A i \in 1..Len(s) : SubSeq(t, 1, Len(s))[i] = t[i]
  BY <1>1, <1>3
<1>4. ASSUME Len(s) <= Len(t), \A i \in 1..Len(s) : s[i] = t[i]
      PROVE  s = SubSeq(t, 1, Len(s))
  <2> DEFINE u == SubSeq(t, 1, Len(s))
  <2>1. u \in Seq(Patch) /\ Len(u) = Len(s) /\ \A i \in 1..Len(s) : s[i] = u[i]
    BY <1>3, <1>4
  <2> HIDE DEF u
  <2>2. s = u
    BY <1>1, <2>1, SeqEqual
  <2> QED
    BY <2>2 DEF u
<1>5. IsAncestor(s, t) <=> Len(s) <= Len(t) /\ s = SubSeq(t, 1, Len(s))
  BY <1>2 DEF IsAncestor, IsPrefix
<1> QED
  BY <1>1, <1>3, <1>4, <1>5

LEMMA CommitFacts ==
  ASSUME NEW s \in Commits
  PROVE  /\ Len(s) \in Nat /\ DOMAIN s = 1..Len(s)
         /\ \A i \in 1..Len(s) : s[i] \in Patch /\ s[i].of \in Changes
<1>1. Len(s) \in Nat /\ DOMAIN s = 1..Len(s) /\ \A i \in 1..Len(s) : s[i] \in Patch
  BY LenProperties, ElementOfSeq DEF Commits
<1> QED
  BY <1>1 DEF Patch

LEMMA RootFacts ==
  /\ Root \in Commits /\ Len(Root) = 0 /\ ChangesOf(Root) = {}
  /\ \A s \in Commits : IsAncestor(Root, s) /\ (Len(s) = 0 => s = Root)
<1>1. Root \in Commits /\ Len(Root) = 0 /\ \A s \in Commits : Len(s) = 0 => s = Root
  BY EmptySeq DEF Commits, Root
<1>2. \A s \in Commits : IsAncestor(Root, s)
  BY <1>1, AncestorIs, CommitFacts
<1>3. ChangesOf(Root) = {}
  BY DEF ChangesOf, Root
<1> QED
  BY <1>1, <1>2, <1>3

LEMMA AncestorReflexive ==
  ASSUME NEW s \in Commits
  PROVE  IsAncestor(s, s)
  BY AncestorIs, CommitFacts

LEMMA AncestorTransitive ==
  ASSUME NEW s \in Commits, NEW t \in Commits, NEW u \in Commits,
         IsAncestor(s, t), IsAncestor(t, u)
  PROVE  IsAncestor(s, u)
<1>1. Len(s) \in Nat /\ Len(t) \in Nat /\ Len(u) \in Nat
  BY CommitFacts
<1>2. /\ Len(s) <= Len(t) /\ \A i \in 1..Len(s) : s[i] = t[i]
      /\ Len(t) <= Len(u) /\ \A i \in 1..Len(t) : t[i] = u[i]
  BY AncestorIs
<1>3. Len(s) <= Len(u) /\ \A i \in 1..Len(s) : s[i] = u[i]
  BY <1>1, <1>2
<1> QED
  BY <1>3, AncestorIs

LEMMA AncestorAntisymmetric ==
  ASSUME NEW s \in Commits, NEW t \in Commits, IsAncestor(s, t), IsAncestor(t, s)
  PROVE  s = t
<1>1. Len(s) \in Nat /\ Len(t) \in Nat /\ s \in Seq(Patch) /\ t \in Seq(Patch)
  BY CommitFacts DEF Commits
<1>2. Len(s) = Len(t) /\ \A i \in 1..Len(s) : s[i] = t[i]
  BY <1>1, AncestorIs
<1> QED
  BY <1>1, <1>2, SeqEqual

LEMMA AncestorsCompare ==
  ASSUME NEW s \in Commits, NEW t \in Commits, NEW u \in Commits,
         IsAncestor(s, u), IsAncestor(t, u)
  PROVE  IsAncestor(s, t) \/ IsAncestor(t, s)
<1>1. Len(s) \in Nat /\ Len(t) \in Nat
  BY CommitFacts
<1>2. (\A i \in 1..Len(s) : s[i] = u[i]) /\ (\A i \in 1..Len(t) : t[i] = u[i])
  BY AncestorIs
<1> QED
  BY <1>1, <1>2, AncestorIs

LEMMA AncestorChanges ==
  ASSUME NEW s \in Commits, NEW t \in Commits, IsAncestor(s, t)
  PROVE  ChangesOf(s) \subseteq ChangesOf(t)
<1>1. Len(s) \in Nat /\ Len(t) \in Nat /\ DOMAIN s = 1..Len(s) /\ DOMAIN t = 1..Len(t)
  BY CommitFacts
<1>2. Len(s) <= Len(t) /\ \A i \in 1..Len(s) : s[i] = t[i]
  BY AncestorIs
<1> QED
  BY <1>1, <1>2 DEF ChangesOf

LEMMA ChangesOfCommit ==
  ASSUME NEW s \in Commits
  PROVE  ChangesOf(s) \subseteq Changes
  BY CommitFacts DEF ChangesOf

LEMMA WrittenFacts ==
  ASSUME NEW c \in Changes
  PROVE  Written(c) \in Patch /\ Written(c).of = c
  BY DEF Written, Patch

LEMMA AppendFacts ==
  ASSUME NEW s \in Commits, NEW p \in Patch
  PROVE  /\ Append(s, p) \in Commits /\ IsAncestor(s, Append(s, p))
         /\ ChangesOf(Append(s, p)) = ChangesOf(s) \cup {p.of}
<1> DEFINE t == Append(s, p)
<1>1. /\ t \in Commits /\ Len(t) = Len(s) + 1
      /\ \A i \in 1..Len(s) : t[i] = s[i]
      /\ t[Len(s) + 1] = p
  BY AppendProperties DEF Commits
<1> HIDE DEF t
<1>2. Len(s) \in Nat /\ DOMAIN s = 1..Len(s) /\ DOMAIN t = 1..Len(t)
  BY <1>1, CommitFacts
<1>3. IsAncestor(s, t)
  BY <1>1, <1>2, AncestorIs
<1>4. ChangesOf(t) = ChangesOf(s) \cup {p.of}
  BY <1>1, <1>2 DEF ChangesOf
<1> QED
  BY <1>1, <1>3, <1>4 DEF t

LEMMA ConcatFacts ==
  ASSUME NEW s \in Commits, NEW t \in Commits
  PROVE  /\ s \o t \in Commits /\ IsAncestor(s, s \o t)
         /\ ChangesOf(s \o t) = ChangesOf(s) \cup ChangesOf(t)
<1> DEFINE u == s \o t
<1>1. /\ u \in Commits /\ Len(u) = Len(s) + Len(t)
      /\ \A i \in 1..Len(s) + Len(t) : u[i] = IF i <= Len(s) THEN s[i] ELSE t[i - Len(s)]
  BY ConcatProperties DEF Commits
<1> HIDE DEF u
<1>2. /\ Len(s) \in Nat /\ Len(t) \in Nat
      /\ DOMAIN s = 1..Len(s) /\ DOMAIN t = 1..Len(t) /\ DOMAIN u = 1..Len(u)
  BY <1>1, CommitFacts
<1>3. IsAncestor(s, u)
  BY <1>1, <1>2, AncestorIs
<1>4. ChangesOf(u) = ChangesOf(s) \cup ChangesOf(t)
  <2>1. \A i \in 1..Len(s) : u[i] = s[i]
    BY <1>1, <1>2
  <2>2. \A i \in 1..Len(t) : i + Len(s) \in 1..Len(u) /\ u[i + Len(s)] = t[i]
    BY <1>1, <1>2
  <2>3. \A i \in 1..Len(u) : i \in 1..Len(s) \/ i - Len(s) \in 1..Len(t)
    BY <1>1, <1>2
  <2>4. ChangesOf(u) \subseteq ChangesOf(s) \cup ChangesOf(t)
    BY <1>1, <1>2, <2>3 DEF ChangesOf
  <2>5. ChangesOf(s) \subseteq ChangesOf(u)
    BY <1>1, <1>2, <1>3, AncestorChanges
  <2>6. ChangesOf(t) \subseteq ChangesOf(u)
    BY <1>2, <2>2 DEF ChangesOf
  <2> QED
    BY <2>4, <2>5, <2>6
<1> QED
  BY <1>1, <1>3, <1>4 DEF u

LEMMA SubSeqFacts ==
  ASSUME NEW s \in Commits, NEW m \in Nat \ {0}, NEW n \in Nat, n <= Len(s)
  PROVE  /\ SubSeq(s, m, n) \in Commits
         /\ ChangesOf(SubSeq(s, m, n)) = {s[i].of : i \in m..n}
         /\ m = 1 => IsAncestor(SubSeq(s, m, n), s)
<1> DEFINE u == SubSeq(s, m, n)
<1>1. Len(s) \in Nat /\ \A i \in 1..Len(s) : s[i] \in Patch
  BY CommitFacts
<1>2. /\ u \in Commits /\ Len(u) = IF m <= n THEN n - m + 1 ELSE 0
      /\ \A i \in 1..n - m + 1 : u[i] = s[m + i - 1]
  <2>1. \A i \in m..n : s[i] \in Patch
    BY <1>1
  <2> QED
    BY <2>1, SubSeqProperties DEF Commits
<1> HIDE DEF u
<1>3. Len(u) \in Nat /\ DOMAIN u = 1..Len(u)
  BY <1>2, CommitFacts
<1>4. \A i \in 1..Len(u) : u[i] = s[m + i - 1] /\ m + i - 1 \in m..n
  BY <1>2, <1>3
<1>5. \A i \in m..n : i - m + 1 \in 1..Len(u) /\ u[i - m + 1] = s[i]
  BY <1>1, <1>2
<1>6. ChangesOf(u) = {s[i].of : i \in m..n}
  <2>1. ASSUME NEW c \in ChangesOf(u)
        PROVE  c \in {s[i].of : i \in m..n}
    BY <1>3, <1>4 DEF ChangesOf
  <2>2. ASSUME NEW i \in m..n
        PROVE  s[i].of \in ChangesOf(u)
    <3>1. i - m + 1 \in DOMAIN u /\ u[i - m + 1] = s[i]
      BY <1>3, <1>5
    <3> QED
      BY <3>1 DEF ChangesOf
  <2> QED
    BY <2>1, <2>2
<1>7. m = 1 => IsAncestor(u, s)
  BY <1>1, <1>2, <1>3, <1>4, AncestorIs
<1> QED
  BY <1>2, <1>6, <1>7 DEF u

LEMMA CommonAncestors ==
  ASSUME NEW s \in Commits, NEW t \in Commits
  PROVE  CommonPrefixes({s, t}) = {u \in Commits : IsAncestor(u, s) /\ IsAncestor(u, t)}
<1>1. ASSUME NEW v \in Commits
      PROVE  Prefixes(v) = {u \in Commits : IsAncestor(u, v)}
  <2>1. Len(v) \in Nat
    BY CommitFacts
  <2>2. ASSUME NEW l \in 0..Len(v)
        PROVE  SubSeq(v, 1, l) \in Commits /\ IsAncestor(SubSeq(v, 1, l), v)
    BY <2>1, SubSeqFacts
  <2>3. ASSUME NEW u \in Commits, IsAncestor(u, v)
        PROVE  Len(u) \in 0..Len(v) /\ u = SubSeq(v, 1, Len(u))
    <3>1. Len(u) \in Nat /\ SubSeq(u, 1, Len(u)) = u
      BY CommitFacts, SubSeqFull DEF Commits
    <3>2. Len(u) <= Len(v) /\ SubSeq(u, 1, Len(u)) = SubSeq(v, 1, Len(u))
      BY <2>3 DEF IsAncestor, IsPrefix
    <3> QED
      BY <2>1, <3>1, <3>2
  <2> QED
    BY <2>2, <2>3 DEF Prefixes
<1>2. \A u, v : IsPrefix(u, v) <=> IsAncestor(u, v)
  BY DEF IsAncestor
<1>3. UNION {Prefixes(v) : v \in {s, t}} = Prefixes(s) \cup Prefixes(t)
  OBVIOUS
<1> QED
  BY <1>1, <1>2, <1>3 DEF CommonPrefixes

\* The merge base is the longest commit that both histories contain.
LEMMA MergeBaseFacts ==
  ASSUME NEW s \in Commits, NEW t \in Commits
  PROVE  /\ MergeBase(s, t) \in Commits
         /\ IsAncestor(MergeBase(s, t), s) /\ IsAncestor(MergeBase(s, t), t)
         /\ \A u \in Commits : IsAncestor(u, s) /\ IsAncestor(u, t)
              => Len(u) <= Len(MergeBase(s, t))
<1> DEFINE Common == {u \in Commits : IsAncestor(u, s) /\ IsAncestor(u, t)}
           Longest(u) == \A v \in Common : Len(v) <= Len(u)
           T == {Len(u) : u \in Common}
<1>1. Root \in Common
  BY RootFacts
<1>2. Len(s) \in Nat /\ \A u \in Common : Len(u) \in Nat /\ Len(u) <= Len(s)
  BY CommitFacts, AncestorIs
<1>3. PICK m \in T : \A k \in T : k <= m
  <2>1. T \subseteq Nat /\ T # {} /\ \A k \in T : k <= Len(s)
    BY <1>1, <1>2
  <2> HIDE DEF T
  <2> QED
    BY <1>2, <2>1, GreatestNatural
<1>4. \E u \in Common : Longest(u)
  BY <1>3
<1>5. MergeBase(s, t) = CHOOSE u \in Common : Longest(u)
  BY CommonAncestors DEF MergeBase, LongestCommonPrefix
<1>6. MergeBase(s, t) \in Common /\ Longest(MergeBase(s, t))
  <2> HIDE DEF Common, Longest
  <2> QED
    BY <1>4, <1>5
<1> QED
  BY <1>6

LEMMA MergeBaseOfAncestor ==
  ASSUME NEW s \in Commits, NEW t \in Commits, IsAncestor(s, t)
  PROVE  MergeBase(s, t) = s
<1>1. Len(s) <= Len(MergeBase(s, t)) /\ MergeBase(s, t) \in Commits /\ IsAncestor(MergeBase(s, t), s)
  BY MergeBaseFacts, AncestorReflexive
<1>2. Len(s) \in Nat /\ Len(MergeBase(s, t)) \in Nat
  BY <1>1, CommitFacts
<1>3. /\ Len(MergeBase(s, t)) = Len(s)
      /\ \A i \in 1..Len(s) : MergeBase(s, t)[i] = s[i]
  BY <1>1, <1>2, AncestorIs
<1> QED
  BY <1>1, <1>3, SeqEqual DEF Commits

\* The kept positions up to i; AtPositions ranks a position by their number.
Upto(kept, i) == {j \in kept : j <= i}

LEMMA UptoEnds ==
  ASSUME NEW n \in Nat, NEW kept, kept \subseteq 1..n
  PROVE  Upto(kept, 0) = {} /\ Upto(kept, n) = kept
<1>1. \A j \in kept : ~(j <= 0) /\ j <= n
  OBVIOUS
<1> QED
  BY <1>1, Zenon DEF Upto

LEMMA UptoFinite ==
  ASSUME NEW n \in Nat, NEW kept, kept \subseteq 1..n, NEW i
  PROVE  /\ IsFiniteSet(kept) /\ Cardinality(kept) \in Nat
         /\ IsFiniteSet(Upto(kept, i)) /\ Cardinality(Upto(kept, i)) \in Nat
         /\ Cardinality(Upto(kept, i)) <= Cardinality(kept)
<1>1. IsFiniteSet(1..n)
  BY FS_Interval
<1>2. IsFiniteSet(kept)
  BY <1>1, FS_Subset
<1>3. Upto(kept, i) \in SUBSET kept
  BY Zenon DEF Upto
<1> QED
  BY <1>2, <1>3, FS_Subset, FS_CardinalityType

LEMMA UptoStep ==
  ASSUME NEW n \in Nat, NEW kept, kept \subseteq 1..n, NEW i \in Int
  PROVE  IF i \in kept
         THEN /\ i \in Upto(kept, i) /\ i \notin Upto(kept, i - 1)
              /\ Upto(kept, i) = Upto(kept, i - 1) \cup {i}
         ELSE Upto(kept, i) = Upto(kept, i - 1)
<1>1. \A j \in kept : j \in Int
  OBVIOUS
<1>2. \A j \in kept : j <= i <=> j <= i - 1 \/ j = i
  BY <1>1
<1>3. ~(i <= i - 1) /\ i <= i
  OBVIOUS
<1>4. CASE i \in kept
  BY <1>2, <1>3, <1>4, Zenon DEF Upto
<1>5. CASE i \notin kept
  <2>1. \A j \in kept : j <= i <=> j <= i - 1
    BY <1>2, <1>5, Zenon
  <2> QED
    BY <1>5, <2>1, Zenon DEF Upto
<1> QED
  BY <1>4, <1>5

\* The k-th of the kept positions exists, for every k up to their number.
LEMMA RankIsTaken ==
  ASSUME NEW n \in Nat, NEW kept, kept \subseteq 1..n, NEW k \in 1..Cardinality(kept)
  PROVE  \E i \in kept : Cardinality(Upto(kept, i)) = k
<1> DEFINE rank(i) == Cardinality(Upto(kept, i))
<1>1. Cardinality(kept) \in Nat /\ \A i : rank(i) \in Nat
  BY UptoFinite
<1>2. rank(0) = 0 /\ rank(n) = Cardinality(kept)
  BY UptoEnds, FS_EmptySet
<1>3. \A i \in Int : rank(i) = IF i \in kept THEN rank(i - 1) + 1 ELSE rank(i - 1)
  <2> SUFFICES ASSUME NEW i \in Int
               PROVE  rank(i) = IF i \in kept THEN rank(i - 1) + 1 ELSE rank(i - 1)
    OBVIOUS
  <2>1. IsFiniteSet(Upto(kept, i - 1))
    BY UptoFinite
  <2>2. CASE i \in kept
    <3>1. i \notin Upto(kept, i - 1) /\ Upto(kept, i) = Upto(kept, i - 1) \cup {i}
      BY <2>2, UptoStep, Zenon
    <3> QED
      BY <2>1, <2>2, <3>1, FS_AddElement
  <2>3. CASE i \notin kept
    <3>1. Upto(kept, i) = Upto(kept, i - 1)
      BY <2>3, UptoStep, Zenon
    <3> QED
      BY <2>3, <3>1
  <2> QED
    BY <2>2, <2>3
<1> HIDE DEF rank
<1> DEFINE Reach == {i \in 0..n : k <= rank(i)}
<1>4. PICK m \in Reach : \A i \in Reach : m <= i
  <2>1. n \in Reach /\ Reach \subseteq Nat
    BY <1>1, <1>2
  <2> HIDE DEF Reach
  <2> QED
    BY <2>1, LeastNatural
<1>5. m \in 1..n /\ k <= rank(m)
  BY <1>1, <1>2
<1>6. ~(k <= rank(m - 1))
  <2>1. m - 1 \in 0..n /\ ~(m <= m - 1)
    BY <1>5
  <2> QED
    BY <1>4, <2>1
<1>7. m \in kept /\ rank(m) = k
  <2> HIDE DEF Reach
  <2> QED
    BY <1>1, <1>3, <1>5, <1>6
<1> QED
  BY <1>7 DEF rank

\* ... and it is the only one of that rank.
LEMMA RankIsUnique ==
  ASSUME NEW n \in Nat, NEW kept, kept \subseteq 1..n, NEW h \in kept, NEW i \in kept,
         Cardinality(Upto(kept, h)) = Cardinality(Upto(kept, i))
  PROVE  h = i
<1>1. ASSUME NEW x \in kept, NEW y \in kept, x < y
      PROVE  Cardinality(Upto(kept, x)) # Cardinality(Upto(kept, y))
  <2>1. x \in Nat /\ y \in Nat /\ \A j \in kept : j \in Nat
    OBVIOUS
  <2>2. ~(y <= x) /\ y <= y /\ \A j \in kept : j <= x => j <= y
    BY <1>1, <2>1
  <2>3. Upto(kept, x) \in SUBSET Upto(kept, y) /\ y \in Upto(kept, y) /\ y \notin Upto(kept, x)
    BY <2>2, Zenon DEF Upto
  <2>4. IsFiniteSet(Upto(kept, y))
    BY UptoFinite
  <2> QED
    BY <2>3, <2>4, FS_Subset
<1>2. h \in Nat /\ i \in Nat
  OBVIOUS
<1> QED
  BY <1>1, <1>2

LEMMA AtPositionsFacts ==
  ASSUME NEW s \in Commits, NEW kept, kept \subseteq 1..Len(s)
  PROVE  /\ AtPositions(s, kept) \in Commits
         /\ ChangesOf(AtPositions(s, kept)) = {s[i].of : i \in kept}
<1> DEFINE Rank(i) == Cardinality(Upto(kept, i))
           Nth(k) == CHOOSE i \in kept : Rank(i) = k
           u == AtPositions(s, kept)
<1>1. Len(s) \in Nat /\ \A i \in 1..Len(s) : s[i] \in Patch
  BY CommitFacts
<1>2. IsFiniteSet(kept) /\ Cardinality(kept) \in Nat
  BY <1>1, UptoFinite
<1>3. \A k \in 1..Cardinality(kept) : Nth(k) \in kept /\ Rank(Nth(k)) = k
  <2>1. \A k \in 1..Cardinality(kept) : \E i \in kept : Rank(i) = k
    BY <1>1, RankIsTaken
  <2> HIDE DEF Rank
  <2> QED
    BY <2>1
<1>4. u = [k \in 1..Cardinality(kept) |-> s[Nth(k)]]
  BY DEF AtPositions, Upto
<1>5. u \in [1..Cardinality(kept) -> Patch]
  <2>1. \A k \in 1..Cardinality(kept) : s[Nth(k)] \in Patch
    BY <1>1, <1>3
  <2> HIDE DEF u, Nth
  <2> QED
    BY <1>4, <2>1
<1>6. u \in Commits
  <2> HIDE DEF u
  <2> QED
    BY <1>2, <1>5, SeqDef DEF Commits
<1>7. \A i \in kept : Rank(i) \in 1..Cardinality(kept) /\ Nth(Rank(i)) = i
  <2> SUFFICES ASSUME NEW i \in kept
               PROVE  Rank(i) \in 1..Cardinality(kept) /\ Nth(Rank(i)) = i
    OBVIOUS
  <2>1. i \in Nat /\ i <= i /\ i \in Upto(kept, i)
    <3>1. i \in Nat /\ i <= i
      BY <1>1
    <3> QED
      BY <3>1, Zenon DEF Upto
  <2>2. /\ Rank(i) \in Nat /\ Rank(i) <= Cardinality(kept)
        /\ IsFiniteSet(Upto(kept, i))
    BY <1>1, UptoFinite
  <2>3. Rank(i) # 0
    BY <2>1, <2>2, FS_EmptySet
  <2>5. Rank(i) \in 1..Cardinality(kept)
    <3> HIDE DEF Rank
    <3> QED
      BY <1>2, <2>2, <2>3
  <2>6. Nth(Rank(i)) \in kept /\ Rank(Nth(Rank(i))) = Rank(i)
    <3> HIDE DEF Rank, Nth
    <3> QED
      BY <1>3, <2>5
  <2>7. Nth(Rank(i)) = i
    <3>1. ASSUME NEW h \in kept, Rank(h) = Rank(i)
          PROVE  h = i
      BY <1>1, <3>1, RankIsUnique
    <3> HIDE DEF Rank, Nth
    <3> QED
      BY <2>6, <3>1
  <2> QED
    BY <2>5, <2>7
<1>8. DOMAIN u = 1..Cardinality(kept) /\ \A k \in 1..Cardinality(kept) : u[k] = s[Nth(k)]
  <2> HIDE DEF u, Nth
  <2> QED
    BY <1>4
<1>9. ChangesOf(u) = {u[k].of : k \in 1..Cardinality(kept)}
  BY <1>8 DEF ChangesOf
<1>10. {u[k].of : k \in 1..Cardinality(kept)} = {s[i].of : i \in kept}
  <2>1. ASSUME NEW k \in 1..Cardinality(kept)
        PROVE  u[k].of \in {s[i].of : i \in kept}
    <3> HIDE DEF u, Nth, Rank
    <3> QED
      BY <1>3, <1>8
  <2>2. ASSUME NEW i \in kept
        PROVE  s[i].of \in {u[k].of : k \in 1..Cardinality(kept)}
    <3> HIDE DEF u, Nth, Rank
    <3>1. Rank(i) \in 1..Cardinality(kept) /\ u[Rank(i)] = s[i]
      BY <1>7, <1>8
    <3> QED
      BY <3>1
  <2> HIDE DEF u, Nth, Rank
  <2> QED
    BY <2>1, <2>2
<1> QED
  BY <1>6, <1>9, <1>10 DEF u

\* The states of a replay, as GitHistory has them.
ReplayStates == [orig : Commits, done : Commits, left : Commits]

\* A replay has something to do for every change of the head that neither
\* the base nor the new base has.
LEMMA ReplayPlanFacts ==
  ASSUME NEW onto \in Commits, NEW base \in Commits, NEW head \in Commits
  PROVE  LET plan == ReplayPlan(onto, base, head) IN
         /\ plan \in ReplayStates /\ plan.orig = head /\ plan.done = onto
         /\ ChangesOf(plan.left) \subseteq ChangesOf(head)
         /\ ChangesOf(head) \subseteq
              ChangesOf(base) \cup ChangesOf(onto) \cup ChangesOf(plan.left)
<1> DEFINE fork == MergeBase(base, head)
           above == Len(fork) + 1 .. Len(head)
           missing == {i \in above : head[i].of \notin ChangesOf(onto)}
           plan == ReplayPlan(onto, base, head)
<1>1. /\ fork \in Commits /\ IsAncestor(fork, base) /\ IsAncestor(fork, head)
  BY MergeBaseFacts
<1> HIDE DEF fork
<1>2. Len(fork) \in Nat /\ Len(head) \in Nat /\ DOMAIN head = 1..Len(head) /\ DOMAIN fork = 1..Len(fork)
  BY <1>1, CommitFacts
<1>3. above \subseteq 1..Len(head) /\ missing \subseteq 1..Len(head)
  BY <1>2
<1>4. /\ AtPositions(head, missing) \in Commits
      /\ ChangesOf(AtPositions(head, missing)) = {head[i].of : i \in missing}
  <2> HIDE DEF missing
  <2> QED
    BY <1>3, AtPositionsFacts
<1>5. plan = [orig |-> head, done |-> onto, left |-> AtPositions(head, missing)]
  BY DEF ReplayPlan, fork
<1>6. plan \in ReplayStates /\ plan.orig = head /\ plan.done = onto
      /\ plan.left = AtPositions(head, missing)
  <2> HIDE DEF plan, missing
  <2> QED
    BY <1>4, <1>5 DEF ReplayStates
<1>7. {head[i].of : i \in missing} \subseteq ChangesOf(head)
  BY <1>2, <1>3 DEF ChangesOf
<1>8. ASSUME NEW i \in 1..Len(head)
      PROVE  head[i].of \in ChangesOf(base) \cup ChangesOf(onto) \cup {head[j].of : j \in missing}
  <2>1. CASE i \in above
    BY <2>1
  <2>2. CASE i \notin above
    <3>1. i \in 1..Len(fork)
      BY <1>2, <2>2
    <3>2. fork[i] = head[i]
      BY <1>1, <3>1, AncestorIs
    <3>3. head[i].of \in ChangesOf(fork)
      BY <1>2, <3>1, <3>2 DEF ChangesOf
    <3> QED
      BY <1>1, <3>3, AncestorChanges
  <2> QED
    BY <2>1, <2>2
<1>9. ChangesOf(head) \subseteq ChangesOf(base) \cup ChangesOf(onto) \cup {head[j].of : j \in missing}
  <2> HIDE DEF missing
  <2> QED
    BY <1>2, <1>8 DEF ChangesOf
<1> HIDE DEF plan, missing
<1> QED
  BY <1>4, <1>6, <1>7, <1>9 DEF plan

\* What a replay does: it moves patches from left to done, the first ones.
LEMMA ReplayedFacts ==
  ASSUME NEW r \in ReplayStates
  PROVE  /\ Replayed(r) \in ReplayStates /\ Replayed(r).orig = r.orig
         /\ IsAncestor(r.done, Replayed(r).done)
         /\ ChangesOf(Replayed(r).done) \cup ChangesOf(Replayed(r).left)
              = ChangesOf(r.done) \cup ChangesOf(r.left)
         /\ Len(Replayed(r).left) <= Len(r.left)
<1> DEFINE stop == IF Stops(r) = {} THEN Len(r.left) + 1
                   ELSE CHOOSE i \in Stops(r) : \A j \in Stops(r) : i <= j
           first == SubSeq(r.left, 1, stop - 1)
           rest == SubSeq(r.left, stop, Len(r.left))
<1>1. r.orig \in Commits /\ r.done \in Commits /\ r.left \in Commits
  BY DEF ReplayStates
<1>2. Len(r.left) \in Nat /\ DOMAIN r.left = 1..Len(r.left)
  BY <1>1, CommitFacts
<1>3. stop \in 1..Len(r.left) + 1
  <2>1. CASE Stops(r) = {}
    BY <1>2, <2>1
  <2>2. CASE Stops(r) # {}
    <3>1. Stops(r) \subseteq 1..Len(r.left)
      BY <1>2 DEF Stops
    <3>2. Stops(r) \subseteq Nat
      BY <3>1
    <3>3. \E i \in Stops(r) : \A j \in Stops(r) : i <= j
      BY <2>2, <3>2, LeastNatural
    <3>4. stop \in Stops(r)
      BY <2>2, <3>3
    <3> HIDE DEF stop
    <3> QED
      BY <1>2, <3>1, <3>4
  <2> QED
    BY <2>1, <2>2
<1>4. Replayed(r) = [r EXCEPT !.done = @ \o first, !.left = rest]
  BY DEF Replayed
<1> HIDE DEF stop
<1>5. /\ first \in Commits /\ ChangesOf(first) = {r.left[i].of : i \in 1..stop - 1}
      /\ rest \in Commits /\ ChangesOf(rest) = {r.left[i].of : i \in stop..Len(r.left)}
  <2>1. stop - 1 \in Nat /\ stop - 1 <= Len(r.left) /\ stop \in Nat \ {0}
    BY <1>2, <1>3
  <2> QED
    BY <1>1, <1>2, <2>1, SubSeqFacts
<1>6. Len(rest) <= Len(r.left)
  <2>1. \A i \in stop..Len(r.left) : r.left[i] \in Patch
    BY <1>1, <1>2, <1>3, CommitFacts
  <2>2. Len(rest) = IF stop <= Len(r.left) THEN Len(r.left) - stop + 1 ELSE 0
    BY <1>2, <1>3, <2>1, SubSeqProperties
  <2> HIDE DEF rest
  <2> QED
    BY <1>2, <1>3, <2>2
<1>7. ChangesOf(first) \cup ChangesOf(rest) = ChangesOf(r.left)
  <2>1. ChangesOf(r.left) = {r.left[i].of : i \in 1..Len(r.left)}
    BY <1>2 DEF ChangesOf
  <2>2. \A i : i \in 1..Len(r.left) <=> i \in 1..stop - 1 \/ i \in stop..Len(r.left)
    BY <1>2, <1>3
  <2> HIDE DEF first, rest
  <2> QED
    BY <1>5, <2>1, <2>2, Zenon
<1>8. /\ r.done \o first \in Commits /\ IsAncestor(r.done, r.done \o first)
      /\ ChangesOf(r.done \o first) = ChangesOf(r.done) \cup ChangesOf(first)
  <2> HIDE DEF first
  <2> QED
    BY <1>1, <1>5, ConcatFacts
<1> DEFINE next == r.done \o first
<1>9. /\ Replayed(r) \in ReplayStates /\ Replayed(r).orig = r.orig
      /\ Replayed(r).done = next /\ Replayed(r).left = rest
  <2>1. next \in Commits /\ rest \in Commits
    BY <1>5, <1>8
  <2>2. Replayed(r) = [r EXCEPT !.done = next, !.left = rest]
    BY <1>4
  <2> HIDE DEF first, rest, next
  <2> QED
    BY <2>1, <2>2 DEF ReplayStates
<1> HIDE DEF first, rest
<1> QED
  BY <1>6, <1>7, <1>8, <1>9

\* A change that a replay leaves behind is one that the resolution drops.
LEMMA ResolvedFacts ==
  ASSUME NEW r \in ReplayStates, r.left # Root, NEW resolution \in Commits
  PROVE  /\ Resolved(r, resolution) \in ReplayStates /\ Resolved(r, resolution).orig = r.orig
         /\ IsAncestor(r.done, Resolved(r, resolution).done)
         /\ ChangesOf(Resolved(r, resolution).done) \cup ChangesOf(Resolved(r, resolution).left)
              \cup {r.left[1].of}
            = ChangesOf(r.done) \cup ChangesOf(r.left) \cup ChangesOf(resolution)
         /\ ChangesOf(r.done) \cup ChangesOf(resolution)
              \subseteq ChangesOf(Resolved(r, resolution).done) \cup ChangesOf(Resolved(r, resolution).left)
<1> DEFINE next == [r EXCEPT !.done = @ \o resolution, !.left = Tail(r.left)]
<1>1. r.orig \in Commits /\ r.done \in Commits /\ r.left \in Commits
  BY DEF ReplayStates
<1>2. /\ r.done \o resolution \in Commits /\ IsAncestor(r.done, r.done \o resolution)
      /\ ChangesOf(r.done \o resolution) = ChangesOf(r.done) \cup ChangesOf(resolution)
  BY <1>1, ConcatFacts
<1>3. /\ Tail(r.left) \in Commits
      /\ ChangesOf(r.left) = ChangesOf(Tail(r.left)) \cup {r.left[1].of}
  <2> DEFINE tail == Tail(r.left)
  <2>1. /\ Len(r.left) \in Nat /\ Len(r.left) # 0
        /\ DOMAIN r.left = 1..Len(r.left)
    BY <1>1, CommitFacts, RootFacts
  <2>2. /\ tail \in Commits /\ Len(tail) = Len(r.left) - 1
        /\ \A i \in 1..Len(tail) : tail[i] = r.left[i + 1]
    BY <1>1, <2>1, HeadTailProperties DEF Commits, Root
  <2> HIDE DEF tail
  <2>3. DOMAIN tail = 1..Len(tail)
    BY <2>2, CommitFacts
  <2>4. \A i \in 1..Len(tail) : i + 1 \in 1..Len(r.left)
    BY <2>1, <2>2
  <2>5. \A i \in 1..Len(r.left) : i = 1 \/ (i - 1 \in 1..Len(tail) /\ tail[i - 1] = r.left[i])
    BY <2>1, <2>2
  <2>6. 1 \in 1..Len(r.left)
    BY <2>1
  <2>7. ASSUME NEW c
        PROVE  c \in ChangesOf(r.left) <=> c \in ChangesOf(tail) \cup {r.left[1].of}
    <3>1. c \in ChangesOf(r.left) <=> \E i \in 1..Len(r.left) : c = r.left[i].of
      BY <2>1 DEF ChangesOf
    <3>2. c \in ChangesOf(tail) <=> \E i \in 1..Len(tail) : c = r.left[i + 1].of
      BY <2>2, <2>3 DEF ChangesOf
    <3>3. c \in ChangesOf(tail) <=> \E i \in 1..Len(tail) : c = tail[i].of
      BY <2>3 DEF ChangesOf
    <3> QED
      BY <2>4, <2>5, <2>6, <3>1, <3>2, <3>3
  <2>8. ChangesOf(r.left) = ChangesOf(tail) \cup {r.left[1].of}
    BY <2>7
  <2> QED
    BY <2>2, <2>8 DEF tail
<1> DEFINE d == r.done \o resolution
           l == Tail(r.left)
<1>4. /\ next \in ReplayStates /\ next.orig = r.orig /\ next.done = d /\ next.left = l
  <2>1. d \in Commits /\ l \in Commits /\ next = [r EXCEPT !.done = d, !.left = l]
    BY <1>2, <1>3
  <2> HIDE DEF d, l, next
  <2> QED
    BY <2>1 DEF ReplayStates
<1>5. Resolved(r, resolution) = Replayed(next)
  BY DEF Resolved
<1> HIDE DEF next
<1>6. /\ Replayed(next) \in ReplayStates /\ Replayed(next).orig = next.orig
      /\ IsAncestor(next.done, Replayed(next).done)
      /\ ChangesOf(Replayed(next).done) \cup ChangesOf(Replayed(next).left)
           = ChangesOf(next.done) \cup ChangesOf(next.left)
  BY <1>4, ReplayedFacts
<1>7. Replayed(next).done \in Commits
  BY <1>6 DEF ReplayStates
<1>8. IsAncestor(r.done, Replayed(next).done)
  BY <1>1, <1>2, <1>4, <1>6, <1>7, AncestorTransitive
<1> QED
  BY <1>2, <1>3, <1>4, <1>5, <1>6, <1>8

\* The residue of a recovery ref: the uncommitted changes, in some order.
LEMMA ResidueFacts ==
  ASSUME NEW D, D \subseteq Changes, IsFiniteSet(D)
  PROVE  LET residue == SetToSeq({Written(c) : c \in D}) IN
         residue \in Commits /\ ChangesOf(residue) = D
<1> DEFINE S == {Written(c) : c \in D}
           write == [c \in D |-> Written(c)]
<1>1. \A c \in D : Written(c) \in Patch /\ Written(c).of = c
  BY WrittenFacts
<1>2. IsFiniteSet(S) /\ S \subseteq Patch
  <2>1. write \in Surjection(D, S)
    BY DEF Surjection
  <2>2. S \subseteq Patch
    BY <1>1
  <2> HIDE DEF S, write
  <2> QED
    BY <2>1, <2>2, FS_Surjection
<1> DEFINE n == Cardinality(S)
           Orders == {f \in [1..n -> S] : IsInjective(f)}
<1> HIDE DEF S
<1>3. n \in Nat /\ ExistsBijection(1..n, S)
  BY <1>2, FS_CardinalityType
<1>4. \E f \in [1..n -> S] : IsInjective(f)
  BY <1>3 DEF ExistsBijection, Bijection, Injection, IsInjective
<1> DEFINE residue == SetToSeq(S)
<1>5. residue \in [1..n -> S] /\ IsInjective(residue)
  BY <1>4 DEF SetToSeq
<1>6. residue \in Commits /\ DOMAIN residue = 1..n
  <2>1. residue \in [1..n -> Patch]
    BY <1>2, <1>5
  <2> HIDE DEF residue
  <2> QED
    BY <1>3, <2>1, SeqDef DEF Commits
<1>7. \A p \in S : \E i \in 1..n : residue[i] = p
  <2>1. residue \in Injection(1..n, S)
    BY <1>5 DEF Injection, IsInjective
  <2>2. Cardinality(1..n) = Cardinality(S) /\ IsFiniteSet(1..n)
    BY <1>3, FS_Interval
  <2>3. residue \in Surjection(1..n, S)
    BY <1>2, <2>1, <2>2, FS_Injection
  <2> QED
    BY <2>3 DEF Surjection
<1>8. ChangesOf(residue) = {p.of : p \in S}
  <2> HIDE DEF n, residue
  <2> QED
    BY <1>5, <1>6, <1>7 DEF ChangesOf
<1>9. {p.of : p \in S} = D
  BY <1>1 DEF S
<1> QED
  BY <1>6, <1>8, <1>9 DEF S

-----------------------------------------------------------------------------
(* The inductive invariant, part by part.                                   *)

Beyond == {"replay", "prove", "advance"}
Landed == {"carry", "record"}

\* A worktree that is there is on a commit; a replay is stopped only in a
\* ready row that nobody works on; only a row that landed loses its worktree.
TreeOf(a) ==
  /\ tree[a].present => tree[a].head \in Commits
  /\ IsFiniteSet(tree[a].dirty)
  /\ Paused(a) =>
       /\ tree[a].present /\ IsIdle(a) /\ Status(a, "ready")
       /\ tree[a].replay.left # Root
  /\ ~tree[a].present =>
       job[a].at \in {"idle", "retire"} /\ row[a].status \in {"integrated", "cleaned"}

\* A handler finds its row in the status its place asks for.
StageOf(a) ==
  /\ job[a].at \in {"lock"} \cup Beyond \cup Landed =>
       Status(a, "ready") /\ job[a].expected \in Commits
  /\ job[a].at \in {"freeze", "forget", "clear", "base"} => Status(a, "active")
  /\ job[a].at \in {"push", "readback", "settle", "recycle", "release", "close", "retire"} =>
       Status(a, "integrated")
  /\ At(a, "unlock") =>
       Status(a, "integrated") \/ (Status(a, "active") /\ job[a].op = "landed")
  /\ At(a, "base") => job[a].expected \in Commits
  /\ ~IsIdle(a) /\ ~At(a, "clear") /\ ~At(a, "base") => job[a].op # "none"
  /\ job[a].at \in {"freeze", "replay", "prove"} => ~job[a].attested
  /\ At(a, "retire") => ~tree[a].present

\* A frozen row has its ref, an integrated row its proof.
RowOf(a) ==
  /\ row[a].status \in {"ready", "integrated", "cleaned"} => frozen[a] \in Commits
  /\ row[a].status \in {"active", "ready"} => row[a].record = None
  /\ Status(a, "integrated") =>
       /\ candidate[a] \in Commits /\ row[a].integrated = candidate[a]
       /\ HasIntegrationProof(a)

\* What a row owes is what it integrated, and the target has it.
DebtOf(a) ==
  LET debt == row[a].debt IN
  /\ OwesPush(debt) =>
       /\ row[a].status \in {"integrated", "cleaned"}
       /\ debt.candidate \in Commits
       /\ IsAncestor(debt.candidate, target)
       /\ Status(a, "integrated") => debt.candidate = row[a].integrated
  /\ debt # None /\ ~OwesPush(debt) => row[a].status \in {"active", "ready"}
  /\ job[a].at \in {"push", "readback"} => debt # None /\ debt.phase = "push-pending"
  /\ At(a, "settle") => debt # None /\ debt.phase = "push-succeeded"
  /\ At(a, "unlock") /\ debt # None => debt.phase = "push-pending"
  /\ At(a, "forget") => debt = None

\* A handler past the lock holds it; what it is about to advance the target
\* to is HEAD, and has the reviewed effect or a human's attestation.
LockOf(a) ==
  /\ job[a].at \in Beyond \cup Landed => HoldsLock(a, job[a].expected)
  /\ (At(a, "lock") /\ job[a].attested) \/ At(a, "advance") =>
       candidate[a] \in Commits /\ tree[a].head = candidate[a]
  /\ At(a, "advance") /\ ~job[a].attested =>
       SameAsReviewed(a, job[a].expected, candidate[a])
  /\ job[a].at \in {"lock", "advance"} /\ job[a].attested /\ job[a].op = "close-out" =>
       SameAsReviewed(a, job[a].expected, candidate[a])

BaseOf(a) ==
  /\ IsAncestor(row[a].base, target)
  /\ At(a, "base") => IsAncestor(job[a].expected, target)

\* The cells of one assignment are well-typed.
CellsOf(a) ==
  /\ row[a] \in Rows /\ tree[a] \in Trees /\ job[a] \in Jobs
  /\ frozen[a] \in {None} \cup Commits /\ candidate[a] \in {None} \cup Commits

PartsOf(a) ==
  TreeOf(a) /\ StageOf(a) /\ RowOf(a) /\ DebtOf(a) /\ LockOf(a) /\ BaseOf(a)

\* The variables that belong to no assignment are well-typed.
WorldOK ==
  /\ lock \in {None} \cup Locks
  /\ preserved \subseteq Commits /\ recovery \subseteq Commits
  /\ target \in Commits /\ remote \in Commits
  /\ primary \in [onRef : BOOLEAN, shows : {None} \cup Commits, dirty : SUBSET Changes]
  /\ made \subseteq Changes
  /\ waived \subseteq Changes \X {"resolution", "restore"}
  /\ landing \subseteq Assignments
  /\ crashes \in 0..MaxCrashes

PreservedInTarget == \A commit \in preserved : IsAncestor(commit, target)

Sound ==
  /\ TypeOK /\ PreservedInTarget
  /\ \A a \in Assignments : PartsOf(a)

-----------------------------------------------------------------------------
(* What a step of one assignment is to the others.                          *)

\* Only the cells of a change.
OnlyOf(a) ==
  /\ row' = [row EXCEPT ![a] = row'[a]]
  /\ tree' = [tree EXCEPT ![a] = tree'[a]]
  /\ job' = [job EXCEPT ![a] = job'[a]]
  /\ frozen' = [frozen EXCEPT ![a] = frozen'[a]]
  /\ candidate' = [candidate EXCEPT ![a] = candidate'[a]]

\* The lock changes hands only from and to a, the target only grows.
MoveOf(a) ==
  /\ OnlyOf(a)
  /\ \/ lock' = lock
     \/ (lock = None \/ lock.owner = a) /\ (lock' = None \/ lock'.owner = a)
  /\ IsAncestor(target, target')
  /\ landing' \ {a} = landing \ {a}

LEMMA MoveKeepsOthers ==
  ASSUME Sound, NEW a \in Assignments, MoveOf(a), WorldOK', PreservedInTarget',
         CellsOf(a)', PartsOf(a)'
  PROVE  Sound'
<1>1. /\ row \in [Assignments -> Rows] /\ tree \in [Assignments -> Trees]
      /\ job \in [Assignments -> Jobs]
      /\ frozen \in [Assignments -> {None} \cup Commits]
      /\ candidate \in [Assignments -> {None} \cup Commits]
  BY DEF Sound, TypeOK
<1>2. /\ row' \in [Assignments -> Rows] /\ tree' \in [Assignments -> Trees]
      /\ job' \in [Assignments -> Jobs]
      /\ frozen' \in [Assignments -> {None} \cup Commits]
      /\ candidate' \in [Assignments -> {None} \cup Commits]
  <2> HIDE DEF Rows, Trees, Jobs, Commits
  <2> QED BY <1>1 DEF MoveOf, OnlyOf, CellsOf
<1>3. TypeOK'
  BY <1>2 DEF WorldOK, TypeOK
<1>4. ASSUME NEW b \in Assignments, b # a
      PROVE  PartsOf(b)'
  <2>1. /\ row'[b] = row[b] /\ tree'[b] = tree[b] /\ job'[b] = job[b]
        /\ frozen'[b] = frozen[b] /\ candidate'[b] = candidate[b]
    BY <1>1, <1>4 DEF MoveOf, OnlyOf
  <2>2. PartsOf(b) /\ target \in Commits /\ target' \in Commits /\ IsAncestor(target, target')
    BY <1>3, <1>4 DEF Sound, TypeOK, MoveOf
  <2>3. ASSUME NEW c \in Commits, IsAncestor(c, target)
        PROVE  IsAncestor(c, target')
    BY <2>2, <2>3, AncestorTransitive
  <2>4. row[b] \in Rows /\ job[b] \in Jobs
    BY <1>1, <1>4
  <2>5. TreeOf(b)' /\ StageOf(b)'
    BY <2>1, <2>2 DEF PartsOf, TreeOf, StageOf, Paused, IsIdle, At, Status
  <2>6. RowOf(b)'
    BY <2>1, <2>2, <2>3 DEF PartsOf, RowOf, HasIntegrationProof, Status
  <2>7. DebtOf(b)'
    BY <2>1, <2>2, <2>3 DEF PartsOf, DebtOf, OwesPush, At, Status
  <2>8. ASSUME HoldsLock(b, job[b].expected), job[b].expected \in Commits
        PROVE  HoldsLock(b, job[b].expected)'
    <3>1. lock \in Locks /\ lock.owner = b
      BY <2>8 DEF HoldsLock, Locks
    <3>2. lock # None
      BY <3>1, NoneAssumption
    <3> QED BY <3>1, <3>2, <2>1, <2>8, <1>4 DEF MoveOf, HoldsLock
  <2>9. LockOf(b)'
    BY <2>1, <2>2, <2>8 DEF PartsOf, StageOf, LockOf, HoldsLock, SameAsReviewed, At
  <2>10. BaseOf(b)'
    <3>1. row[b].base \in Commits /\ (At(b, "base") => job[b].expected \in Commits)
      BY <2>2, <2>4 DEF Rows, PartsOf, StageOf
    <3> QED BY <3>1, <2>1, <2>2, <2>3 DEF PartsOf, BaseOf, At
  <2> QED BY <2>5, <2>6, <2>7, <2>9, <2>10 DEF PartsOf
<1> QED BY <1>3, <1>4 DEF Sound

-----------------------------------------------------------------------------
(* What the writes of a handler are, cell by cell.                          *)

\* What a step of a has to establish.
Keeps(a) == MoveOf(a) /\ WorldOK' /\ PreservedInTarget' /\ CellsOf(a)' /\ PartsOf(a)'

LEMMA SoundFacts ==
  ASSUME Sound, NEW a \in Assignments
  PROVE  /\ row \in [Assignments -> Rows] /\ tree \in [Assignments -> Trees]
         /\ job \in [Assignments -> Jobs]
         /\ frozen \in [Assignments -> {None} \cup Commits]
         /\ candidate \in [Assignments -> {None} \cup Commits]
         /\ CellsOf(a) /\ PartsOf(a) /\ WorldOK /\ PreservedInTarget
BY DEF Sound, TypeOK, WorldOK, CellsOf

\* The handler of a is then at a place, with what it carries.
JobIs(a, at, op, expected, attested) ==
  /\ job' = [job EXCEPT ![a] = job'[a]] /\ job'[a] \in Jobs
  /\ job'[a].at = at /\ job'[a].op = op
  /\ job'[a].expected = expected /\ job'[a].attested = attested

LEMMA GotoIs ==
  ASSUME job \in [Assignments -> Jobs], NEW a \in Assignments, NEW p \in Places, Goto(a, p)
  PROVE  JobIs(a, p, job[a].op, job[a].expected, job[a].attested)
<1> HIDE DEF Places, Commits, AllOps
<1> QED BY DEF Goto, Jobs, JobIs

LEMMA FinishIs ==
  ASSUME job \in [Assignments -> Jobs], NEW a \in Assignments, Finish(a)
  PROVE  JobIs(a, "idle", "none", None, FALSE)
<1>1. "idle" \in Places /\ "none" \in AllOps \cup {"none", "landed"}
  BY DEF Places
<1> QED BY <1>1 DEF Finish, Idle, Jobs, JobIs

LEMMA EntryIs ==
  ASSUME job \in [Assignments -> Jobs], NEW a \in Assignments, NEW at \in Places,
         NEW op \in AllOps \cup {"none", "landed"},
         NEW expected \in {None} \cup Commits, NEW attested \in BOOLEAN,
         job' = [job EXCEPT ![a] = [at |-> at, op |-> op, expected |-> expected, attested |-> attested]]
  PROVE  JobIs(a, at, op, expected, attested)
<1>1. [at |-> at, op |-> op, expected |-> expected, attested |-> attested] \in Jobs
  BY DEF Jobs
<1>2. job'[a] = [at |-> at, op |-> op, expected |-> expected, attested |-> attested]
  OBVIOUS
<1> QED BY <1>1, <1>2 DEF JobIs

\* The row and the worktree of a, in the same way.
RowIs(a, status, base, integrated, record, debt) ==
  /\ row' = [row EXCEPT ![a] = row'[a]] /\ row'[a] \in Rows
  /\ row'[a].status = status /\ row'[a].base = base /\ row'[a].integrated = integrated
  /\ row'[a].record = record /\ row'[a].debt = debt

TreeIs(a, present, head, dirty, replay) ==
  /\ tree' = [tree EXCEPT ![a] = tree'[a]] /\ tree'[a] \in Trees
  /\ tree'[a].present = present /\ tree'[a].head = head
  /\ tree'[a].dirty = dirty /\ tree'[a].replay = replay

LEMMA RowWrite ==
  ASSUME row \in [Assignments -> Rows], NEW a \in Assignments, NEW r \in Rows, SetRow(a, r)
  PROVE  RowIs(a, r.status, r.base, r.integrated, r.record, r.debt)
<1> HIDE DEF Rows
<1> QED BY DEF SetRow, RowIs

LEMMA TreeWrite ==
  ASSUME tree \in [Assignments -> Trees], NEW a \in Assignments, NEW t \in Trees, SetTree(a, t)
  PROVE  TreeIs(a, t.present, t.head, t.dirty, t.replay)
<1> HIDE DEF Trees
<1> QED BY DEF SetTree, TreeIs

\* The cells' fields, by name.
LEMMA RowFields ==
  ASSUME NEW r \in Rows
  PROVE  /\ r.status \in {"active", "ready", "integrated", "cleaned"} /\ r.base \in Commits
         /\ r.integrated \in {None} \cup Commits /\ r.record \in {None} \cup Commits
         /\ r.debt \in {None} \cup Debts
BY DEF Rows

LEMMA TreeFields ==
  ASSUME NEW t \in Trees
  PROVE  /\ t.present \in BOOLEAN /\ t.head \in {None} \cup Commits
         /\ t.dirty \subseteq Changes /\ t.replay \in {None} \cup Replays
BY DEF Trees

LEMMA JobFields ==
  ASSUME NEW j \in Jobs
  PROVE  /\ j.at \in Places /\ j.op \in AllOps \cup {"none", "landed"}
         /\ j.expected \in {None} \cup Commits /\ j.attested \in BOOLEAN
BY DEF Jobs

LEMMA QuietMove ==
  ASSUME Sound, NEW a \in Assignments, OnlyOf(a),
         \/ lock' = lock
         \/ (lock = None \/ lock.owner = a) /\ (lock' = None \/ lock'.owner = a),
         target' = target, landing' = landing, preserved' = preserved
  PROVE  MoveOf(a) /\ PreservedInTarget'
<1>1. target \in Commits /\ PreservedInTarget
  BY DEF Sound, TypeOK
<1>2. IsAncestor(target, target')
  BY <1>1, AncestorReflexive
<1> QED BY <1>1, <1>2 DEF MoveOf, PreservedInTarget


LEMMA ReleaseIs ==
  ASSUME NEW a \in Assignments, NEW expected \in Commits, ReleaseExactLock(a, expected)
  PROVE  lock' = lock \/ (lock.owner = a /\ lock' = None)
BY DEF ReleaseExactLock, HoldsLock

LEMMA BackIs ==
  ASSUME Sound, NEW a \in Assignments, BackToFrozen(a), Status(a, "ready"),
         job[a].expected \in Commits
  PROVE  /\ candidate' = [candidate EXCEPT ![a] = candidate'[a]] /\ candidate'[a] = None
         /\ TreeIs(a, tree[a].present, frozen[a], {}, tree[a].replay)
         /\ lock' = lock \/ (lock.owner = a /\ lock' = None)
         /\ JobIs(a, "idle", "none", None, FALSE)
<1>1. /\ tree \in [Assignments -> Trees] /\ job \in [Assignments -> Jobs]
      /\ candidate \in [Assignments -> {None} \cup Commits]
      /\ CellsOf(a) /\ RowOf(a)
  BY SoundFacts DEF PartsOf
<1>2. frozen[a] \in Commits
  BY <1>1 DEF RowOf, Status
<1>3. ResetTo(a, frozen[a]) \in Trees
  BY <1>1, <1>2 DEF ResetTo, CellsOf, Trees
<1>4. TreeIs(a, tree[a].present, frozen[a], {}, tree[a].replay)
  BY <1>1, <1>3, TreeWrite DEF BackToFrozen, ResetTo, CellsOf, Trees
<1>5. lock' = lock \/ (lock.owner = a /\ lock' = None)
  BY ReleaseIs DEF BackToFrozen
<1>6. JobIs(a, "idle", "none", None, FALSE)
  BY <1>1, FinishIs DEF BackToFrozen
<1> QED BY <1>1, <1>4, <1>5, <1>6 DEF BackToFrozen, SetCandidate

LEMMA CommittedIs ==
  ASSUME Sound, NEW a \in Assignments, Free(a), NEW c \in tree[a].dirty
  PROVE  /\ Committed(a, c) \in Trees /\ Committed(a, c).present
         /\ Committed(a, c).head \in Commits
         /\ IsFiniteSet(Committed(a, c).dirty)
         /\ Committed(a, c).dirty \subseteq tree[a].dirty
         /\ Committed(a, c).replay = tree[a].replay
<1>1. tree[a] \in Trees /\ tree[a].head \in Commits /\ c \in Changes /\ IsFiniteSet(tree[a].dirty)
  BY SoundFacts DEF CellsOf, PartsOf, TreeOf, Free, Trees
<1>2. Append(tree[a].head, Written(c)) \in Commits
  BY <1>1, AppendFacts, WrittenFacts
<1>3. IsFiniteSet(tree[a].dirty \ {c})
  BY <1>1, FS_RemoveElement
<1>4. /\ Committed(a, c).head = Append(tree[a].head, Written(c))
      /\ Committed(a, c).dirty = tree[a].dirty \ {c}
      /\ Committed(a, c).replay = tree[a].replay
      /\ Committed(a, c).present = tree[a].present
      /\ Committed(a, c) \in Trees
  BY <1>1, <1>2 DEF Committed, Trees
<1> QED BY <1>2, <1>3, <1>4 DEF Free

\* What a handler attests, and where it begins.
LEMMA AttestedIs ==
  ASSUME Sound, NEW a \in Assignments, NEW op \in AllOps, Attested(a, op)
  PROVE  JobIs(a, "lock", op, target, TRUE)
<1>1. job \in [Assignments -> Jobs] /\ target \in Commits /\ "lock" \in Places
  BY SoundFacts DEF WorldOK, Places
<1> QED BY <1>1, EntryIs DEF Attested

LEMMA BeginsAt ==
  ASSUME Sound, NEW a \in Assignments, NEW at \in Places,
         NEW op \in AllOps \cup {"none", "landed"},
         job' = [job EXCEPT ![a] = [Idle EXCEPT !.at = at, !.op = op]]
  PROVE  JobIs(a, at, op, None, FALSE)
<1> DEFINE j == [Idle EXCEPT !.at = at, !.op = op]
<1>1. /\ j.at = at /\ j.op = op /\ j.expected = None /\ j.attested = FALSE
      /\ j \in Jobs
  BY DEF Idle, Jobs
<1>2. job \in [Assignments -> Jobs] /\ job' = [job EXCEPT ![a] = j]
  BY SoundFacts
<1> HIDE DEF j, Jobs
<1> QED BY <1>1, <1>2 DEF JobIs

LEMMA BeginsOn ==
  ASSUME Sound, NEW a \in Assignments, NEW at \in Places,
         NEW op \in AllOps \cup {"none", "landed"}, NEW expected \in {None} \cup Commits,
         job' = [job EXCEPT ![a] = [Idle EXCEPT !.at = at, !.op = op, !.expected = expected]]
  PROVE  JobIs(a, at, op, expected, FALSE)
<1> DEFINE j == [Idle EXCEPT !.at = at, !.op = op, !.expected = expected]
<1>1. /\ j.at = at /\ j.op = op /\ j.expected = expected /\ j.attested = FALSE
      /\ j \in Jobs
  BY DEF Idle, Jobs
<1>2. job \in [Assignments -> Jobs] /\ job' = [job EXCEPT ![a] = j]
  BY SoundFacts
<1> HIDE DEF j, Jobs
<1> QED BY <1>1, <1>2 DEF JobIs


\* A commit in the worktree of a, and nothing else there.
LEMMA CommitIs ==
  ASSUME Sound, NEW a \in Assignments, Free(a), NEW c \in tree[a].dirty,
         SetTree(a, Committed(a, c))
  PROVE  /\ Committed(a, c).head \in Commits
         /\ \E dirty \in SUBSET tree[a].dirty :
              /\ IsFiniteSet(dirty)
              /\ TreeIs(a, TRUE, Committed(a, c).head, dirty, tree[a].replay)
<1> DEFINE t == Committed(a, c)
<1>1. /\ t \in Trees /\ t.present /\ t.head \in Commits /\ IsFiniteSet(t.dirty)
      /\ t.dirty \subseteq tree[a].dirty /\ t.replay = tree[a].replay
  BY CommittedIs
<1>2. t.present = TRUE /\ tree \in [Assignments -> Trees]
  BY <1>1, TreeFields, SoundFacts
<1>3. SetTree(a, t)
  OBVIOUS
<1> HIDE DEF t
<1>4. TreeIs(a, t.present, t.head, t.dirty, t.replay)
  BY <1>1, <1>2, <1>3, TreeWrite
<1>5. TreeIs(a, TRUE, t.head, t.dirty, tree[a].replay)
  BY <1>1, <1>2, <1>4
<1> QED BY <1>1, <1>5 DEF t

LEMMA SnapshotIs ==
  ASSUME Sound, NEW a \in Assignments, tree[a].head \in Commits
  PROVE  /\ Snapshot(a) \subseteq Commits /\ recovery \subseteq Snapshot(a)
         /\ IsClean(a) \/ \E commit \in Snapshot(a) : tree[a].dirty \subseteq ChangesOf(commit)
<1> DEFINE residue == SetToSeq({Written(c) : c \in tree[a].dirty})
<1>1. recovery \subseteq Commits /\ tree[a].dirty \subseteq Changes /\ IsFiniteSet(tree[a].dirty)
  BY SoundFacts DEF WorldOK, CellsOf, PartsOf, TreeOf, Trees
<1>2. residue \in Commits /\ ChangesOf(residue) = tree[a].dirty
  BY <1>1, ResidueFacts
<1>3. Snapshot(a) = IF IsClean(a) THEN recovery ELSE recovery \cup {tree[a].head \o residue}
  BY DEF Snapshot
<1> HIDE DEF residue
<1>4. /\ tree[a].head \o residue \in Commits
      /\ tree[a].dirty \subseteq ChangesOf(tree[a].head \o residue)
  BY <1>2, ConcatFacts
<1> QED BY <1>1, <1>3, <1>4

-----------------------------------------------------------------------------
(* The steps, one by one: the worker, and how a finalization begins.        *)

LEMMA EditKeeps ==
  ASSUME Sound, NEW a \in Assignments, NEW c, Edit(a, c)
  PROVE  Keeps(a)
<1>1. /\ row \in [Assignments -> Rows] /\ tree \in [Assignments -> Trees]
      /\ job \in [Assignments -> Jobs]
      /\ frozen \in [Assignments -> {None} \cup Commits]
      /\ candidate \in [Assignments -> {None} \cup Commits]
      /\ CellsOf(a) /\ PartsOf(a) /\ WorldOK /\ PreservedInTarget
  BY SoundFacts
<1>2. /\ ~Paused(a) /\ tree[a].present /\ c \in Changes /\ c \in Work[a]
      /\ UNCHANGED <<row, lock, preserved, frozen, candidate, recovery, target, remote,
                     primary, job, waived, landing, crashes>>
      /\ made' = made \cup {c}
  BY FinalizationAssumption DEF Edit, database, refs, shared
<1>3. TreeIs(a, tree[a].present, tree[a].head, tree[a].dirty \cup {c}, tree[a].replay)
  <2> DEFINE t == [tree[a] EXCEPT !.dirty = @ \cup {c}]
  <2>1. /\ t \in Trees /\ t.present = tree[a].present /\ t.head = tree[a].head
        /\ t.dirty = tree[a].dirty \cup {c} /\ t.replay = tree[a].replay
    BY <1>1, <1>2 DEF CellsOf, Trees
  <2>2. SetTree(a, t)
    BY DEF Edit
  <2> HIDE DEF t
  <2>3. TreeIs(a, t.present, t.head, t.dirty, t.replay)
    BY <1>1, <2>1, <2>2, TreeWrite
  <2> QED BY <2>1, <2>3
<1>4. IsFiniteSet(tree[a].dirty \cup {c})
  BY <1>1, FS_AddElement DEF PartsOf, TreeOf
<1>5. MoveOf(a) /\ PreservedInTarget'
  BY <1>1, <1>2, <1>3, <1>4, QuietMove DEF OnlyOf, JobIs, RowIs, TreeIs
<1>6. WorldOK'
  BY <1>1, <1>2, <1>3, <1>4 DEF WorldOK
<1>7. CellsOf(a)'
  BY <1>1, <1>2, <1>3, <1>4 DEF CellsOf, JobIs, RowIs, TreeIs
<1>8. PartsOf(a)'
  <2>1. TreeOf(a)'
    BY <1>1, <1>2, <1>3, <1>4 DEF PartsOf, TreeOf, CellsOf, Jobs, Status, Paused,
         IsIdle, At, JobIs, RowIs, TreeIs
  <2>2. StageOf(a)'
    BY <1>1, <1>2, <1>3, <1>4 DEF PartsOf, StageOf, CellsOf, Jobs, At, Status, IsIdle,
         Beyond, Landed, JobIs, RowIs, TreeIs
  <2>3. RowOf(a)'
    BY <1>1, <1>2, <1>3, <1>4 DEF PartsOf, RowOf, CellsOf, At, Status,
         HasIntegrationProof, JobIs, RowIs, TreeIs
  <2>4. DebtOf(a)'
    BY <1>1, <1>2, <1>3, <1>4 DEF PartsOf, DebtOf, CellsOf, At, Status, OwesPush,
         JobIs, RowIs, TreeIs
  <2>5. LockOf(a)'
    BY <1>1, <1>2, <1>3, <1>4 DEF PartsOf, StageOf, LockOf, CellsOf, At, Status,
         HoldsLock, SameAsReviewed, Beyond, Landed, JobIs, RowIs, TreeIs
  <2>6. BaseOf(a)'
    BY <1>1, <1>2, <1>3, <1>4 DEF PartsOf, BaseOf, CellsOf, At, Status, JobIs, RowIs,
         TreeIs
  <2> QED BY <2>1, <2>2, <2>3, <2>4, <2>5, <2>6 DEF PartsOf
<1> QED BY <1>5, <1>6, <1>7, <1>8 DEF Keeps

LEMMA CommitAndStayKeeps ==
  ASSUME Sound, NEW a \in Assignments, NEW c, CommitAndStay(a, c)
  PROVE  Keeps(a)
<1>1. /\ row \in [Assignments -> Rows] /\ tree \in [Assignments -> Trees]
      /\ job \in [Assignments -> Jobs]
      /\ frozen \in [Assignments -> {None} \cup Commits]
      /\ candidate \in [Assignments -> {None} \cup Commits]
      /\ CellsOf(a) /\ PartsOf(a) /\ WorldOK /\ PreservedInTarget
  BY SoundFacts
<1>2. /\ Free(a) /\ Status(a, "active") /\ IsIdle(a) /\ ~Paused(a)
      /\ UNCHANGED <<row, lock, preserved, frozen, candidate, recovery, target, remote,
                     primary, job, made, waived, landing, crashes>>
  BY DEF CommitAndStay, Free, database, refs, shared, history
<1>3. /\ Committed(a, c).head \in Commits
      /\ \E dirty \in SUBSET tree[a].dirty :
           IsFiniteSet(dirty) /\ TreeIs(a, TRUE, Committed(a, c).head, dirty, tree[a].replay)
  BY CommitIs DEF CommitAndStay
<1>4. MoveOf(a) /\ PreservedInTarget'
  BY <1>1, <1>2, <1>3, QuietMove DEF OnlyOf, JobIs, RowIs, TreeIs
<1>5. WorldOK'
  BY <1>1, <1>2, <1>3 DEF WorldOK
<1>6. CellsOf(a)'
  BY <1>1, <1>2, <1>3 DEF CellsOf, JobIs, RowIs, TreeIs
<1>7. PartsOf(a)'
  <2>1. TreeOf(a)'
    BY <1>1, <1>2, <1>3 DEF PartsOf, TreeOf, CellsOf, Jobs, Status, Paused, IsIdle, At,
         JobIs, RowIs, TreeIs
  <2>2. StageOf(a)'
    BY <1>1, <1>2, <1>3 DEF PartsOf, StageOf, CellsOf, Jobs, At, Status, IsIdle,
         Beyond, Landed, JobIs, RowIs, TreeIs
  <2>3. RowOf(a)'
    BY <1>1, <1>2, <1>3 DEF PartsOf, RowOf, CellsOf, At, Status, HasIntegrationProof,
         JobIs, RowIs, TreeIs
  <2>4. DebtOf(a)'
    BY <1>1, <1>2, <1>3 DEF PartsOf, DebtOf, CellsOf, At, Status, OwesPush, JobIs,
         RowIs, TreeIs
  <2>5. LockOf(a)'
    BY <1>1, <1>2, <1>3 DEF PartsOf, StageOf, LockOf, CellsOf, At, Status, HoldsLock,
         SameAsReviewed, Beyond, Landed, JobIs, RowIs, TreeIs
  <2>6. BaseOf(a)'
    BY <1>1, <1>2, <1>3 DEF PartsOf, BaseOf, CellsOf, At, Status, JobIs, RowIs, TreeIs
  <2> QED BY <2>1, <2>2, <2>3, <2>4, <2>5, <2>6 DEF PartsOf
<1> QED BY <1>4, <1>5, <1>6, <1>7 DEF Keeps

LEMMA BeginPushKeeps ==
  ASSUME Sound, NEW a \in Assignments, NEW c, BeginPush(a, c)
  PROVE  Keeps(a)
<1>1. /\ row \in [Assignments -> Rows] /\ tree \in [Assignments -> Trees]
      /\ job \in [Assignments -> Jobs]
      /\ frozen \in [Assignments -> {None} \cup Commits]
      /\ candidate \in [Assignments -> {None} \cup Commits]
      /\ CellsOf(a) /\ PartsOf(a) /\ WorldOK /\ PreservedInTarget
  BY SoundFacts
<1>2. /\ Free(a) /\ Status(a, "active") /\ IsIdle(a) /\ ~Paused(a) /\ remote \in Commits
      /\ UNCHANGED <<lock, preserved, frozen, candidate, recovery, target, remote,
                     primary, made, waived, landing, crashes>>
  BY <1>1 DEF BeginPush, Free, WorldOK, refs, shared, history
<1>3. /\ Committed(a, c).head \in Commits
      /\ \E dirty \in SUBSET tree[a].dirty :
           IsFiniteSet(dirty) /\ TreeIs(a, TRUE, Committed(a, c).head, dirty, tree[a].replay)
  BY CommitIs DEF BeginPush
<1>4. JobIs(a, "freeze", "push", None, FALSE)
  <2>1. "freeze" \in Places /\ "push" \in AllOps
    BY DEF Places, AllOps
  <2>2. job' = [job EXCEPT ![a] = [Idle EXCEPT !.at = "freeze", !.op = "push"]]
    BY DEF BeginPush
  <2> QED BY <2>1, <2>2, BeginsAt
<1> DEFINE debt == [phase |-> "integration-pending", frozen |-> Committed(a, c).head,
                    candidate |-> None, lease |-> remote]
<1>5. RowIs(a, "active", row[a].base, row[a].integrated, row[a].record, debt)
  <2> DEFINE r == [row[a] EXCEPT !.debt = debt]
  <2>1. /\ r \in Rows /\ r.status = "active" /\ r.base = row[a].base
        /\ r.integrated = row[a].integrated /\ r.record = row[a].record
        /\ r.debt = debt
    BY <1>1, <1>2, <1>3 DEF CellsOf, Rows, Debts, Status
  <2>2. SetRow(a, r)
    BY DEF BeginPush
  <2> HIDE DEF r
  <2>3. RowIs(a, r.status, r.base, r.integrated, r.record, r.debt)
    BY <1>1, <2>1, <2>2, RowWrite
  <2> QED BY <2>1, <2>3
<1>6. debt # None /\ debt.phase = "integration-pending"
  <2>1. debt \in Debts
    BY <1>2, <1>3 DEF Debts
  <2> QED BY <2>1, NoneAssumption
<1> HIDE DEF debt
<1>7. MoveOf(a) /\ PreservedInTarget'
  BY <1>1, <1>2, <1>3, <1>4, <1>5, <1>6, QuietMove DEF OnlyOf, JobIs, RowIs, TreeIs
<1>8. WorldOK'
  BY <1>1, <1>2, <1>3, <1>4, <1>5, <1>6 DEF WorldOK
<1>9. CellsOf(a)'
  BY <1>1, <1>2, <1>3, <1>4, <1>5, <1>6 DEF CellsOf, JobIs, RowIs, TreeIs
<1>10. PartsOf(a)'
  <2>1. TreeOf(a)'
    BY <1>1, <1>2, <1>3, <1>4, <1>5, <1>6 DEF PartsOf, TreeOf, CellsOf, Jobs, Status,
         Paused, IsIdle, At, JobIs, RowIs, TreeIs
  <2>2. StageOf(a)'
    BY <1>1, <1>2, <1>3, <1>4, <1>5, <1>6 DEF PartsOf, StageOf, CellsOf, Jobs, At,
         Status, IsIdle, Beyond, Landed, JobIs, RowIs, TreeIs
  <2>3. RowOf(a)'
    BY <1>1, <1>2, <1>3, <1>4, <1>5, <1>6 DEF PartsOf, RowOf, CellsOf, At, Status,
         HasIntegrationProof, JobIs, RowIs, TreeIs
  <2>4. DebtOf(a)'
    BY <1>1, <1>2, <1>3, <1>4, <1>5, <1>6 DEF PartsOf, DebtOf, CellsOf, At, Status,
         OwesPush, JobIs, RowIs, TreeIs
  <2>5. LockOf(a)'
    BY <1>1, <1>2, <1>3, <1>4, <1>5, <1>6 DEF PartsOf, StageOf, LockOf, CellsOf, At,
         Status, HoldsLock, SameAsReviewed, Beyond, Landed, JobIs, RowIs, TreeIs
  <2>6. BaseOf(a)'
    BY <1>1, <1>2, <1>3, <1>4, <1>5, <1>6 DEF PartsOf, BaseOf, CellsOf, At, Status,
         JobIs, RowIs, TreeIs
  <2> QED BY <2>1, <2>2, <2>3, <2>4, <2>5, <2>6 DEF PartsOf
<1> QED BY <1>7, <1>8, <1>9, <1>10 DEF Keeps

LEMMA BeginCommanderKeeps ==
  ASSUME Sound, NEW a \in Assignments, NEW c, NEW op, BeginCommander(a, c, op)
  PROVE  Keeps(a)
<1>1. /\ row \in [Assignments -> Rows] /\ tree \in [Assignments -> Trees]
      /\ job \in [Assignments -> Jobs]
      /\ frozen \in [Assignments -> {None} \cup Commits]
      /\ candidate \in [Assignments -> {None} \cup Commits]
      /\ CellsOf(a) /\ PartsOf(a) /\ WorldOK /\ PreservedInTarget
  BY SoundFacts
<1>2. /\ Free(a) /\ Status(a, "active") /\ IsIdle(a) /\ ~Paused(a)
      /\ UNCHANGED <<row, lock, preserved, frozen, candidate, recovery, target, remote,
                     primary, made, waived, landing, crashes>>
  BY DEF BeginCommander, Free, database, refs, shared, history
<1>3. /\ Committed(a, c).head \in Commits
      /\ \E dirty \in SUBSET tree[a].dirty :
           IsFiniteSet(dirty) /\ TreeIs(a, TRUE, Committed(a, c).head, dirty, tree[a].replay)
  BY CommitIs DEF BeginCommander
<1>4. op # "none" /\ JobIs(a, "freeze", op, None, FALSE)
  <2>1. "freeze" \in Places /\ op \in AllOps /\ op # "none"
    BY DEF Places, AllOps, BeginCommander
  <2>2. job' = [job EXCEPT ![a] = [Idle EXCEPT !.at = "freeze", !.op = op]]
    BY DEF BeginCommander
  <2> QED BY <2>1, <2>2, BeginsAt
<1>5. MoveOf(a) /\ PreservedInTarget'
  BY <1>1, <1>2, <1>3, <1>4, QuietMove DEF OnlyOf, JobIs, RowIs, TreeIs
<1>6. WorldOK'
  BY <1>1, <1>2, <1>3, <1>4 DEF WorldOK
<1>7. CellsOf(a)'
  BY <1>1, <1>2, <1>3, <1>4 DEF CellsOf, JobIs, RowIs, TreeIs
<1>8. PartsOf(a)'
  <2>1. TreeOf(a)'
    BY <1>1, <1>2, <1>3, <1>4 DEF PartsOf, TreeOf, CellsOf, Jobs, Status, Paused,
         IsIdle, At, JobIs, RowIs, TreeIs
  <2>2. StageOf(a)'
    BY <1>1, <1>2, <1>3, <1>4 DEF PartsOf, StageOf, CellsOf, Jobs, At, Status, IsIdle,
         Beyond, Landed, JobIs, RowIs, TreeIs
  <2>3. RowOf(a)'
    BY <1>1, <1>2, <1>3, <1>4 DEF PartsOf, RowOf, CellsOf, At, Status,
         HasIntegrationProof, JobIs, RowIs, TreeIs
  <2>4. DebtOf(a)'
    BY <1>1, <1>2, <1>3, <1>4 DEF PartsOf, DebtOf, CellsOf, At, Status, OwesPush,
         JobIs, RowIs, TreeIs
  <2>5. LockOf(a)'
    BY <1>1, <1>2, <1>3, <1>4 DEF PartsOf, StageOf, LockOf, CellsOf, At, Status,
         HoldsLock, SameAsReviewed, Beyond, Landed, JobIs, RowIs, TreeIs
  <2>6. BaseOf(a)'
    BY <1>1, <1>2, <1>3, <1>4 DEF PartsOf, BaseOf, CellsOf, At, Status, JobIs, RowIs,
         TreeIs
  <2> QED BY <2>1, <2>2, <2>3, <2>4, <2>5, <2>6 DEF PartsOf
<1> QED BY <1>5, <1>6, <1>7, <1>8 DEF Keeps

LEMMA BeginReconcileKeeps ==
  ASSUME Sound, NEW a \in Assignments, BeginReconcile(a)
  PROVE  Keeps(a)
<1>1. /\ row \in [Assignments -> Rows] /\ tree \in [Assignments -> Trees]
      /\ job \in [Assignments -> Jobs]
      /\ frozen \in [Assignments -> {None} \cup Commits]
      /\ candidate \in [Assignments -> {None} \cup Commits]
      /\ CellsOf(a) /\ PartsOf(a) /\ WorldOK /\ PreservedInTarget
  BY SoundFacts
<1>2. /\ Free(a) /\ Status(a, "active") /\ IsIdle(a) /\ ~Paused(a) /\ tree[a].present
      /\ UNCHANGED <<row, lock, preserved, frozen, candidate, recovery, tree, target, remote,
                     primary, made, waived, landing, crashes>>
  BY DEF BeginReconcile, Free, database, refs, shared, history
<1>3. JobIs(a, "freeze", "reconcile", None, FALSE)
  <2>1. "freeze" \in Places /\ "reconcile" \in AllOps
    BY DEF Places, AllOps
  <2>2. job' = [job EXCEPT ![a] = [Idle EXCEPT !.at = "freeze", !.op = "reconcile"]]
    BY DEF BeginReconcile
  <2> QED BY <2>1, <2>2, BeginsAt
<1>4. MoveOf(a) /\ PreservedInTarget'
  BY <1>1, <1>2, <1>3, QuietMove DEF OnlyOf, JobIs, RowIs, TreeIs
<1>5. WorldOK'
  BY <1>1, <1>2, <1>3 DEF WorldOK
<1>6. CellsOf(a)'
  BY <1>1, <1>2, <1>3 DEF CellsOf, JobIs, RowIs, TreeIs
<1>7. PartsOf(a)'
  <2>1. TreeOf(a)'
    BY <1>1, <1>2, <1>3 DEF PartsOf, TreeOf, CellsOf, Jobs, Status, Paused, IsIdle, At,
         JobIs, RowIs, TreeIs
  <2>2. StageOf(a)'
    BY <1>1, <1>2, <1>3 DEF PartsOf, StageOf, CellsOf, Jobs, At, Status, IsIdle,
         Beyond, Landed, JobIs, RowIs, TreeIs
  <2>3. RowOf(a)'
    BY <1>1, <1>2, <1>3 DEF PartsOf, RowOf, CellsOf, At, Status, HasIntegrationProof,
         JobIs, RowIs, TreeIs
  <2>4. DebtOf(a)'
    BY <1>1, <1>2, <1>3 DEF PartsOf, DebtOf, CellsOf, At, Status, OwesPush, JobIs,
         RowIs, TreeIs
  <2>5. LockOf(a)'
    BY <1>1, <1>2, <1>3 DEF PartsOf, StageOf, LockOf, CellsOf, At, Status, HoldsLock,
         SameAsReviewed, Beyond, Landed, JobIs, RowIs, TreeIs
  <2>6. BaseOf(a)'
    BY <1>1, <1>2, <1>3 DEF PartsOf, BaseOf, CellsOf, At, Status, JobIs, RowIs, TreeIs
  <2> QED BY <2>1, <2>2, <2>3, <2>4, <2>5, <2>6 DEF PartsOf
<1> QED BY <1>4, <1>5, <1>6, <1>7 DEF Keeps


LEMMA BeginCloseOutKeeps ==
  ASSUME Sound, NEW a \in Assignments, BeginCloseOut(a)
  PROVE  Keeps(a)
<1>1. /\ row \in [Assignments -> Rows] /\ tree \in [Assignments -> Trees]
      /\ job \in [Assignments -> Jobs]
      /\ frozen \in [Assignments -> {None} \cup Commits]
      /\ candidate \in [Assignments -> {None} \cup Commits]
      /\ CellsOf(a) /\ PartsOf(a) /\ WorldOK /\ PreservedInTarget
  BY SoundFacts
<1>2. /\ Free(a) /\ IsIdle(a) /\ ~Paused(a) /\ tree[a].present /\ tree[a].head \in Commits
      /\ UNCHANGED <<row, lock, preserved, frozen, target, remote, primary, made, waived,
                     landing, crashes>>
      /\ target \in Commits
  BY <1>1 DEF BeginCloseOut, Free, PartsOf, TreeOf, WorldOK, database, shared, history
<1>3. recovery' \subseteq Commits
  BY <1>2, SnapshotIs DEF BeginCloseOut
<1>4. TreeIs(a, tree[a].present, tree[a].head, {}, tree[a].replay)
  <2> DEFINE t == [tree[a] EXCEPT !.dirty = {}]
  <2>1. /\ t \in Trees /\ t.present = tree[a].present
        /\ t.head = tree[a].head
        /\ t.dirty = {} /\ t.replay = tree[a].replay
    BY <1>1 DEF CellsOf, Trees
  <2>2. SetTree(a, t)
    BY DEF BeginCloseOut
  <2> HIDE DEF t
  <2>3. TreeIs(a, t.present, t.head, t.dirty, t.replay)
    BY <1>1, <2>1, <2>2, TreeWrite
  <2> QED BY <2>1, <2>3
<1>5. \/ /\ Status(a, "active") /\ JobIs(a, "freeze", "close-out", None, FALSE)
         /\ candidate' = candidate
      \/ /\ Status(a, "ready") /\ JobIs(a, "lock", "close-out", target, TRUE)
         /\ candidate' = [candidate EXCEPT ![a] = candidate'[a]]
         /\ candidate'[a] = tree[a].head /\ SameAsReviewed(a, target, tree[a].head)
      \/ job' = job /\ candidate' = candidate
      \/ /\ Status(a, "integrated") /\ JobIs(a, "close", "close-out", None, FALSE)
         /\ candidate' = candidate
  <2>1. "freeze" \in Places /\ "lock" \in Places /\ "close" \in Places /\ "close-out" \in AllOps
    BY DEF Places, AllOps
  <2> DEFINE entry == [Idle EXCEPT !.op = "close-out"]
             opened == [entry EXCEPT !.at = "lock", !.expected = target, !.attested = TRUE]
  <2>2. ASSUME NEW at \in Places, job' = [job EXCEPT ![a] = [entry EXCEPT !.at = at]]
        PROVE  JobIs(a, at, "close-out", None, FALSE)
    <3> DEFINE j == [entry EXCEPT !.at = at]
    <3>1. /\ j.at = at /\ j.op = "close-out" /\ j.expected = None /\ j.attested = FALSE
          /\ j \in Jobs
      BY <2>1 DEF Idle, Jobs
    <3>2. job' = [job EXCEPT ![a] = j]
      BY <2>2
    <3> HIDE DEF j, entry, Jobs
    <3> QED BY <1>1, <3>1, <3>2 DEF JobIs
  <2>3. ASSUME job' = [job EXCEPT ![a] = opened]
        PROVE  JobIs(a, "lock", "close-out", target, TRUE)
    <3>1. /\ opened.at = "lock" /\ opened.op = "close-out" /\ opened.expected = target
          /\ opened.attested = TRUE /\ opened \in Jobs
      BY <1>2, <2>1 DEF Idle, Jobs
    <3> HIDE DEF opened, Jobs
    <3> QED BY <1>1, <2>3, <3>1 DEF JobIs
  <2>4. \/ Status(a, "active") /\ job' = [job EXCEPT ![a] = [entry EXCEPT !.at = "freeze"]]
           /\ candidate' = candidate
        \/ /\ Status(a, "ready") /\ SameAsReviewed(a, target, tree[a].head)
           /\ candidate' = [candidate EXCEPT ![a] = tree[a].head]
           /\ job' = [job EXCEPT ![a] = opened]
        \/ job' = job /\ candidate' = candidate
        \/ Status(a, "integrated") /\ job' = [job EXCEPT ![a] = [entry EXCEPT !.at = "close"]]
           /\ candidate' = candidate
    BY DEF BeginCloseOut, SetCandidate
  <2> HIDE DEF entry, opened
  <2> QED BY <1>1, <2>1, <2>2, <2>3, <2>4
<1>6. MoveOf(a) /\ PreservedInTarget'
  BY <1>1, <1>2, <1>3, <1>4, <1>5, QuietMove DEF OnlyOf, JobIs, RowIs, TreeIs
<1>7. WorldOK'
  BY <1>1, <1>2, <1>3, <1>4, <1>5 DEF WorldOK
<1>8. CellsOf(a)'
  BY <1>1, <1>2, <1>3, <1>4, <1>5 DEF CellsOf, JobIs, RowIs, TreeIs
<1>9. PartsOf(a)'
  <2>1. TreeOf(a)'
    BY <1>1, <1>2, <1>3, <1>4, <1>5, FS_EmptySet DEF PartsOf, TreeOf, CellsOf, Jobs,
         Status, Paused, IsIdle, At, JobIs, RowIs, TreeIs
  <2>2. StageOf(a)'
    BY <1>1, <1>2, <1>3, <1>4, <1>5 DEF PartsOf, StageOf, CellsOf, Jobs, At, Status,
         IsIdle, Beyond, Landed, JobIs, RowIs, TreeIs
  <2>3. RowOf(a)'
    BY <1>1, <1>2, <1>3, <1>4, <1>5 DEF PartsOf, RowOf, CellsOf, At, Status,
         HasIntegrationProof, JobIs, RowIs, TreeIs
  <2>4. DebtOf(a)'
    BY <1>1, <1>2, <1>3, <1>4, <1>5 DEF PartsOf, DebtOf, CellsOf, At, Status, OwesPush,
         JobIs, RowIs, TreeIs
  <2>5. LockOf(a)'
    BY <1>1, <1>2, <1>3, <1>4, <1>5 DEF PartsOf, StageOf, LockOf, CellsOf, At, Status,
         HoldsLock, SameAsReviewed, Beyond, Landed, JobIs, RowIs, TreeIs
  <2>6. BaseOf(a)'
    BY <1>1, <1>2, <1>3, <1>4, <1>5 DEF PartsOf, BaseOf, CellsOf, At, Status, JobIs,
         RowIs, TreeIs
  <2> QED BY <2>1, <2>2, <2>3, <2>4, <2>5, <2>6 DEF PartsOf
<1> QED BY <1>6, <1>7, <1>8, <1>9 DEF Keeps

LEMMA BeginRepairKeeps ==
  ASSUME Sound, NEW a \in Assignments, NEW c, NEW op, BeginRepair(a, c, op)
  PROVE  Keeps(a)
<1>1. /\ row \in [Assignments -> Rows] /\ tree \in [Assignments -> Trees]
      /\ job \in [Assignments -> Jobs]
      /\ frozen \in [Assignments -> {None} \cup Commits]
      /\ candidate \in [Assignments -> {None} \cup Commits]
      /\ CellsOf(a) /\ PartsOf(a) /\ WorldOK /\ PreservedInTarget
  BY SoundFacts
<1>2. /\ Free(a) /\ Status(a, "ready") /\ IsIdle(a) /\ ~Paused(a) /\ target \in Commits
      /\ UNCHANGED <<row, lock, preserved, frozen, recovery, target, remote,
                     primary, made, waived, landing, crashes>>
  BY <1>1 DEF BeginRepair, Free, WorldOK, database, shared, history
<1>3. /\ Committed(a, c).head \in Commits
      /\ \E dirty \in SUBSET tree[a].dirty :
           IsFiniteSet(dirty) /\ TreeIs(a, TRUE, Committed(a, c).head, dirty, tree[a].replay)
  BY CommitIs DEF BeginRepair
<1>4. op \notin {"none", "close-out"} /\ JobIs(a, "lock", op, target, TRUE)
  <2>1. op \in AllOps /\ op \notin {"none", "close-out"}
    BY DEF AllOps, BeginRepair
  <2> QED BY <2>1, AttestedIs DEF BeginRepair
<1>5. /\ candidate' = [candidate EXCEPT ![a] = candidate'[a]]
      /\ candidate'[a] = Committed(a, c).head
  BY <1>1 DEF BeginRepair, SetCandidate
<1>6. MoveOf(a) /\ PreservedInTarget'
  BY <1>1, <1>2, <1>3, <1>4, <1>5, QuietMove DEF OnlyOf, JobIs, RowIs, TreeIs
<1>7. WorldOK'
  BY <1>1, <1>2, <1>3, <1>4, <1>5 DEF WorldOK
<1>8. CellsOf(a)'
  BY <1>1, <1>2, <1>3, <1>4, <1>5 DEF CellsOf, JobIs, RowIs, TreeIs
<1>9. PartsOf(a)'
  <2>1. TreeOf(a)'
    BY <1>1, <1>2, <1>3, <1>4, <1>5 DEF PartsOf, TreeOf, CellsOf, Jobs, Status, Paused,
         IsIdle, At, JobIs, RowIs, TreeIs
  <2>2. StageOf(a)'
    BY <1>1, <1>2, <1>3, <1>4, <1>5 DEF PartsOf, StageOf, CellsOf, Jobs, At, Status,
         IsIdle, Beyond, Landed, JobIs, RowIs, TreeIs
  <2>3. RowOf(a)'
    BY <1>1, <1>2, <1>3, <1>4, <1>5 DEF PartsOf, RowOf, CellsOf, At, Status,
         HasIntegrationProof, JobIs, RowIs, TreeIs
  <2>4. DebtOf(a)'
    BY <1>1, <1>2, <1>3, <1>4, <1>5 DEF PartsOf, DebtOf, CellsOf, At, Status, OwesPush,
         JobIs, RowIs, TreeIs
  <2>5. LockOf(a)'
    BY <1>1, <1>2, <1>3, <1>4, <1>5 DEF PartsOf, StageOf, LockOf, CellsOf, At, Status,
         HoldsLock, SameAsReviewed, Beyond, Landed, JobIs, RowIs, TreeIs
  <2>6. BaseOf(a)'
    BY <1>1, <1>2, <1>3, <1>4, <1>5 DEF PartsOf, BaseOf, CellsOf, At, Status, JobIs,
         RowIs, TreeIs
  <2> QED BY <2>1, <2>2, <2>3, <2>4, <2>5, <2>6 DEF PartsOf
<1> QED BY <1>6, <1>7, <1>8, <1>9 DEF Keeps

LEMMA BeginReconcileReadyKeeps ==
  ASSUME Sound, NEW a \in Assignments, BeginReconcileReady(a)
  PROVE  Keeps(a)
<1>1. /\ row \in [Assignments -> Rows] /\ tree \in [Assignments -> Trees]
      /\ job \in [Assignments -> Jobs]
      /\ frozen \in [Assignments -> {None} \cup Commits]
      /\ candidate \in [Assignments -> {None} \cup Commits]
      /\ CellsOf(a) /\ PartsOf(a) /\ WorldOK /\ PreservedInTarget
  BY SoundFacts
<1>2. /\ Free(a) /\ Status(a, "ready") /\ IsIdle(a) /\ ~Paused(a) /\ target \in Commits
      /\ tree[a].present /\ tree[a].head \in Commits
      /\ UNCHANGED <<row, lock, preserved, frozen, recovery, tree, target, remote,
                     primary, made, waived, landing, crashes>>
  BY <1>1 DEF BeginReconcileReady, Free, WorldOK, PartsOf, TreeOf, database, shared, history
<1>3. JobIs(a, "lock", "reconcile", target, TRUE)
  <2>1. "reconcile" \in AllOps
    BY DEF AllOps
  <2> QED BY <2>1, AttestedIs DEF BeginReconcileReady
<1>4. /\ candidate' = [candidate EXCEPT ![a] = candidate'[a]]
      /\ candidate'[a] = tree[a].head
  BY <1>1 DEF BeginReconcileReady, SetCandidate
<1>5. MoveOf(a) /\ PreservedInTarget'
  BY <1>1, <1>2, <1>3, <1>4, QuietMove DEF OnlyOf, JobIs, RowIs, TreeIs
<1>6. WorldOK'
  BY <1>1, <1>2, <1>3, <1>4 DEF WorldOK
<1>7. CellsOf(a)'
  BY <1>1, <1>2, <1>3, <1>4 DEF CellsOf, JobIs, RowIs, TreeIs
<1>8. PartsOf(a)'
  <2>1. TreeOf(a)'
    BY <1>1, <1>2, <1>3, <1>4 DEF PartsOf, TreeOf, CellsOf, Jobs, Status, Paused,
         IsIdle, At, JobIs, RowIs, TreeIs
  <2>2. StageOf(a)'
    BY <1>1, <1>2, <1>3, <1>4 DEF PartsOf, StageOf, CellsOf, Jobs, At, Status, IsIdle,
         Beyond, Landed, JobIs, RowIs, TreeIs
  <2>3. RowOf(a)'
    BY <1>1, <1>2, <1>3, <1>4 DEF PartsOf, RowOf, CellsOf, At, Status,
         HasIntegrationProof, JobIs, RowIs, TreeIs
  <2>4. DebtOf(a)'
    BY <1>1, <1>2, <1>3, <1>4 DEF PartsOf, DebtOf, CellsOf, At, Status, OwesPush,
         JobIs, RowIs, TreeIs
  <2>5. LockOf(a)'
    BY <1>1, <1>2, <1>3, <1>4 DEF PartsOf, StageOf, LockOf, CellsOf, At, Status,
         HoldsLock, SameAsReviewed, Beyond, Landed, JobIs, RowIs, TreeIs
  <2>6. BaseOf(a)'
    BY <1>1, <1>2, <1>3, <1>4 DEF PartsOf, BaseOf, CellsOf, At, Status, JobIs, RowIs,
         TreeIs
  <2> QED BY <2>1, <2>2, <2>3, <2>4, <2>5, <2>6 DEF PartsOf
<1> QED BY <1>5, <1>6, <1>7, <1>8 DEF Keeps

LEMMA BeginConfirmKeeps ==
  ASSUME Sound, NEW a \in Assignments, BeginConfirm(a)
  PROVE  Keeps(a)
<1>1. /\ row \in [Assignments -> Rows] /\ tree \in [Assignments -> Trees]
      /\ job \in [Assignments -> Jobs]
      /\ frozen \in [Assignments -> {None} \cup Commits]
      /\ candidate \in [Assignments -> {None} \cup Commits]
      /\ CellsOf(a) /\ PartsOf(a) /\ WorldOK /\ PreservedInTarget
  BY SoundFacts
<1>2. /\ Free(a) /\ Status(a, "ready") /\ IsIdle(a) /\ ~Paused(a) /\ target \in Commits
      /\ tree[a].present /\ tree[a].head \in Commits /\ candidate[a] = tree[a].head
      /\ UNCHANGED <<row, lock, preserved, frozen, candidate, recovery, tree, target, remote,
                     primary, made, waived, landing, crashes>>
  BY <1>1 DEF BeginConfirm, Free, WorldOK, PartsOf, TreeOf, database, refs, shared, history
<1>3. JobIs(a, "lock", "reconcile", target, TRUE)
  <2>1. "reconcile" \in AllOps
    BY DEF AllOps
  <2> QED BY <2>1, AttestedIs DEF BeginConfirm
<1>4. MoveOf(a) /\ PreservedInTarget'
  BY <1>1, <1>2, <1>3, QuietMove DEF OnlyOf, JobIs, RowIs, TreeIs
<1>5. WorldOK'
  BY <1>1, <1>2, <1>3 DEF WorldOK
<1>6. CellsOf(a)'
  BY <1>1, <1>2, <1>3 DEF CellsOf, JobIs, RowIs, TreeIs
<1>7. PartsOf(a)'
  <2>1. TreeOf(a)'
    BY <1>1, <1>2, <1>3 DEF PartsOf, TreeOf, CellsOf, Jobs, Status, Paused, IsIdle, At,
         JobIs, RowIs, TreeIs
  <2>2. StageOf(a)'
    BY <1>1, <1>2, <1>3 DEF PartsOf, StageOf, CellsOf, Jobs, At, Status, IsIdle,
         Beyond, Landed, JobIs, RowIs, TreeIs
  <2>3. RowOf(a)'
    BY <1>1, <1>2, <1>3 DEF PartsOf, RowOf, CellsOf, At, Status, HasIntegrationProof,
         JobIs, RowIs, TreeIs
  <2>4. DebtOf(a)'
    BY <1>1, <1>2, <1>3 DEF PartsOf, DebtOf, CellsOf, At, Status, OwesPush, JobIs,
         RowIs, TreeIs
  <2>5. LockOf(a)'
    BY <1>1, <1>2, <1>3 DEF PartsOf, StageOf, LockOf, CellsOf, At, Status, HoldsLock,
         SameAsReviewed, Beyond, Landed, JobIs, RowIs, TreeIs
  <2>6. BaseOf(a)'
    BY <1>1, <1>2, <1>3 DEF PartsOf, BaseOf, CellsOf, At, Status, JobIs, RowIs, TreeIs
  <2> QED BY <2>1, <2>2, <2>3, <2>4, <2>5, <2>6 DEF PartsOf
<1> QED BY <1>4, <1>5, <1>6, <1>7 DEF Keeps


-----------------------------------------------------------------------------
(* Freeze, rebase, proof and compare-and-swap.                              *)

LEMMA FreezeKeeps ==
  ASSUME Sound, NEW a \in Assignments, Freeze(a)
  PROVE  Keeps(a)
<1>1. /\ row \in [Assignments -> Rows] /\ tree \in [Assignments -> Trees]
      /\ job \in [Assignments -> Jobs]
      /\ frozen \in [Assignments -> {None} \cup Commits]
      /\ candidate \in [Assignments -> {None} \cup Commits]
      /\ CellsOf(a) /\ PartsOf(a) /\ WorldOK /\ PreservedInTarget
  BY SoundFacts
<1>2. /\ At(a, "freeze") /\ Status(a, "active") /\ tree[a].head \in Commits
      /\ target \in Commits /\ ~Paused(a) /\ tree[a].present
  BY <1>1 DEF Freeze, PartsOf, StageOf, TreeOf, At, Status, IsIdle, WorldOK
<1>3. /\ frozen' = [frozen EXCEPT ![a] = frozen'[a]] /\ frozen'[a] = tree[a].head
      /\ tree' = tree /\ candidate' = candidate
      /\ UNCHANGED <<lock, target, landing, preserved, recovery, remote, primary, made,
                     waived, crashes>>
  BY <1>1 DEF Freeze, SetFrozen, shared, history
<1>4. \/ /\ IsClean(a)
         /\ RowIs(a, "ready", row[a].base, row[a].integrated, row[a].record, row[a].debt)
         /\ JobIs(a, "lock", job[a].op, target, job[a].attested)
      \/ ~IsClean(a) /\ row' = row /\ JobIs(a, "idle", "none", None, FALSE)
  <2>1. CASE IsClean(a)
    <3>1. JobIs(a, "lock", job[a].op, target, job[a].attested)
      <4> DEFINE j == [job[a] EXCEPT !.at = "lock", !.expected = target]
      <4>1. "lock" \in Places
        BY DEF Places
      <4>2. /\ j.at = "lock" /\ j.op = job[a].op /\ j.expected = target
            /\ j.attested = job[a].attested /\ j \in Jobs
        BY <1>1, <1>2, <4>1 DEF CellsOf, Jobs
      <4>3. job' = [job EXCEPT ![a] = j]
        BY <2>1, <1>1 DEF Freeze
      <4> HIDE DEF j, Jobs
      <4> QED BY <1>1, <4>2, <4>3 DEF JobIs
    <3>2. RowIs(a, "ready", row[a].base, row[a].integrated, row[a].record, row[a].debt)
      <4> DEFINE r == [row[a] EXCEPT !.status = "ready"]
      <4>1. /\ r \in Rows /\ r.status = "ready" /\ r.base = row[a].base
            /\ r.integrated = row[a].integrated /\ r.record = row[a].record
            /\ r.debt = row[a].debt
        BY <1>1 DEF CellsOf, Rows
      <4>2. SetRow(a, r)
        BY <2>1 DEF Freeze
      <4> HIDE DEF r
      <4>3. RowIs(a, r.status, r.base, r.integrated, r.record, r.debt)
        BY <1>1, <4>1, <4>2, RowWrite
      <4> QED BY <4>1, <4>3
    <3> QED BY <2>1, <3>1, <3>2
  <2>2. CASE ~IsClean(a)
    BY <2>2, <1>1, FinishIs DEF Freeze
  <2> QED BY <2>1, <2>2
<1>5. MoveOf(a) /\ PreservedInTarget'
  BY <1>1, <1>2, <1>3, <1>4, QuietMove DEF OnlyOf, JobIs, RowIs, TreeIs
<1>6. WorldOK'
  BY <1>1, <1>2, <1>3, <1>4 DEF WorldOK
<1>7. CellsOf(a)'
  BY <1>1, <1>2, <1>3, <1>4 DEF CellsOf, JobIs, RowIs, TreeIs
<1>8. PartsOf(a)'
  <2>1. TreeOf(a)'
    BY <1>1, <1>2, <1>3, <1>4 DEF PartsOf, TreeOf, CellsOf, Jobs, Status, Paused,
         IsIdle, At, JobIs, RowIs, TreeIs
  <2>2. StageOf(a)'
    BY <1>1, <1>2, <1>3, <1>4 DEF PartsOf, StageOf, CellsOf, Jobs, At, Status, IsIdle,
         Beyond, Landed, JobIs, RowIs, TreeIs
  <2>3. RowOf(a)'
    BY <1>1, <1>2, <1>3, <1>4 DEF PartsOf, RowOf, CellsOf, At, Status,
         HasIntegrationProof, JobIs, RowIs, TreeIs
  <2>4. DebtOf(a)'
    BY <1>1, <1>2, <1>3, <1>4 DEF PartsOf, DebtOf, CellsOf, At, Status, OwesPush,
         JobIs, RowIs, TreeIs
  <2>5. LockOf(a)'
    BY <1>1, <1>2, <1>3, <1>4 DEF PartsOf, StageOf, LockOf, CellsOf, At, Status,
         HoldsLock, SameAsReviewed, Beyond, Landed, JobIs, RowIs, TreeIs
  <2>6. BaseOf(a)'
    BY <1>1, <1>2, <1>3, <1>4 DEF PartsOf, BaseOf, CellsOf, At, Status, JobIs, RowIs,
         TreeIs
  <2> QED BY <2>1, <2>2, <2>3, <2>4, <2>5, <2>6 DEF PartsOf
<1> QED BY <1>5, <1>6, <1>7, <1>8 DEF Keeps

LEMMA AcquireLockKeeps ==
  ASSUME Sound, NEW a \in Assignments, AcquireLock(a)
  PROVE  Keeps(a)
<1>1. /\ row \in [Assignments -> Rows] /\ tree \in [Assignments -> Trees]
      /\ job \in [Assignments -> Jobs]
      /\ frozen \in [Assignments -> {None} \cup Commits]
      /\ candidate \in [Assignments -> {None} \cup Commits]
      /\ CellsOf(a) /\ PartsOf(a) /\ WorldOK /\ PreservedInTarget
  BY SoundFacts
<1>2. /\ At(a, "lock") /\ Status(a, "ready") /\ job[a].expected \in Commits
      /\ UNCHANGED <<row, tree, frozen, candidate, target, landing, preserved, recovery,
                     remote, primary, made, waived, crashes>>
  BY <1>1 DEF AcquireLock, PartsOf, StageOf, At, refs, shared, history
<1>3. \/ /\ lock = None /\ lock' = [owner |-> a, expected |-> job[a].expected]
         /\ \/ /\ job[a].attested
               /\ JobIs(a, "advance", job[a].op, job[a].expected, job[a].attested)
            \/ /\ ~job[a].attested
               /\ JobIs(a, "replay", job[a].op, job[a].expected, job[a].attested)
      \/ lock' = lock /\ JobIs(a, "idle", "none", None, FALSE)
  <2>1. "advance" \in Places /\ "replay" \in Places
    BY DEF Places
  <2>2. CASE lock = None
    BY <2>1, <2>2, <1>1, GotoIs DEF AcquireLock
  <2>3. CASE lock # None
    BY <2>3, <1>1, FinishIs DEF AcquireLock
  <2> QED BY <2>2, <2>3
<1>4. /\ lock' \in {None} \cup Locks
      /\ \/ lock' = lock
         \/ (lock = None \/ lock.owner = a) /\ (lock' = None \/ lock'.owner = a)
  <2>1. [owner |-> a, expected |-> job[a].expected] \in Locks
    BY <1>2 DEF Locks
  <2>2. lock \in {None} \cup Locks /\ [owner |-> a, expected |-> job[a].expected].owner = a
    BY <1>1 DEF WorldOK
  <2>3. \/ lock' = lock
        \/ lock = None /\ lock' = [owner |-> a, expected |-> job[a].expected]
    BY <1>3
  <2> QED BY <2>1, <2>2, <2>3
<1>5. MoveOf(a) /\ PreservedInTarget'
  BY <1>1, <1>2, <1>3, <1>4, QuietMove DEF OnlyOf, JobIs, RowIs, TreeIs
<1>6. WorldOK'
  BY <1>1, <1>2, <1>3, <1>4 DEF WorldOK
<1>7. CellsOf(a)'
  BY <1>1, <1>2, <1>3, <1>4 DEF CellsOf, JobIs, RowIs, TreeIs
<1>8. PartsOf(a)'
  <2>1. TreeOf(a)'
    BY <1>1, <1>2, <1>3, <1>4 DEF PartsOf, TreeOf, CellsOf, Jobs, Status, Paused,
         IsIdle, At, JobIs, RowIs, TreeIs
  <2>2. StageOf(a)'
    BY <1>1, <1>2, <1>3, <1>4 DEF PartsOf, StageOf, CellsOf, Jobs, At, Status, IsIdle,
         Beyond, Landed, JobIs, RowIs, TreeIs
  <2>3. RowOf(a)'
    BY <1>1, <1>2, <1>3, <1>4 DEF PartsOf, RowOf, CellsOf, At, Status,
         HasIntegrationProof, JobIs, RowIs, TreeIs
  <2>4. DebtOf(a)'
    BY <1>1, <1>2, <1>3, <1>4 DEF PartsOf, DebtOf, CellsOf, At, Status, OwesPush,
         JobIs, RowIs, TreeIs
  <2>5. LockOf(a)'
    BY <1>1, <1>2, <1>3, <1>4 DEF PartsOf, StageOf, LockOf, CellsOf, At, Status,
         HoldsLock, SameAsReviewed, Beyond, Landed, JobIs, RowIs, TreeIs
  <2>6. BaseOf(a)'
    BY <1>1, <1>2, <1>3, <1>4 DEF PartsOf, BaseOf, CellsOf, At, Status, JobIs, RowIs,
         TreeIs
  <2> QED BY <2>1, <2>2, <2>3, <2>4, <2>5, <2>6 DEF PartsOf
<1> QED BY <1>5, <1>6, <1>7, <1>8 DEF Keeps

LEMMA ReplayIsTyped ==
  ASSUME Sound, NEW a \in Assignments, tree[a].head \in Commits
  PROVE  LET replay == Replayed(ReplayPlan(target, row[a].base, tree[a].head)) IN
         replay.done \in Commits /\ replay.left \in Commits
<1>1. target \in Commits /\ row[a].base \in Commits
  BY SoundFacts, RowFields DEF WorldOK, CellsOf
<1>2. ReplayPlan(target, row[a].base, tree[a].head) \in ReplayStates
  BY <1>1, ReplayPlanFacts
<1>3. Replayed(ReplayPlan(target, row[a].base, tree[a].head)) \in ReplayStates
  BY <1>2, ReplayedFacts
<1> QED BY <1>3 DEF ReplayStates

LEMMA ReplayKeeps ==
  ASSUME Sound, NEW a \in Assignments, Replay(a)
  PROVE  Keeps(a)
<1>1. /\ row \in [Assignments -> Rows] /\ tree \in [Assignments -> Trees]
      /\ job \in [Assignments -> Jobs]
      /\ frozen \in [Assignments -> {None} \cup Commits]
      /\ candidate \in [Assignments -> {None} \cup Commits]
      /\ CellsOf(a) /\ PartsOf(a) /\ WorldOK /\ PreservedInTarget
  BY SoundFacts
<1> DEFINE replay == Replayed(ReplayPlan(target, row[a].base, tree[a].head))
           reviewable == MergeBase(frozen[a], job[a].expected) = row[a].base
<1>2. /\ At(a, "replay") /\ Status(a, "ready") /\ job[a].expected \in Commits
      /\ ~Paused(a) /\ tree[a].present /\ tree[a].head \in Commits /\ frozen[a] \in Commits
      /\ HoldsLock(a, job[a].expected) /\ ~job[a].attested
      /\ UNCHANGED <<row, frozen, target, landing, preserved, recovery,
                     remote, primary, made, waived, crashes>>
  BY <1>1 DEF Replay, PartsOf, StageOf, TreeOf, RowOf, LockOf, At, Status, IsIdle, Beyond,
              shared, history
<1>3. replay.done \in Commits /\ replay.left \in Commits
  BY <1>2, ReplayIsTyped
<1>4. \/ BackToFrozen(a)
      \/ /\ SetTree(a, [tree[a] EXCEPT !.head = replay.done]) /\ Goto(a, "prove")
         /\ UNCHANGED <<lock, candidate>>
      \/ /\ SetTree(a, [tree[a] EXCEPT !.replay =
              [done |-> replay.done, left |-> replay.left, staged |-> None]])
         /\ replay.left # Root
         /\ ReleaseExactLock(a, job[a].expected) /\ Finish(a) /\ UNCHANGED candidate
      \/ /\ ReleaseExactLock(a, job[a].expected) /\ Finish(a) /\ UNCHANGED <<tree, candidate>>
  BY DEF Replay, Complete
<1> HIDE DEF replay, reviewable
<1>5. \/ /\ candidate' = [candidate EXCEPT ![a] = candidate'[a]] /\ candidate'[a] = None
         /\ TreeIs(a, tree[a].present, frozen[a], {}, tree[a].replay)
         /\ lock' = lock \/ (lock.owner = a /\ lock' = None)
         /\ JobIs(a, "idle", "none", None, FALSE)
      \/ /\ candidate' = candidate /\ lock' = lock
         /\ TreeIs(a, tree[a].present, replay.done, tree[a].dirty, tree[a].replay)
         /\ JobIs(a, "prove", job[a].op, job[a].expected, job[a].attested)
      \/ /\ candidate' = candidate
         /\ lock' = lock \/ (lock.owner = a /\ lock' = None)
         /\ TreeIs(a, tree[a].present, tree[a].head, tree[a].dirty,
                   [done |-> replay.done, left |-> replay.left, staged |-> None])
         /\ replay.left # Root
         /\ JobIs(a, "idle", "none", None, FALSE)
      \/ /\ candidate' = candidate /\ tree' = tree
         /\ lock' = lock \/ (lock.owner = a /\ lock' = None)
         /\ JobIs(a, "idle", "none", None, FALSE)
  <2>1. ASSUME BackToFrozen(a)
        PROVE  /\ candidate' = [candidate EXCEPT ![a] = candidate'[a]] /\ candidate'[a] = None
               /\ TreeIs(a, tree[a].present, frozen[a], {}, tree[a].replay)
               /\ lock' = lock \/ (lock.owner = a /\ lock' = None)
               /\ JobIs(a, "idle", "none", None, FALSE)
    BY <1>2, <2>1, BackIs
  <2>2. ASSUME SetTree(a, [tree[a] EXCEPT !.head = replay.done])
        PROVE  TreeIs(a, tree[a].present, replay.done, tree[a].dirty, tree[a].replay)
    <3> DEFINE t == [tree[a] EXCEPT !.head = replay.done]
    <3>1. /\ t \in Trees /\ t.present = tree[a].present
          /\ t.head = replay.done
          /\ t.dirty = tree[a].dirty /\ t.replay = tree[a].replay
      BY <1>1, <1>3 DEF CellsOf, Trees
    <3>2. SetTree(a, t)
      BY <2>2 DEF SetTree
    <3> HIDE DEF t
    <3>3. TreeIs(a, t.present, t.head, t.dirty, t.replay)
      BY <1>1, <3>1, <3>2, TreeWrite
    <3> QED BY <3>1, <3>3
  <2>3. ASSUME SetTree(a, [tree[a] EXCEPT !.replay =
                  [done |-> replay.done, left |-> replay.left, staged |-> None]])
        PROVE  TreeIs(a, tree[a].present, tree[a].head, tree[a].dirty,
                      [done |-> replay.done, left |-> replay.left, staged |-> None])
    <3> DEFINE stopped == [done |-> replay.done, left |-> replay.left, staged |-> None]
    <3>0. stopped \in Replays
      BY <1>3 DEF Replays
    <3> HIDE DEF stopped
    <3> DEFINE t == [tree[a] EXCEPT !.replay = stopped]
    <3>1. /\ t \in Trees /\ t.present = tree[a].present
          /\ t.head = tree[a].head
          /\ t.dirty = tree[a].dirty /\ t.replay = stopped
      BY <1>1, <3>0 DEF CellsOf, Trees
    <3>2. SetTree(a, t)
      BY <2>3 DEF stopped
    <3> HIDE DEF t
    <3>3. TreeIs(a, t.present, t.head, t.dirty, t.replay)
      BY <1>1, <3>1, <3>2, TreeWrite
    <3> QED BY <3>1, <3>3 DEF stopped
  <2>4. Goto(a, "prove") => JobIs(a, "prove", job[a].op, job[a].expected, job[a].attested)
    BY <1>1, GotoIs DEF Places
  <2>5. Finish(a) => JobIs(a, "idle", "none", None, FALSE)
    BY <1>1, FinishIs
  <2>6. ReleaseExactLock(a, job[a].expected) => lock' = lock \/ (lock.owner = a /\ lock' = None)
    BY <1>2, ReleaseIs
  <2> QED BY <1>4, <2>1, <2>2, <2>3, <2>4, <2>5, <2>6
<1>6. MoveOf(a) /\ PreservedInTarget'
  BY <1>1, <1>2, <1>3, <1>5, QuietMove DEF OnlyOf, JobIs, RowIs, TreeIs
<1>7. WorldOK'
  BY <1>1, <1>2, <1>3, <1>5 DEF WorldOK
<1>8. CellsOf(a)'
  BY <1>1, <1>2, <1>3, <1>5 DEF CellsOf, JobIs, RowIs, TreeIs
<1>9. PartsOf(a)'
  <2>1. TreeOf(a)'
    <3>1. /\ tree'[a].present = tree[a].present /\ tree'[a].head \in Commits
          /\ IsFiniteSet(tree'[a].dirty)
      BY <1>1, <1>2, <1>3, <1>5, FS_EmptySet DEF PartsOf, TreeOf, TreeIs
    <3>2. tree'[a].replay # None => tree'[a].replay.left # Root /\ job'[a].at = "idle"
      <4>1. tree[a].replay = None
        BY <1>2 DEF Paused
      <4>2. \/ tree'[a].replay = tree[a].replay
            \/ /\ tree'[a].replay = [done |-> replay.done, left |-> replay.left, staged |-> None]
               /\ replay.left # Root /\ job'[a].at = "idle"
        BY <1>5 DEF TreeIs, JobIs
      <4> QED BY <4>1, <4>2
    <3> QED BY <1>2, <3>1, <3>2 DEF TreeOf, Paused, IsIdle, Status
  <2>2. StageOf(a)'
    BY <1>1, <1>2, <1>3, <1>5 DEF PartsOf, StageOf, CellsOf, Jobs, At, Status, IsIdle,
         Beyond, Landed, JobIs, RowIs, TreeIs
  <2>3. RowOf(a)'
    BY <1>1, <1>2, <1>3, <1>5 DEF PartsOf, RowOf, CellsOf, At, Status,
         HasIntegrationProof, JobIs, RowIs, TreeIs
  <2>4. DebtOf(a)'
    BY <1>1, <1>2, <1>3, <1>5 DEF PartsOf, DebtOf, CellsOf, At, Status, OwesPush,
         JobIs, RowIs, TreeIs
  <2>5. LockOf(a)'
    BY <1>1, <1>2, <1>3, <1>5 DEF PartsOf, StageOf, LockOf, CellsOf, At, Status,
         HoldsLock, SameAsReviewed, Beyond, Landed, JobIs, RowIs, TreeIs
  <2>6. BaseOf(a)'
    BY <1>1, <1>2, <1>3, <1>5 DEF PartsOf, BaseOf, CellsOf, At, Status, JobIs, RowIs,
         TreeIs
  <2> QED BY <2>1, <2>2, <2>3, <2>4, <2>5, <2>6 DEF PartsOf
<1> QED BY <1>6, <1>7, <1>8, <1>9 DEF Keeps

LEMMA ProveKeeps ==
  ASSUME Sound, NEW a \in Assignments, Prove(a)
  PROVE  Keeps(a)
<1>1. /\ row \in [Assignments -> Rows] /\ tree \in [Assignments -> Trees]
      /\ job \in [Assignments -> Jobs]
      /\ frozen \in [Assignments -> {None} \cup Commits]
      /\ candidate \in [Assignments -> {None} \cup Commits]
      /\ CellsOf(a) /\ PartsOf(a) /\ WorldOK /\ PreservedInTarget
  BY SoundFacts
<1>2. /\ At(a, "prove") /\ Status(a, "ready") /\ job[a].expected \in Commits
      /\ ~Paused(a) /\ tree[a].present /\ tree[a].head \in Commits /\ frozen[a] \in Commits
      /\ HoldsLock(a, job[a].expected) /\ ~job[a].attested
      /\ UNCHANGED <<row, frozen, target, landing, preserved, recovery,
                     remote, primary, made, waived, crashes>>
  BY <1>1 DEF Prove, PartsOf, StageOf, TreeOf, RowOf, LockOf, At, Status, IsIdle, Beyond,
              shared, history
<1>3. \/ /\ SameAsReviewed(a, job[a].expected, tree[a].head)
         /\ candidate' = [candidate EXCEPT ![a] = candidate'[a]]
         /\ candidate'[a] = tree[a].head
         /\ JobIs(a, "advance", job[a].op, job[a].expected, job[a].attested)
         /\ UNCHANGED <<lock, tree>>
      \/ /\ candidate' = [candidate EXCEPT ![a] = candidate'[a]] /\ candidate'[a] = None
         /\ TreeIs(a, tree[a].present, frozen[a], {}, tree[a].replay)
         /\ lock' = lock \/ (lock.owner = a /\ lock' = None)
         /\ JobIs(a, "idle", "none", None, FALSE)
  <2>1. CASE SameAsReviewed(a, job[a].expected, tree[a].head)
    <3>1. "advance" \in Places
      BY DEF Places
    <3> QED BY <2>1, <3>1, <1>1, GotoIs DEF Prove, SetCandidate
  <2>2. CASE ~SameAsReviewed(a, job[a].expected, tree[a].head)
    BY <2>2, <1>2, BackIs DEF Prove
  <2> QED BY <2>1, <2>2
<1>4. MoveOf(a) /\ PreservedInTarget'
  BY <1>1, <1>2, <1>3, QuietMove DEF OnlyOf, JobIs, RowIs, TreeIs
<1>5. WorldOK'
  BY <1>1, <1>2, <1>3 DEF WorldOK
<1>6. CellsOf(a)'
  BY <1>1, <1>2, <1>3 DEF CellsOf, JobIs, RowIs, TreeIs
<1>7. PartsOf(a)'
  <2>1. TreeOf(a)'
    BY <1>1, <1>2, <1>3, FS_EmptySet DEF PartsOf, TreeOf, CellsOf, Jobs, Status,
         Paused, IsIdle, At, JobIs, RowIs, TreeIs
  <2>2. StageOf(a)'
    BY <1>1, <1>2, <1>3 DEF PartsOf, StageOf, CellsOf, Jobs, At, Status, IsIdle,
         Beyond, Landed, JobIs, RowIs, TreeIs
  <2>3. RowOf(a)'
    BY <1>1, <1>2, <1>3 DEF PartsOf, RowOf, CellsOf, At, Status, HasIntegrationProof,
         JobIs, RowIs, TreeIs
  <2>4. DebtOf(a)'
    BY <1>1, <1>2, <1>3 DEF PartsOf, DebtOf, CellsOf, At, Status, OwesPush, JobIs,
         RowIs, TreeIs
  <2>5. LockOf(a)'
    BY <1>1, <1>2, <1>3 DEF PartsOf, StageOf, LockOf, CellsOf, At, Status, HoldsLock,
         SameAsReviewed, Beyond, Landed, JobIs, RowIs, TreeIs
  <2>6. BaseOf(a)'
    BY <1>1, <1>2, <1>3 DEF PartsOf, BaseOf, CellsOf, At, Status, JobIs, RowIs, TreeIs
  <2> QED BY <2>1, <2>2, <2>3, <2>4, <2>5, <2>6 DEF PartsOf
<1> QED BY <1>4, <1>5, <1>6, <1>7 DEF Keeps


LEMMA AdvanceKeeps ==
  ASSUME Sound, NEW a \in Assignments, Advance(a)
  PROVE  Keeps(a)
<1>1. /\ row \in [Assignments -> Rows] /\ tree \in [Assignments -> Trees]
      /\ job \in [Assignments -> Jobs]
      /\ frozen \in [Assignments -> {None} \cup Commits]
      /\ candidate \in [Assignments -> {None} \cup Commits]
      /\ CellsOf(a) /\ PartsOf(a) /\ WorldOK /\ PreservedInTarget
  BY SoundFacts
<1>2. /\ At(a, "advance") /\ Status(a, "ready") /\ job[a].expected \in Commits
      /\ ~Paused(a) /\ tree[a].present /\ tree[a].head \in Commits /\ frozen[a] \in Commits
      /\ HoldsLock(a, job[a].expected) /\ candidate[a] \in Commits /\ tree[a].head = candidate[a]
      /\ target \in Commits /\ row[a].base \in Commits
      /\ UNCHANGED <<row, frozen, preserved, recovery, remote, primary, made, waived, crashes>>
  BY <1>1, RowFields DEF Advance, CellsOf, PartsOf, StageOf, TreeOf, RowOf, LockOf, At, Status,
              IsIdle, Beyond, WorldOK
<1>3. \/ /\ target' = candidate[a] /\ landing' = landing \cup {a} /\ IsAncestor(target, candidate[a])
         /\ JobIs(a, "carry", job[a].op, job[a].expected, job[a].attested)
         /\ UNCHANGED <<lock, candidate, tree>>
      \/ /\ target' = target /\ landing' = landing
         /\ candidate' = [candidate EXCEPT ![a] = candidate'[a]] /\ candidate'[a] = None
         /\ TreeIs(a, tree[a].present, frozen[a], {}, tree[a].replay)
         /\ lock' = lock \/ (lock.owner = a /\ lock' = None)
         /\ JobIs(a, "idle", "none", None, FALSE)
      \/ /\ UNCHANGED <<target, landing, candidate, tree>>
         /\ lock' = lock \/ (lock.owner = a /\ lock' = None)
         /\ JobIs(a, "idle", "none", None, FALSE)
  <2>1. CASE MayAdvance(a)
    <3>1. target = job[a].expected /\ IsAncestor(target, candidate[a])
      BY <2>1, <1>1, <1>2 DEF MayAdvance, PartsOf, LockOf, SameAsReviewed
    <3>2. "carry" \in Places
      BY DEF Places
    <3> QED BY <2>1, <3>1, <3>2, <1>1, GotoIs DEF Advance
  <2>2. CASE ~MayAdvance(a) /\ ~job[a].attested
    BY <2>2, <1>2, BackIs DEF Advance
  <2>3. CASE ~MayAdvance(a) /\ job[a].attested
    BY <2>3, <1>1, <1>2, FinishIs, ReleaseIs DEF Advance
  <2> QED BY <2>1, <2>2, <2>3
<1>4. IsAncestor(target, target') /\ target' \in Commits
  BY <1>2, <1>3, AncestorReflexive
<1>5. landing' \subseteq landing \cup {a} /\ landing' \ {a} = landing \ {a}
  BY <1>3
<1>6. MoveOf(a) /\ PreservedInTarget'
  <2>1. MoveOf(a)
    BY <1>1, <1>2, <1>3, <1>4, <1>5 DEF MoveOf, OnlyOf, JobIs, TreeIs
  <2>2. ASSUME NEW commit \in preserved
        PROVE  IsAncestor(commit, target')
    <3>1. commit \in Commits /\ IsAncestor(commit, target)
      BY <1>1, <2>2 DEF WorldOK, PreservedInTarget
    <3> QED BY <3>1, <1>2, <1>4, AncestorTransitive
  <2> QED BY <2>1, <2>2, <1>2 DEF PreservedInTarget
<1>7. WorldOK'
  BY <1>1, <1>2, <1>3, <1>4, <1>5 DEF WorldOK
<1>8. CellsOf(a)'
  BY <1>1, <1>2, <1>3, <1>4, <1>5 DEF CellsOf, JobIs, RowIs, TreeIs
<1>9. PartsOf(a)'
  <2>1. TreeOf(a)'
    BY <1>1, <1>2, <1>3, <1>4, <1>5, FS_EmptySet DEF PartsOf, TreeOf, CellsOf, Jobs,
         Status, Paused, IsIdle, At, JobIs, RowIs, TreeIs
  <2>2. StageOf(a)'
    BY <1>1, <1>2, <1>3, <1>4, <1>5 DEF PartsOf, StageOf, CellsOf, Jobs, At, Status,
         IsIdle, Beyond, Landed, JobIs, RowIs, TreeIs
  <2>3. RowOf(a)'
    BY <1>1, <1>2, <1>3, <1>4, <1>5 DEF PartsOf, RowOf, CellsOf, At, Status,
         HasIntegrationProof, JobIs, RowIs, TreeIs
  <2>4. DebtOf(a)'
    BY <1>1, <1>2, <1>3, <1>4, <1>5 DEF PartsOf, DebtOf, CellsOf, At, Status, OwesPush,
         JobIs, RowIs, TreeIs
  <2>5. LockOf(a)'
    BY <1>1, <1>2, <1>3, <1>4, <1>5 DEF PartsOf, StageOf, LockOf, CellsOf, At, Status,
         HoldsLock, SameAsReviewed, Beyond, Landed, JobIs, RowIs, TreeIs
  <2>6. BaseOf(a)'
    <3>1. IsAncestor(row[a].base, target')
      BY <1>1, <1>2, <1>4, AncestorTransitive DEF PartsOf, BaseOf
    <3> QED BY <3>1, <1>2, <1>3 DEF BaseOf, At, JobIs
  <2> QED BY <2>1, <2>2, <2>3, <2>4, <2>5, <2>6 DEF PartsOf
<1> QED BY <1>6, <1>7, <1>8, <1>9 DEF Keeps

LEMMA CarryKeeps ==
  ASSUME Sound, NEW a \in Assignments, Carry(a)
  PROVE  Keeps(a)
<1>1. /\ row \in [Assignments -> Rows] /\ tree \in [Assignments -> Trees]
      /\ job \in [Assignments -> Jobs]
      /\ frozen \in [Assignments -> {None} \cup Commits]
      /\ candidate \in [Assignments -> {None} \cup Commits]
      /\ CellsOf(a) /\ PartsOf(a) /\ WorldOK /\ PreservedInTarget
  BY SoundFacts
<1>2. /\ At(a, "carry") /\ Status(a, "ready") /\ job[a].expected \in Commits
      /\ ~Paused(a) /\ tree[a].present /\ HoldsLock(a, job[a].expected)
      /\ UNCHANGED <<row, lock, tree, frozen, candidate, target, landing, preserved, recovery,
                     remote, made, waived, crashes>>
  BY <1>1 DEF Carry, PartsOf, StageOf, TreeOf, LockOf, At, Status, IsIdle, Landed, database,
              refs, history
<1>3. \/ JobIs(a, "record", job[a].op, job[a].expected, job[a].attested)
      \/ JobIs(a, "idle", "none", None, FALSE)
  BY <1>1, GotoIs, FinishIs DEF Carry, Places
<1>4. primary' \in [onRef : BOOLEAN, shows : {None} \cup Commits, dirty : SUBSET Changes]
  <2>1. CASE primary' = primary
    BY <2>1, <1>1 DEF WorldOK
  <2>2. CASE /\ target = candidate[a]
             /\ primary' = [primary EXCEPT !.shows = IF @ = None THEN None ELSE candidate[a]]
    BY <2>2, <1>1 DEF WorldOK
  <2> QED BY <2>1, <2>2 DEF Carry
<1>5. MoveOf(a) /\ PreservedInTarget'
  BY <1>1, <1>2, <1>3, <1>4, QuietMove DEF OnlyOf, JobIs, RowIs, TreeIs
<1>6. WorldOK'
  BY <1>1, <1>2, <1>3, <1>4 DEF WorldOK
<1>7. CellsOf(a)'
  BY <1>1, <1>2, <1>3, <1>4 DEF CellsOf, JobIs, RowIs, TreeIs
<1>8. PartsOf(a)'
  <2>1. TreeOf(a)'
    BY <1>1, <1>2, <1>3, <1>4 DEF PartsOf, TreeOf, CellsOf, Jobs, Status, Paused,
         IsIdle, At, JobIs, RowIs, TreeIs
  <2>2. StageOf(a)'
    BY <1>1, <1>2, <1>3, <1>4 DEF PartsOf, StageOf, CellsOf, Jobs, At, Status, IsIdle,
         Beyond, Landed, JobIs, RowIs, TreeIs
  <2>3. RowOf(a)'
    BY <1>1, <1>2, <1>3, <1>4 DEF PartsOf, RowOf, CellsOf, At, Status,
         HasIntegrationProof, JobIs, RowIs, TreeIs
  <2>4. DebtOf(a)'
    BY <1>1, <1>2, <1>3, <1>4 DEF PartsOf, DebtOf, CellsOf, At, Status, OwesPush,
         JobIs, RowIs, TreeIs
  <2>5. LockOf(a)'
    BY <1>1, <1>2, <1>3, <1>4 DEF PartsOf, StageOf, LockOf, CellsOf, At, Status,
         HoldsLock, SameAsReviewed, Beyond, Landed, JobIs, RowIs, TreeIs
  <2>6. BaseOf(a)'
    BY <1>1, <1>2, <1>3, <1>4 DEF PartsOf, BaseOf, CellsOf, At, Status, JobIs, RowIs,
         TreeIs
  <2> QED BY <2>1, <2>2, <2>3, <2>4, <2>5, <2>6 DEF PartsOf
<1> QED BY <1>5, <1>6, <1>7, <1>8 DEF Keeps

\* The row of a recorded landing.
LEMMA IntegratedIs ==
  ASSUME Sound, NEW a \in Assignments, candidate[a] \in Commits, SetRow(a, Integrated(a))
  PROVE  \E debt \in {None} \cup Debts :
           /\ RowIs(a, "integrated", row[a].base, candidate[a], candidate[a], debt)
           /\ debt = None <=> row[a].debt = None
           /\ debt # None => debt.phase = "push-pending" /\ debt.candidate = candidate[a]
           /\ debt # None => debt.lease = row[a].debt.lease
<1> DEFINE debt == IF row[a].debt = None THEN None
                   ELSE [row[a].debt EXCEPT !.phase = "push-pending", !.candidate = candidate[a]]
           r == Integrated(a)
<1>1. row[a] \in Rows /\ row \in [Assignments -> Rows] /\ row[a].debt \in {None} \cup Debts
  BY SoundFacts, RowFields DEF CellsOf
<1>2. /\ debt \in {None} \cup Debts
      /\ row[a].debt # None =>
           /\ debt \in Debts /\ debt.phase = "push-pending" /\ debt.candidate = candidate[a]
           /\ debt.lease = row[a].debt.lease
  BY <1>1 DEF Debts
<1>3. /\ debt = None <=> row[a].debt = None
      /\ debt # None => debt.phase = "push-pending" /\ debt.candidate = candidate[a]
      /\ debt # None => debt.lease = row[a].debt.lease
  BY <1>2, NoneAssumption
<1>4. r.debt = debt
  BY <1>1 DEF Integrated, Rows
<1> HIDE DEF debt
<1>5. /\ r \in Rows /\ r.status = "integrated" /\ r.base = row[a].base
      /\ r.integrated = candidate[a] /\ r.record = candidate[a]
  BY <1>1, <1>2, <1>4 DEF Integrated, Rows
<1>6. SetRow(a, r)
  OBVIOUS
<1> HIDE DEF r
<1>7. RowIs(a, r.status, r.base, r.integrated, r.record, r.debt)
  BY <1>1, <1>5, <1>6, RowWrite
<1> QED BY <1>2, <1>3, <1>4, <1>5, <1>7

LEMMA RecordKeeps ==
  ASSUME Sound, NEW a \in Assignments, Record(a)
  PROVE  Keeps(a)
<1>1. /\ row \in [Assignments -> Rows] /\ tree \in [Assignments -> Trees]
      /\ job \in [Assignments -> Jobs]
      /\ frozen \in [Assignments -> {None} \cup Commits]
      /\ candidate \in [Assignments -> {None} \cup Commits]
      /\ CellsOf(a) /\ PartsOf(a) /\ WorldOK /\ PreservedInTarget
  BY SoundFacts
<1>2. /\ At(a, "record") /\ Status(a, "ready") /\ job[a].expected \in Commits /\ job[a].op # "none"
      /\ ~Paused(a) /\ tree[a].present /\ HoldsLock(a, job[a].expected) /\ frozen[a] \in Commits
      /\ target \in Commits
      /\ UNCHANGED <<lock, tree, frozen, candidate, target, preserved, recovery, primary,
                     remote, made, waived, crashes>>
  BY <1>1 DEF Record, PartsOf, StageOf, TreeOf, RowOf, LockOf, At, Status, IsIdle, Landed,
              WorldOK, refs, shared
<1>3. \/ /\ target = candidate[a] /\ landing' = landing \ {a}
         /\ \E debt \in {None} \cup Debts :
              /\ RowIs(a, "integrated", row[a].base, candidate[a], candidate[a], debt)
              /\ debt # None => debt.phase = "push-pending" /\ debt.candidate = candidate[a]
         /\ JobIs(a, "unlock", job[a].op, job[a].expected, job[a].attested)
      \/ row' = row /\ landing' = landing /\ JobIs(a, "idle", "none", None, FALSE)
  <2>1. CASE /\ CheckoutAt(candidate[a]) /\ SetRow(a, Integrated(a))
             /\ landing' = landing \ {a} /\ Goto(a, "unlock")
    <3>1. target = candidate[a]
      BY <2>1 DEF CheckoutAt
    <3>2. "unlock" \in Places
      BY DEF Places
    <3>3. JobIs(a, "unlock", job[a].op, job[a].expected, job[a].attested)
      BY <1>1, <2>1, <3>2, GotoIs
    <3>4. \E debt \in {None} \cup Debts :
            /\ RowIs(a, "integrated", row[a].base, candidate[a], candidate[a], debt)
            /\ debt = None <=> row[a].debt = None
            /\ debt # None => debt.phase = "push-pending" /\ debt.candidate = candidate[a]
      BY <1>2, <2>1, <3>1, IntegratedIs
    <3> QED BY <2>1, <3>1, <3>3, <3>4
  <2>2. CASE Finish(a) /\ UNCHANGED <<row, landing>>
    BY <2>2, <1>1, FinishIs
  <2> QED BY <2>1, <2>2 DEF Record
<1>4. IsAncestor(target, target)
  BY <1>2, AncestorReflexive
<1>5. landing' \subseteq landing /\ landing' \ {a} = landing \ {a}
  BY <1>3
<1>6. MoveOf(a) /\ PreservedInTarget'
  BY <1>1, <1>2, <1>3, <1>4, <1>5 DEF MoveOf, OnlyOf, JobIs, RowIs, PreservedInTarget
<1>7. WorldOK'
  BY <1>1, <1>2, <1>3, <1>4, <1>5 DEF WorldOK
<1>8. CellsOf(a)'
  BY <1>1, <1>2, <1>3, <1>4, <1>5 DEF CellsOf, JobIs, RowIs, TreeIs
<1>9. PartsOf(a)'
  <2>1. TreeOf(a)'
    BY <1>1, <1>2, <1>3, <1>4, <1>5 DEF PartsOf, TreeOf, CellsOf, Jobs, Status, Paused,
         IsIdle, At, JobIs, RowIs, TreeIs
  <2>2. StageOf(a)'
    BY <1>1, <1>2, <1>3, <1>4, <1>5 DEF PartsOf, StageOf, CellsOf, Jobs, At, Status,
         IsIdle, Beyond, Landed, JobIs, RowIs, TreeIs
  <2>3. RowOf(a)'
    BY <1>1, <1>2, <1>3, <1>4, <1>5 DEF PartsOf, RowOf, CellsOf, At, Status,
         HasIntegrationProof, JobIs, RowIs, TreeIs
  <2>4. DebtOf(a)'
    BY <1>1, <1>2, <1>3, <1>4, <1>5 DEF PartsOf, DebtOf, CellsOf, At, Status, OwesPush,
         JobIs, RowIs, TreeIs
  <2>5. LockOf(a)'
    BY <1>1, <1>2, <1>3, <1>4, <1>5 DEF PartsOf, StageOf, LockOf, CellsOf, At, Status,
         HoldsLock, SameAsReviewed, Beyond, Landed, JobIs, RowIs, TreeIs
  <2>6. BaseOf(a)'
    BY <1>1, <1>2, <1>3, <1>4, <1>5 DEF PartsOf, BaseOf, CellsOf, At, Status, JobIs,
         RowIs, TreeIs
  <2> QED BY <2>1, <2>2, <2>3, <2>4, <2>5, <2>6 DEF PartsOf
<1> QED BY <1>6, <1>7, <1>8, <1>9 DEF Keeps

LEMMA UnlockKeeps ==
  ASSUME Sound, NEW a \in Assignments, Unlock(a)
  PROVE  Keeps(a)
<1>1. /\ row \in [Assignments -> Rows] /\ tree \in [Assignments -> Trees]
      /\ job \in [Assignments -> Jobs]
      /\ frozen \in [Assignments -> {None} \cup Commits]
      /\ candidate \in [Assignments -> {None} \cup Commits]
      /\ CellsOf(a) /\ PartsOf(a) /\ WorldOK /\ PreservedInTarget
  BY SoundFacts
<1>2. /\ At(a, "unlock") /\ job[a].op # "none"
      /\ Status(a, "integrated") \/ (Status(a, "active") /\ job[a].op = "landed")
      /\ ~Paused(a) /\ tree[a].present /\ row[a].debt # None => row[a].debt.phase = "push-pending"
      /\ UNCHANGED <<row, tree, frozen, candidate, target, preserved, recovery, primary,
                     remote, made, waived, landing, crashes>>
  BY <1>1 DEF Unlock, PartsOf, StageOf, TreeOf, DebtOf, At, Status, IsIdle, refs, shared, history
<1>3. lock' = lock \/ (lock.owner = a /\ lock' = None)
  BY DEF Unlock, ReleaseExactLock, HoldsLock
<1>4. \/ JobIs(a, "idle", "none", None, FALSE)
      \/ /\ job[a].op = "push" /\ row[a].debt # None
         /\ JobIs(a, "push", job[a].op, job[a].expected, job[a].attested)
      \/ /\ job[a].op # "landed"
         /\ \E place \in {"recycle", "release", "close"} :
              JobIs(a, place, job[a].op, job[a].expected, job[a].attested)
  <2>1. AfterIntegration(a) \in {"idle", "push", "recycle", "release", "close"}
    <3>1. job[a].op \in {"push", "reconcile", "commander", "release", "close-out", "landed"}
      BY <1>1, <1>2, JobFields DEF CellsOf, AllOps
    <3> QED BY <3>1 DEF AfterIntegration
  <2>2. AfterIntegration(a) = "push" => job[a].op = "push" /\ row[a].debt # None
    <3>1. job[a].op \in {"push", "reconcile", "commander", "release", "close-out", "landed"}
      BY <1>1, <1>2, JobFields DEF CellsOf, AllOps
    <3> QED BY <3>1 DEF AfterIntegration, OwesPush
  <2>3. job[a].op = "landed" => AfterIntegration(a) = "idle"
    BY DEF AfterIntegration
  <2>4. {"push", "recycle", "release", "close"} \subseteq Places
    BY DEF Places
  <2>5. ProceedTo(a, AfterIntegration(a))
    BY DEF Unlock
  <2>6. CASE AfterIntegration(a) = "idle"
    BY <2>5, <2>6, <1>1, FinishIs DEF ProceedTo
  <2>7. CASE AfterIntegration(a) # "idle"
    <3>1. AfterIntegration(a) \in Places /\ Goto(a, AfterIntegration(a))
      BY <2>1, <2>4, <2>5, <2>7 DEF ProceedTo
    <3>2. JobIs(a, AfterIntegration(a), job[a].op, job[a].expected, job[a].attested)
      BY <3>1, <1>1, GotoIs
    <3> QED BY <3>2, <2>1, <2>2, <2>3, <2>7
  <2> QED BY <2>6, <2>7
<1>5. MoveOf(a) /\ PreservedInTarget'
  BY <1>1, <1>2, <1>3, <1>4, QuietMove DEF OnlyOf, JobIs, RowIs, TreeIs
<1>6. WorldOK'
  BY <1>1, <1>2, <1>3, <1>4 DEF WorldOK
<1>7. CellsOf(a)'
  BY <1>1, <1>2, <1>3, <1>4 DEF CellsOf, JobIs, RowIs, TreeIs
<1>8. PartsOf(a)'
  <2>1. TreeOf(a)'
    BY <1>1, <1>2, <1>3, <1>4 DEF PartsOf, TreeOf, CellsOf, Jobs, Status, Paused,
         IsIdle, At, JobIs, RowIs, TreeIs
  <2>2. StageOf(a)'
    BY <1>1, <1>2, <1>3, <1>4 DEF PartsOf, StageOf, CellsOf, Jobs, At, Status, IsIdle,
         Beyond, Landed, JobIs, RowIs, TreeIs
  <2>3. RowOf(a)'
    BY <1>1, <1>2, <1>3, <1>4 DEF PartsOf, RowOf, CellsOf, At, Status,
         HasIntegrationProof, JobIs, RowIs, TreeIs
  <2>4. DebtOf(a)'
    BY <1>1, <1>2, <1>3, <1>4 DEF PartsOf, DebtOf, CellsOf, At, Status, OwesPush,
         JobIs, RowIs, TreeIs
  <2>5. LockOf(a)'
    BY <1>1, <1>2, <1>3, <1>4 DEF PartsOf, StageOf, LockOf, CellsOf, At, Status,
         HoldsLock, SameAsReviewed, Beyond, Landed, JobIs, RowIs, TreeIs
  <2>6. BaseOf(a)'
    BY <1>1, <1>2, <1>3, <1>4 DEF PartsOf, BaseOf, CellsOf, At, Status, JobIs, RowIs,
         TreeIs
  <2> QED BY <2>1, <2>2, <2>3, <2>4, <2>5, <2>6 DEF PartsOf
<1> QED BY <1>5, <1>6, <1>7, <1>8 DEF Keeps


-----------------------------------------------------------------------------
(* Push, recycle and teardown.                                              *)

LEMMA PushCandidateKeeps ==
  ASSUME Sound, NEW a \in Assignments, PushCandidate(a)
  PROVE  Keeps(a)
<1>1. /\ row \in [Assignments -> Rows] /\ tree \in [Assignments -> Trees]
      /\ job \in [Assignments -> Jobs]
      /\ frozen \in [Assignments -> {None} \cup Commits]
      /\ candidate \in [Assignments -> {None} \cup Commits]
      /\ CellsOf(a) /\ PartsOf(a) /\ WorldOK /\ PreservedInTarget
  BY SoundFacts
<1>2. /\ At(a, "push") /\ Status(a, "integrated") /\ job[a].op # "none"
      /\ ~Paused(a) /\ tree[a].present /\ candidate[a] \in Commits
      /\ row[a].debt # None /\ row[a].debt.phase = "push-pending"
      /\ UNCHANGED <<row, lock, tree, frozen, candidate, target, preserved, recovery, primary,
                     made, waived, landing, crashes>>
  BY <1>1 DEF PushCandidate, PartsOf, StageOf, TreeOf, RowOf, DebtOf, At, Status, IsIdle,
              database, refs, history
<1>3. JobIs(a, "readback", job[a].op, job[a].expected, job[a].attested)
  BY <1>1, GotoIs DEF PushCandidate, Places
<1>4. remote' \in Commits
  BY <1>1, <1>2 DEF PushCandidate, WorldOK
<1>5. MoveOf(a) /\ PreservedInTarget'
  BY <1>1, <1>2, <1>3, <1>4, QuietMove DEF OnlyOf, JobIs, RowIs, TreeIs
<1>6. WorldOK'
  BY <1>1, <1>2, <1>3, <1>4 DEF WorldOK
<1>7. CellsOf(a)'
  BY <1>1, <1>2, <1>3, <1>4 DEF CellsOf, JobIs, RowIs, TreeIs
<1>8. PartsOf(a)'
  <2>1. TreeOf(a)'
    BY <1>1, <1>2, <1>3, <1>4 DEF PartsOf, TreeOf, CellsOf, Jobs, Status, Paused,
         IsIdle, At, JobIs, RowIs, TreeIs
  <2>2. StageOf(a)'
    BY <1>1, <1>2, <1>3, <1>4 DEF PartsOf, StageOf, CellsOf, Jobs, At, Status, IsIdle,
         Beyond, Landed, JobIs, RowIs, TreeIs
  <2>3. RowOf(a)'
    BY <1>1, <1>2, <1>3, <1>4 DEF PartsOf, RowOf, CellsOf, At, Status,
         HasIntegrationProof, JobIs, RowIs, TreeIs
  <2>4. DebtOf(a)'
    BY <1>1, <1>2, <1>3, <1>4 DEF PartsOf, DebtOf, CellsOf, At, Status, OwesPush,
         JobIs, RowIs, TreeIs
  <2>5. LockOf(a)'
    BY <1>1, <1>2, <1>3, <1>4 DEF PartsOf, StageOf, LockOf, CellsOf, At, Status,
         HoldsLock, SameAsReviewed, Beyond, Landed, JobIs, RowIs, TreeIs
  <2>6. BaseOf(a)'
    BY <1>1, <1>2, <1>3, <1>4 DEF PartsOf, BaseOf, CellsOf, At, Status, JobIs, RowIs,
         TreeIs
  <2> QED BY <2>1, <2>2, <2>3, <2>4, <2>5, <2>6 DEF PartsOf
<1> QED BY <1>5, <1>6, <1>7, <1>8 DEF Keeps

\* An obligation that changed its phase.
LEMMA PhaseIs ==
  ASSUME Sound, NEW a \in Assignments, row[a].debt # None,
         SetRow(a, [row[a] EXCEPT !.debt.phase = "push-succeeded"])
  PROVE  \E debt \in Debts :
           /\ RowIs(a, row[a].status, row[a].base, row[a].integrated, row[a].record, debt)
           /\ debt.phase = "push-succeeded" /\ debt.frozen = row[a].debt.frozen
           /\ debt.candidate = row[a].debt.candidate /\ debt.lease = row[a].debt.lease
<1> DEFINE debt == [row[a].debt EXCEPT !.phase = "push-succeeded"]
           r == [row[a] EXCEPT !.debt.phase = "push-succeeded"]
<1>1. row[a] \in Rows /\ row \in [Assignments -> Rows] /\ row[a].debt \in Debts
  BY SoundFacts, RowFields DEF CellsOf
<1>2. /\ debt \in Debts /\ debt.phase = "push-succeeded" /\ debt.frozen = row[a].debt.frozen
      /\ debt.candidate = row[a].debt.candidate /\ debt.lease = row[a].debt.lease
  BY <1>1 DEF Debts
<1>3. r.debt = debt
  BY <1>1 DEF Rows
<1> HIDE DEF debt
<1>4. /\ r \in Rows /\ r.status = row[a].status /\ r.base = row[a].base
      /\ r.integrated = row[a].integrated /\ r.record = row[a].record
  BY <1>1, <1>2, <1>3 DEF Rows
<1>5. SetRow(a, r)
  OBVIOUS
<1> HIDE DEF r
<1>6. RowIs(a, r.status, r.base, r.integrated, r.record, r.debt)
  BY <1>1, <1>4, <1>5, RowWrite
<1> QED BY <1>2, <1>3, <1>4, <1>6

LEMMA ReadbackKeeps ==
  ASSUME Sound, NEW a \in Assignments, Readback(a)
  PROVE  Keeps(a)
<1>1. /\ row \in [Assignments -> Rows] /\ tree \in [Assignments -> Trees]
      /\ job \in [Assignments -> Jobs]
      /\ frozen \in [Assignments -> {None} \cup Commits]
      /\ candidate \in [Assignments -> {None} \cup Commits]
      /\ CellsOf(a) /\ PartsOf(a) /\ WorldOK /\ PreservedInTarget
  BY SoundFacts
<1>2. /\ At(a, "readback") /\ Status(a, "integrated") /\ job[a].op # "none"
      /\ ~Paused(a) /\ tree[a].present /\ candidate[a] \in Commits
      /\ row[a].debt # None /\ row[a].debt.phase = "push-pending"
      /\ UNCHANGED <<lock, tree, frozen, candidate, target, preserved, recovery, primary,
                     remote, made, waived, landing, crashes>>
  BY <1>1 DEF Readback, PartsOf, StageOf, TreeOf, RowOf, DebtOf, At, Status, IsIdle,
              refs, shared, history
<1>3. \/ /\ \E debt \in Debts :
              /\ RowIs(a, row[a].status, row[a].base, row[a].integrated, row[a].record, debt)
              /\ debt.phase = "push-succeeded" /\ debt.candidate = row[a].debt.candidate
         /\ JobIs(a, "settle", job[a].op, job[a].expected, job[a].attested)
      \/ row' = row /\ JobIs(a, "idle", "none", None, FALSE)
  <2>1. CASE SetRow(a, [row[a] EXCEPT !.debt.phase = "push-succeeded"]) /\ Goto(a, "settle")
    <3>1. "settle" \in Places
      BY DEF Places
    <3>2. JobIs(a, "settle", job[a].op, job[a].expected, job[a].attested)
      BY <1>1, <2>1, <3>1, GotoIs
    <3> QED BY <1>2, <2>1, <3>2, PhaseIs
  <2>2. CASE Finish(a) /\ UNCHANGED row
    BY <2>2, <1>1, FinishIs
  <2> QED BY <2>1, <2>2 DEF Readback
<1>4. None \notin Debts
  BY NoneAssumption
<1>5. MoveOf(a) /\ PreservedInTarget'
  BY <1>1, <1>2, <1>3, <1>4, QuietMove DEF OnlyOf, JobIs, RowIs, TreeIs
<1>6. WorldOK'
  BY <1>1, <1>2, <1>3, <1>4 DEF WorldOK
<1>7. CellsOf(a)'
  BY <1>1, <1>2, <1>3, <1>4 DEF CellsOf, JobIs, RowIs, TreeIs
<1>8. PartsOf(a)'
  <2>1. TreeOf(a)'
    BY <1>1, <1>2, <1>3, <1>4 DEF PartsOf, TreeOf, CellsOf, Jobs, Status, Paused,
         IsIdle, At, JobIs, RowIs, TreeIs
  <2>2. StageOf(a)'
    BY <1>1, <1>2, <1>3, <1>4 DEF PartsOf, StageOf, CellsOf, Jobs, At, Status, IsIdle,
         Beyond, Landed, JobIs, RowIs, TreeIs
  <2>3. RowOf(a)'
    BY <1>1, <1>2, <1>3, <1>4 DEF PartsOf, RowOf, CellsOf, At, Status,
         HasIntegrationProof, JobIs, RowIs, TreeIs
  <2>4. DebtOf(a)'
    <3>1. OwesPush(row[a].debt) /\ PartsOf(a) /\ DebtOf(a)
      BY <1>1, <1>2 DEF OwesPush, PartsOf
    <3>2. CASE row' = row /\ JobIs(a, "idle", "none", None, FALSE)
      BY <1>2, <3>1, <3>2 DEF DebtOf, At, Status, OwesPush, JobIs
    <3>3. CASE /\ row' # row
               /\ JobIs(a, "settle", job[a].op, job[a].expected, job[a].attested)
      <4>1. PICK debt \in Debts :
              /\ RowIs(a, row[a].status, row[a].base, row[a].integrated, row[a].record, debt)
              /\ debt.phase = "push-succeeded" /\ debt.candidate = row[a].debt.candidate
        BY <1>3, <3>3
      <4> QED BY <1>2, <1>4, <3>1, <3>3, <4>1 DEF DebtOf, At, Status, OwesPush, JobIs, RowIs
    <3>4. CASE row' = row /\ JobIs(a, "settle", job[a].op, job[a].expected, job[a].attested)
      <4>1. PICK debt \in Debts :
              /\ RowIs(a, row[a].status, row[a].base, row[a].integrated, row[a].record, debt)
              /\ debt.phase = "push-succeeded" /\ debt.candidate = row[a].debt.candidate
        BY <1>3, <3>4 DEF JobIs
      <4> QED BY <1>2, <3>4, <4>1 DEF RowIs
    <3> QED BY <1>3, <3>2, <3>3, <3>4
  <2>5. LockOf(a)'
    BY <1>1, <1>2, <1>3, <1>4 DEF PartsOf, StageOf, LockOf, CellsOf, At, Status,
         HoldsLock, SameAsReviewed, Beyond, Landed, JobIs, RowIs, TreeIs
  <2>6. BaseOf(a)'
    BY <1>1, <1>2, <1>3, <1>4 DEF PartsOf, BaseOf, CellsOf, At, Status, JobIs, RowIs,
         TreeIs
  <2> QED BY <2>1, <2>2, <2>3, <2>4, <2>5, <2>6 DEF PartsOf
<1> QED BY <1>5, <1>6, <1>7, <1>8 DEF Keeps

LEMMA SettleKeeps ==
  ASSUME Sound, NEW a \in Assignments, Settle(a)
  PROVE  Keeps(a)
<1>1. /\ row \in [Assignments -> Rows] /\ tree \in [Assignments -> Trees]
      /\ job \in [Assignments -> Jobs]
      /\ frozen \in [Assignments -> {None} \cup Commits]
      /\ candidate \in [Assignments -> {None} \cup Commits]
      /\ CellsOf(a) /\ PartsOf(a) /\ WorldOK /\ PreservedInTarget
  BY SoundFacts
<1>2. /\ At(a, "settle") /\ Status(a, "integrated") /\ job[a].op # "none"
      /\ ~Paused(a) /\ tree[a].present
      /\ UNCHANGED <<lock, tree, frozen, candidate, target, preserved, recovery, primary,
                     remote, made, waived, landing, crashes>>
  BY <1>1 DEF Settle, PartsOf, StageOf, TreeOf, At, Status, IsIdle, refs, shared, history
<1>3. JobIs(a, "recycle", job[a].op, job[a].expected, job[a].attested)
  BY <1>1, GotoIs DEF Settle, Places
<1>4. RowIs(a, row[a].status, row[a].base, row[a].integrated, row[a].record, None)
  <2> DEFINE r == [row[a] EXCEPT !.debt = None]
  <2>1. /\ r \in Rows /\ r.status = row[a].status /\ r.base = row[a].base
        /\ r.integrated = row[a].integrated /\ r.record = row[a].record
        /\ r.debt = None
    BY <1>1 DEF CellsOf, Rows
  <2>2. SetRow(a, r)
    BY DEF Settle
  <2> HIDE DEF r
  <2>3. RowIs(a, r.status, r.base, r.integrated, r.record, r.debt)
    BY <1>1, <2>1, <2>2, RowWrite
  <2> QED BY <2>1, <2>3
<1>5. MoveOf(a) /\ PreservedInTarget'
  BY <1>1, <1>2, <1>3, <1>4, QuietMove DEF OnlyOf, JobIs, RowIs, TreeIs
<1>6. WorldOK'
  BY <1>1, <1>2, <1>3, <1>4 DEF WorldOK
<1>7. CellsOf(a)'
  BY <1>1, <1>2, <1>3, <1>4 DEF CellsOf, JobIs, RowIs, TreeIs
<1>8. PartsOf(a)'
  <2>1. TreeOf(a)'
    BY <1>1, <1>2, <1>3, <1>4 DEF PartsOf, TreeOf, CellsOf, Jobs, Status, Paused,
         IsIdle, At, JobIs, RowIs, TreeIs
  <2>2. StageOf(a)'
    BY <1>1, <1>2, <1>3, <1>4 DEF PartsOf, StageOf, CellsOf, Jobs, At, Status, IsIdle,
         Beyond, Landed, JobIs, RowIs, TreeIs
  <2>3. RowOf(a)'
    BY <1>1, <1>2, <1>3, <1>4 DEF PartsOf, RowOf, CellsOf, At, Status,
         HasIntegrationProof, JobIs, RowIs, TreeIs
  <2>4. DebtOf(a)'
    BY <1>1, <1>2, <1>3, <1>4 DEF PartsOf, DebtOf, CellsOf, At, Status, OwesPush,
         JobIs, RowIs, TreeIs
  <2>5. LockOf(a)'
    BY <1>1, <1>2, <1>3, <1>4 DEF PartsOf, StageOf, LockOf, CellsOf, At, Status,
         HoldsLock, SameAsReviewed, Beyond, Landed, JobIs, RowIs, TreeIs
  <2>6. BaseOf(a)'
    BY <1>1, <1>2, <1>3, <1>4 DEF PartsOf, BaseOf, CellsOf, At, Status, JobIs, RowIs,
         TreeIs
  <2> QED BY <2>1, <2>2, <2>3, <2>4, <2>5, <2>6 DEF PartsOf
<1> QED BY <1>5, <1>6, <1>7, <1>8 DEF Keeps

LEMMA RecycleKeeps ==
  ASSUME Sound, NEW a \in Assignments, Recycle(a)
  PROVE  Keeps(a)
<1>1. /\ row \in [Assignments -> Rows] /\ tree \in [Assignments -> Trees]
      /\ job \in [Assignments -> Jobs]
      /\ frozen \in [Assignments -> {None} \cup Commits]
      /\ candidate \in [Assignments -> {None} \cup Commits]
      /\ CellsOf(a) /\ PartsOf(a) /\ WorldOK /\ PreservedInTarget
  BY SoundFacts
<1>2. /\ At(a, "recycle") /\ Status(a, "integrated") /\ job[a].op # "none"
      /\ ~Paused(a) /\ tree[a].present
      /\ row[a].integrated \in Commits /\ IsAncestor(row[a].integrated, target)
      /\ UNCHANGED <<lock, tree, frozen, candidate, target, preserved, recovery, primary,
                     remote, made, waived, landing, crashes>>
  BY <1>1 DEF Recycle, PartsOf, StageOf, TreeOf, RowOf, HasIntegrationProof, At, Status, IsIdle,
              refs, shared, history
<1>3. \/ /\ JobIs(a, "forget", job[a].op, job[a].expected, job[a].attested)
         /\ RowIs(a, "active", row[a].integrated, None, None, None)
      \/ JobIs(a, "idle", "none", None, FALSE) /\ row' = row
  <2>1. CASE SetRow(a, Recycled(a)) /\ Goto(a, "forget")
    <3>1. "forget" \in Places
      BY DEF Places
    <3>2. JobIs(a, "forget", job[a].op, job[a].expected, job[a].attested)
      BY <1>1, <2>1, <3>1, GotoIs
    <3>3. RowIs(a, "active", row[a].integrated, None, None, None)
      <4> DEFINE r == Recycled(a)
      <4>1. /\ r \in Rows /\ r.status = "active" /\ r.base = row[a].integrated
            /\ r.integrated = None /\ r.record = None
            /\ r.debt = None
        BY <1>2 DEF Recycled, Rows
      <4>2. SetRow(a, r)
        BY <2>1 DEF Recycled
      <4> HIDE DEF r
      <4>3. RowIs(a, r.status, r.base, r.integrated, r.record, r.debt)
        BY <1>1, <4>1, <4>2, RowWrite
      <4> QED BY <4>1, <4>3
    <3> QED BY <3>2, <3>3
  <2>2. CASE Finish(a) /\ UNCHANGED row
    BY <2>2, <1>1, FinishIs
  <2> QED BY <2>1, <2>2 DEF Recycle
<1>4. MoveOf(a) /\ PreservedInTarget'
  BY <1>1, <1>2, <1>3, QuietMove DEF OnlyOf, JobIs, RowIs, TreeIs
<1>5. WorldOK'
  BY <1>1, <1>2, <1>3 DEF WorldOK
<1>6. CellsOf(a)'
  BY <1>1, <1>2, <1>3 DEF CellsOf, JobIs, RowIs, TreeIs
<1>7. PartsOf(a)'
  <2>1. TreeOf(a)'
    BY <1>1, <1>2, <1>3 DEF PartsOf, TreeOf, CellsOf, Jobs, Status, Paused, IsIdle, At,
         JobIs, RowIs, TreeIs
  <2>2. StageOf(a)'
    BY <1>1, <1>2, <1>3 DEF PartsOf, StageOf, CellsOf, Jobs, At, Status, IsIdle,
         Beyond, Landed, JobIs, RowIs, TreeIs
  <2>3. RowOf(a)'
    BY <1>1, <1>2, <1>3 DEF PartsOf, RowOf, CellsOf, At, Status, HasIntegrationProof,
         JobIs, RowIs, TreeIs
  <2>4. DebtOf(a)'
    BY <1>1, <1>2, <1>3 DEF PartsOf, DebtOf, CellsOf, At, Status, OwesPush, JobIs,
         RowIs, TreeIs
  <2>5. LockOf(a)'
    BY <1>1, <1>2, <1>3 DEF PartsOf, StageOf, LockOf, CellsOf, At, Status, HoldsLock,
         SameAsReviewed, Beyond, Landed, JobIs, RowIs, TreeIs
  <2>6. BaseOf(a)'
    BY <1>1, <1>2, <1>3 DEF PartsOf, BaseOf, CellsOf, At, Status, JobIs, RowIs, TreeIs
  <2> QED BY <2>1, <2>2, <2>3, <2>4, <2>5, <2>6 DEF PartsOf
<1> QED BY <1>4, <1>5, <1>6, <1>7 DEF Keeps

LEMMA ForgetKeeps ==
  ASSUME Sound, NEW a \in Assignments, Forget(a)
  PROVE  Keeps(a)
<1>1. /\ row \in [Assignments -> Rows] /\ tree \in [Assignments -> Trees]
      /\ job \in [Assignments -> Jobs]
      /\ frozen \in [Assignments -> {None} \cup Commits]
      /\ candidate \in [Assignments -> {None} \cup Commits]
      /\ CellsOf(a) /\ PartsOf(a) /\ WorldOK /\ PreservedInTarget
  BY SoundFacts
<1>2. /\ At(a, "forget") /\ Status(a, "active") /\ job[a].op # "none"
      /\ ~Paused(a) /\ tree[a].present /\ row[a].debt = None
      /\ UNCHANGED <<row, lock, tree, frozen, target, preserved, recovery, primary,
                     remote, made, waived, landing, crashes>>
  BY <1>1 DEF Forget, PartsOf, StageOf, TreeOf, DebtOf, At, Status, IsIdle, database, shared,
              history
<1>3. \/ JobIs(a, "idle", "none", None, FALSE)
      \/ /\ job[a].op = "landed"
         /\ JobIs(a, "unlock", job[a].op, job[a].expected, job[a].attested)
  <2>1. "unlock" \in Places
    BY DEF Places
  <2> QED BY <2>1, <1>1, GotoIs, FinishIs DEF Forget, ProceedTo
<1>4. candidate' = [candidate EXCEPT ![a] = candidate'[a]] /\ candidate'[a] = None
  BY <1>1 DEF Forget, SetCandidate
<1>5. MoveOf(a) /\ PreservedInTarget'
  BY <1>1, <1>2, <1>3, <1>4, QuietMove DEF OnlyOf, JobIs, RowIs, TreeIs
<1>6. WorldOK'
  BY <1>1, <1>2, <1>3, <1>4 DEF WorldOK
<1>7. CellsOf(a)'
  BY <1>1, <1>2, <1>3, <1>4 DEF CellsOf, JobIs, RowIs, TreeIs
<1>8. PartsOf(a)'
  <2>1. TreeOf(a)'
    BY <1>1, <1>2, <1>3, <1>4 DEF PartsOf, TreeOf, CellsOf, Jobs, Status, Paused,
         IsIdle, At, JobIs, RowIs, TreeIs
  <2>2. StageOf(a)'
    BY <1>1, <1>2, <1>3, <1>4 DEF PartsOf, StageOf, CellsOf, Jobs, At, Status, IsIdle,
         Beyond, Landed, JobIs, RowIs, TreeIs
  <2>3. RowOf(a)'
    BY <1>1, <1>2, <1>3, <1>4 DEF PartsOf, RowOf, CellsOf, At, Status,
         HasIntegrationProof, JobIs, RowIs, TreeIs
  <2>4. DebtOf(a)'
    BY <1>1, <1>2, <1>3, <1>4 DEF PartsOf, DebtOf, CellsOf, At, Status, OwesPush,
         JobIs, RowIs, TreeIs
  <2>5. LockOf(a)'
    BY <1>1, <1>2, <1>3, <1>4 DEF PartsOf, StageOf, LockOf, CellsOf, At, Status,
         HoldsLock, SameAsReviewed, Beyond, Landed, JobIs, RowIs, TreeIs
  <2>6. BaseOf(a)'
    BY <1>1, <1>2, <1>3, <1>4 DEF PartsOf, BaseOf, CellsOf, At, Status, JobIs, RowIs,
         TreeIs
  <2> QED BY <2>1, <2>2, <2>3, <2>4, <2>5, <2>6 DEF PartsOf
<1> QED BY <1>5, <1>6, <1>7, <1>8 DEF Keeps

\* A worktree that was removed.
LEMMA RemovedIs ==
  ASSUME Sound, NEW a \in Assignments, SetTree(a, Removed(a))
  PROVE  TreeIs(a, FALSE, None, {}, tree[a].replay)
<1>1. tree \in [Assignments -> Trees] /\ CellsOf(a)
  BY SoundFacts
<1> QED
  <2> DEFINE t == Removed(a)
  <2>1. /\ t \in Trees /\ t.present = FALSE
        /\ t.head = None
        /\ t.dirty = {} /\ t.replay = tree[a].replay
    BY <1>1 DEF Removed, CellsOf, Trees
  <2>2. SetTree(a, t)
    BY DEF SetTree
  <2> HIDE DEF t
  <2>3. TreeIs(a, t.present, t.head, t.dirty, t.replay)
    BY <1>1, <2>1, <2>2, TreeWrite
  <2> QED BY <2>1, <2>3

LEMMA ReleaseKeeps ==
  ASSUME Sound, NEW a \in Assignments, Release(a)
  PROVE  Keeps(a)
<1>1. /\ row \in [Assignments -> Rows] /\ tree \in [Assignments -> Trees]
      /\ job \in [Assignments -> Jobs]
      /\ frozen \in [Assignments -> {None} \cup Commits]
      /\ candidate \in [Assignments -> {None} \cup Commits]
      /\ CellsOf(a) /\ PartsOf(a) /\ WorldOK /\ PreservedInTarget
  BY SoundFacts
<1>2. /\ At(a, "release") /\ Status(a, "integrated") /\ job[a].op # "none"
      /\ ~Paused(a) /\ tree[a].present
      /\ UNCHANGED <<row, lock, frozen, candidate, target, preserved, recovery, primary,
                     remote, made, waived, landing, crashes>>
  BY <1>1 DEF Release, PartsOf, StageOf, TreeOf, At, Status, IsIdle, database, refs, shared,
              history
<1>3. \/ /\ JobIs(a, "retire", job[a].op, job[a].expected, job[a].attested)
         /\ TreeIs(a, FALSE, None, {}, tree[a].replay)
      \/ JobIs(a, "idle", "none", None, FALSE) /\ tree' = tree
  <2>1. CASE SetTree(a, Removed(a)) /\ Goto(a, "retire")
    <3>1. "retire" \in Places
      BY DEF Places
    <3> QED BY <1>1, <2>1, <3>1, GotoIs, RemovedIs
  <2>2. CASE Finish(a) /\ UNCHANGED tree
    BY <2>2, <1>1, FinishIs
  <2> QED BY <2>1, <2>2 DEF Release
<1>4. MoveOf(a) /\ PreservedInTarget'
  BY <1>1, <1>2, <1>3, QuietMove DEF OnlyOf, JobIs, RowIs, TreeIs
<1>5. WorldOK'
  BY <1>1, <1>2, <1>3 DEF WorldOK
<1>6. CellsOf(a)'
  BY <1>1, <1>2, <1>3 DEF CellsOf, JobIs, RowIs, TreeIs
<1>7. PartsOf(a)'
  <2>1. TreeOf(a)'
    BY <1>1, <1>2, <1>3, FS_EmptySet DEF PartsOf, TreeOf, CellsOf, Jobs, Status,
         Paused, IsIdle, At, JobIs, RowIs, TreeIs
  <2>2. StageOf(a)'
    BY <1>1, <1>2, <1>3 DEF PartsOf, StageOf, CellsOf, Jobs, At, Status, IsIdle,
         Beyond, Landed, JobIs, RowIs, TreeIs
  <2>3. RowOf(a)'
    BY <1>1, <1>2, <1>3 DEF PartsOf, RowOf, CellsOf, At, Status, HasIntegrationProof,
         JobIs, RowIs, TreeIs
  <2>4. DebtOf(a)'
    BY <1>1, <1>2, <1>3 DEF PartsOf, DebtOf, CellsOf, At, Status, OwesPush, JobIs,
         RowIs, TreeIs
  <2>5. LockOf(a)'
    BY <1>1, <1>2, <1>3 DEF PartsOf, StageOf, LockOf, CellsOf, At, Status, HoldsLock,
         SameAsReviewed, Beyond, Landed, JobIs, RowIs, TreeIs
  <2>6. BaseOf(a)'
    BY <1>1, <1>2, <1>3 DEF PartsOf, BaseOf, CellsOf, At, Status, JobIs, RowIs, TreeIs
  <2> QED BY <2>1, <2>2, <2>3, <2>4, <2>5, <2>6 DEF PartsOf
<1> QED BY <1>4, <1>5, <1>6, <1>7 DEF Keeps


LEMMA CloseKeeps ==
  ASSUME Sound, NEW a \in Assignments, Close(a)
  PROVE  Keeps(a)
<1>1. /\ row \in [Assignments -> Rows] /\ tree \in [Assignments -> Trees]
      /\ job \in [Assignments -> Jobs]
      /\ frozen \in [Assignments -> {None} \cup Commits]
      /\ candidate \in [Assignments -> {None} \cup Commits]
      /\ CellsOf(a) /\ PartsOf(a) /\ WorldOK /\ PreservedInTarget
  BY SoundFacts
<1>2. /\ At(a, "close") /\ Status(a, "integrated") /\ job[a].op # "none"
      /\ ~Paused(a) /\ tree[a].present /\ tree[a].head \in Commits
      /\ row[a].integrated \in Commits
      /\ UNCHANGED <<lock, frozen, candidate, target, preserved, recovery, primary,
                     remote, made, waived, landing, crashes>>
  BY <1>1 DEF Close, PartsOf, StageOf, TreeOf, RowOf, At, Status, IsIdle, refs, shared, history
<1>3. \/ /\ row' = row /\ tree' = tree /\ JobIs(a, "idle", "none", None, FALSE)
      \/ /\ \E debt \in {row[a].debt, None} :
              RowIs(a, row[a].status, row[a].base, row[a].integrated, row[a].record, debt)
         /\ \/ /\ JobIs(a, "retire", job[a].op, job[a].expected, job[a].attested)
               /\ TreeIs(a, FALSE, None, {}, tree[a].replay)
            \/ /\ JobIs(a, "idle", "none", None, FALSE)
               /\ \E head \in Commits :
                    TreeIs(a, tree[a].present, head, tree[a].dirty, tree[a].replay)
  <2>1. CASE Finish(a) /\ UNCHANGED <<row, tree>>
    BY <2>1, <1>1, FinishIs
  <2>2. ASSUME NEW debt \in Probed(a), SetRow(a, [row[a] EXCEPT !.debt = debt])
        PROVE  /\ debt \in {row[a].debt, None}
               /\ RowIs(a, row[a].status, row[a].base, row[a].integrated, row[a].record, debt)
    <3>0. debt \in {row[a].debt, None} /\ debt \in {None} \cup Debts
      BY <1>1, RowFields DEF Probed, CellsOf
    <3> QED
      <4> DEFINE r == [row[a] EXCEPT !.debt = debt]
      <4>1. /\ r \in Rows /\ r.status = row[a].status /\ r.base = row[a].base
            /\ r.integrated = row[a].integrated /\ r.record = row[a].record
            /\ r.debt = debt
        BY <1>1, <3>0 DEF CellsOf, Rows
      <4>2. SetRow(a, r)
        BY <2>2 DEF SetRow
      <4> HIDE DEF r
      <4>3. RowIs(a, r.status, r.base, r.integrated, r.record, r.debt)
        BY <1>1, <4>1, <4>2, RowWrite
      <4> QED BY <3>0, <4>1, <4>3
  <2>3. ASSUME SetTree(a, [tree[a] EXCEPT !.head = Healed(a)])
        PROVE  /\ Healed(a) \in Commits
               /\ TreeIs(a, tree[a].present, Healed(a), tree[a].dirty, tree[a].replay)
    <3>0. Healed(a) \in Commits
      BY <1>2 DEF Healed
    <3> QED
      <4> DEFINE t == [tree[a] EXCEPT !.head = Healed(a)]
      <4>1. /\ t \in Trees /\ t.present = tree[a].present
            /\ t.head = Healed(a)
            /\ t.dirty = tree[a].dirty /\ t.replay = tree[a].replay
        BY <1>1, <3>0 DEF CellsOf, Trees
      <4>2. SetTree(a, t)
        BY <2>3 DEF SetTree
      <4> HIDE DEF t
      <4>3. TreeIs(a, t.present, t.head, t.dirty, t.replay)
        BY <1>1, <4>1, <4>2, TreeWrite
      <4> QED BY <3>0, <4>1, <4>3
  <2>4. \/ Finish(a) /\ UNCHANGED <<row, tree>>
        \/ /\ \E debt \in Probed(a) : SetRow(a, [row[a] EXCEPT !.debt = debt])
           /\ \/ SetTree(a, Removed(a)) /\ Goto(a, "retire")
              \/ SetTree(a, [tree[a] EXCEPT !.head = Healed(a)]) /\ Finish(a)
    BY DEF Close
  <2>5. Goto(a, "retire") => JobIs(a, "retire", job[a].op, job[a].expected, job[a].attested)
    BY <1>1, GotoIs DEF Places
  <2>6. Finish(a) => JobIs(a, "idle", "none", None, FALSE)
    BY <1>1, FinishIs
  <2>7. SetTree(a, Removed(a)) => TreeIs(a, FALSE, None, {}, tree[a].replay)
    BY RemovedIs
  <2> QED BY <2>1, <2>2, <2>3, <2>4, <2>5, <2>6, <2>7
<1>4. MoveOf(a) /\ PreservedInTarget'
  BY <1>1, <1>2, <1>3, QuietMove DEF OnlyOf, JobIs, RowIs, TreeIs
<1>5. WorldOK'
  BY <1>1, <1>2, <1>3 DEF WorldOK
<1>6. CellsOf(a)'
  BY <1>1, <1>2, <1>3 DEF CellsOf, JobIs, RowIs, TreeIs
<1>7. PartsOf(a)'
  <2>1. TreeOf(a)'
    BY <1>1, <1>2, <1>3, FS_EmptySet DEF PartsOf, TreeOf, CellsOf, Jobs, Status,
         Paused, IsIdle, At, JobIs, RowIs, TreeIs
  <2>2. StageOf(a)'
    BY <1>1, <1>2, <1>3 DEF PartsOf, StageOf, CellsOf, Jobs, At, Status, IsIdle,
         Beyond, Landed, JobIs, RowIs, TreeIs
  <2>3. RowOf(a)'
    BY <1>1, <1>2, <1>3 DEF PartsOf, RowOf, CellsOf, At, Status, HasIntegrationProof,
         JobIs, RowIs, TreeIs
  <2>4. DebtOf(a)'
    <3>1. /\ row'[a].debt \in {row[a].debt, None} /\ row'[a].status = row[a].status
          /\ row'[a].integrated = row[a].integrated /\ job'[a].at \in {"idle", "retire"}
      BY <1>1, <1>2, <1>3 DEF JobIs, RowIs, CellsOf
    <3>2. DebtOf(a)
      BY <1>1 DEF PartsOf
    <3> QED BY <1>2, <3>1, <3>2 DEF DebtOf, At, Status, OwesPush
  <2>5. LockOf(a)'
    BY <1>1, <1>2, <1>3 DEF PartsOf, StageOf, LockOf, CellsOf, At, Status, HoldsLock,
         SameAsReviewed, Beyond, Landed, JobIs, RowIs, TreeIs
  <2>6. BaseOf(a)'
    BY <1>1, <1>2, <1>3 DEF PartsOf, BaseOf, CellsOf, At, Status, JobIs, RowIs, TreeIs
  <2> QED BY <2>1, <2>2, <2>3, <2>4, <2>5, <2>6 DEF PartsOf
<1> QED BY <1>4, <1>5, <1>6, <1>7 DEF Keeps

\* The row of an assignment that came to its end.
LEMMA RetiredIs ==
  ASSUME Sound, NEW a \in Assignments, Status(a, "integrated"), Retired(a)
  PROVE  /\ RowIs(a, "cleaned", row[a].base, row[a].integrated, row[a].record, row[a].debt)
         /\ preserved' \subseteq Commits
         /\ \A commit \in preserved' : IsAncestor(commit, target)
<1>1. row \in [Assignments -> Rows] /\ CellsOf(a) /\ DebtOf(a) /\ PreservedInTarget /\ WorldOK
  BY SoundFacts DEF PartsOf
<1>2. RowIs(a, "cleaned", row[a].base, row[a].integrated, row[a].record, row[a].debt)
  <2> DEFINE r == [row[a] EXCEPT !.status = "cleaned"]
  <2>1. /\ r \in Rows /\ r.status = "cleaned" /\ r.base = row[a].base
        /\ r.integrated = row[a].integrated /\ r.record = row[a].record
        /\ r.debt = row[a].debt
    BY <1>1 DEF CellsOf, Rows
  <2>2. SetRow(a, r)
    BY DEF Retired
  <2> HIDE DEF r
  <2>3. RowIs(a, r.status, r.base, r.integrated, r.record, r.debt)
    BY <1>1, <2>1, <2>2, RowWrite
  <2> QED BY <2>1, <2>3
<1>3. /\ preserved' \subseteq Commits
      /\ \A commit \in preserved' : IsAncestor(commit, target)
  <2>1. CASE preserved' = preserved
    BY <2>1, <1>1 DEF PreservedInTarget, WorldOK
  <2>2. CASE /\ preserved' = preserved \cup {row[a].debt.candidate}
             /\ row[a].debt # None /\ row[a].debt.phase = "push-pending"
    <3>1. row[a].debt.candidate \in Commits /\ IsAncestor(row[a].debt.candidate, target)
      BY <2>2, <1>1 DEF DebtOf, OwesPush
    <3> QED BY <2>2, <3>1, <1>1 DEF PreservedInTarget, WorldOK
  <2> QED BY <2>1, <2>2 DEF Retired
<1> QED BY <1>2, <1>3

LEMMA RetireKeeps ==
  ASSUME Sound, NEW a \in Assignments, Retire(a)
  PROVE  Keeps(a)
<1>1. /\ row \in [Assignments -> Rows] /\ tree \in [Assignments -> Trees]
      /\ job \in [Assignments -> Jobs]
      /\ frozen \in [Assignments -> {None} \cup Commits]
      /\ candidate \in [Assignments -> {None} \cup Commits]
      /\ CellsOf(a) /\ PartsOf(a) /\ WorldOK /\ PreservedInTarget
  BY SoundFacts
<1>2. /\ At(a, "retire") /\ Status(a, "integrated") /\ job[a].op # "none"
      /\ ~Paused(a) /\ ~tree[a].present
      /\ UNCHANGED <<lock, tree, frozen, candidate, target, recovery, primary,
                     remote, made, waived, landing, crashes>>
  BY <1>1 DEF Retire, PartsOf, StageOf, TreeOf, At, Status, IsIdle, refs, shared, history
<1>3. JobIs(a, "idle", "none", None, FALSE)
  BY <1>1, FinishIs DEF Retire
<1>4. /\ RowIs(a, "cleaned", row[a].base, row[a].integrated, row[a].record, row[a].debt)
      /\ preserved' \subseteq Commits /\ \A commit \in preserved' : IsAncestor(commit, target)
  BY <1>2, RetiredIs DEF Retire
<1>5. MoveOf(a) /\ PreservedInTarget'
  <2>1. IsAncestor(target, target')
    BY <1>1, <1>2, AncestorReflexive DEF WorldOK
  <2> QED BY <2>1, <1>1, <1>2, <1>3, <1>4 DEF MoveOf, OnlyOf, JobIs, RowIs, PreservedInTarget
<1>6. WorldOK'
  BY <1>1, <1>2, <1>3, <1>4 DEF WorldOK
<1>7. CellsOf(a)'
  BY <1>1, <1>2, <1>3, <1>4 DEF CellsOf, JobIs, RowIs, TreeIs
<1>8. PartsOf(a)'
  <2>1. TreeOf(a)'
    BY <1>1, <1>2, <1>3, <1>4 DEF PartsOf, TreeOf, CellsOf, Jobs, Status, Paused,
         IsIdle, At, JobIs, RowIs, TreeIs
  <2>2. StageOf(a)'
    BY <1>1, <1>2, <1>3, <1>4 DEF PartsOf, StageOf, CellsOf, Jobs, At, Status, IsIdle,
         Beyond, Landed, JobIs, RowIs, TreeIs
  <2>3. RowOf(a)'
    BY <1>1, <1>2, <1>3, <1>4 DEF PartsOf, RowOf, CellsOf, At, Status,
         HasIntegrationProof, JobIs, RowIs, TreeIs
  <2>4. DebtOf(a)'
    BY <1>1, <1>2, <1>3, <1>4 DEF PartsOf, DebtOf, CellsOf, At, Status, OwesPush,
         JobIs, RowIs, TreeIs
  <2>5. LockOf(a)'
    BY <1>1, <1>2, <1>3, <1>4 DEF PartsOf, StageOf, LockOf, CellsOf, At, Status,
         HoldsLock, SameAsReviewed, Beyond, Landed, JobIs, RowIs, TreeIs
  <2>6. BaseOf(a)'
    BY <1>1, <1>2, <1>3, <1>4 DEF PartsOf, BaseOf, CellsOf, At, Status, JobIs, RowIs,
         TreeIs
  <2> QED BY <2>1, <2>2, <2>3, <2>4, <2>5, <2>6 DEF PartsOf
<1> QED BY <1>5, <1>6, <1>7, <1>8 DEF Keeps

LEMMA CompleteTeardownKeeps ==
  ASSUME Sound, NEW a \in Assignments, CompleteTeardown(a)
  PROVE  Keeps(a)
<1>1. /\ row \in [Assignments -> Rows] /\ tree \in [Assignments -> Trees]
      /\ job \in [Assignments -> Jobs]
      /\ frozen \in [Assignments -> {None} \cup Commits]
      /\ candidate \in [Assignments -> {None} \cup Commits]
      /\ CellsOf(a) /\ PartsOf(a) /\ WorldOK /\ PreservedInTarget
  BY SoundFacts
<1>2. /\ IsIdle(a) /\ Status(a, "integrated")
      /\ ~Paused(a) /\ ~tree[a].present
      /\ UNCHANGED <<lock, tree, frozen, candidate, target, recovery, primary,
                     remote, made, waived, landing, crashes, job>>
  BY <1>1 DEF CompleteTeardown, PartsOf, TreeOf, refs, shared, history
<1>3. job' = [job EXCEPT ![a] = job'[a]]
  BY <1>1, <1>2
<1>4. /\ RowIs(a, "cleaned", row[a].base, row[a].integrated, row[a].record, row[a].debt)
      /\ preserved' \subseteq Commits /\ \A commit \in preserved' : IsAncestor(commit, target)
  BY <1>2, RetiredIs DEF CompleteTeardown
<1>5. MoveOf(a) /\ PreservedInTarget'
  <2>1. IsAncestor(target, target')
    BY <1>1, <1>2, AncestorReflexive DEF WorldOK
  <2> QED BY <2>1, <1>1, <1>2, <1>3, <1>4 DEF MoveOf, OnlyOf, JobIs, RowIs, PreservedInTarget
<1>6. WorldOK'
  BY <1>1, <1>2, <1>3, <1>4 DEF WorldOK
<1>7. CellsOf(a)'
  BY <1>1, <1>2, <1>3, <1>4 DEF CellsOf, JobIs, RowIs, TreeIs
<1>8. PartsOf(a)'
  <2>1. TreeOf(a)'
    BY <1>1, <1>2, <1>3, <1>4 DEF PartsOf, TreeOf, CellsOf, Jobs, Status, Paused,
         IsIdle, At, JobIs, RowIs, TreeIs
  <2>2. StageOf(a)'
    BY <1>1, <1>2, <1>3, <1>4 DEF PartsOf, StageOf, CellsOf, Jobs, At, Status, IsIdle,
         Beyond, Landed, JobIs, RowIs, TreeIs
  <2>3. RowOf(a)'
    BY <1>1, <1>2, <1>3, <1>4 DEF PartsOf, RowOf, CellsOf, At, Status,
         HasIntegrationProof, JobIs, RowIs, TreeIs
  <2>4. DebtOf(a)'
    BY <1>1, <1>2, <1>3, <1>4 DEF PartsOf, DebtOf, CellsOf, At, Status, OwesPush,
         JobIs, RowIs, TreeIs
  <2>5. LockOf(a)'
    BY <1>1, <1>2, <1>3, <1>4 DEF PartsOf, StageOf, LockOf, CellsOf, At, Status,
         HoldsLock, SameAsReviewed, Beyond, Landed, JobIs, RowIs, TreeIs
  <2>6. BaseOf(a)'
    BY <1>1, <1>2, <1>3, <1>4 DEF PartsOf, BaseOf, CellsOf, At, Status, JobIs, RowIs,
         TreeIs
  <2> QED BY <2>1, <2>2, <2>3, <2>4, <2>5, <2>6 DEF PartsOf
<1> QED BY <1>5, <1>6, <1>7, <1>8 DEF Keeps

LEMMA ClearKeeps ==
  ASSUME Sound, NEW a \in Assignments, Clear(a)
  PROVE  Keeps(a)
<1>1. /\ row \in [Assignments -> Rows] /\ tree \in [Assignments -> Trees]
      /\ job \in [Assignments -> Jobs]
      /\ frozen \in [Assignments -> {None} \cup Commits]
      /\ candidate \in [Assignments -> {None} \cup Commits]
      /\ CellsOf(a) /\ PartsOf(a) /\ WorldOK /\ PreservedInTarget
  BY SoundFacts
<1>2. /\ At(a, "clear") /\ Status(a, "active")
      /\ ~Paused(a) /\ tree[a].present
      /\ UNCHANGED <<row, tree, target, recovery, primary, preserved,
                     remote, made, waived, landing, crashes>>
  BY <1>1 DEF Clear, PartsOf, TreeOf, StageOf, At, Status, IsIdle, shared, history
<1>3. JobIs(a, "idle", "none", None, FALSE)
  BY <1>1, FinishIs DEF Clear
<1>4. /\ candidate' = [candidate EXCEPT ![a] = candidate'[a]] /\ candidate'[a] = None
      /\ frozen' = [frozen EXCEPT ![a] = frozen'[a]] /\ frozen'[a] = None
      /\ lock' = lock \/ (lock.owner = a /\ lock' = None)
  BY <1>1 DEF Clear, SetCandidate, SetFrozen, OwnsLock
<1>5. MoveOf(a) /\ PreservedInTarget'
  BY <1>1, <1>2, <1>3, <1>4, QuietMove DEF OnlyOf, JobIs, RowIs, TreeIs
<1>6. WorldOK'
  BY <1>1, <1>2, <1>3, <1>4 DEF WorldOK
<1>7. CellsOf(a)'
  BY <1>1, <1>2, <1>3, <1>4 DEF CellsOf, JobIs, RowIs, TreeIs
<1>8. PartsOf(a)'
  <2>1. TreeOf(a)'
    BY <1>1, <1>2, <1>3, <1>4 DEF PartsOf, TreeOf, CellsOf, Jobs, Status, Paused,
         IsIdle, At, JobIs, RowIs, TreeIs
  <2>2. StageOf(a)'
    BY <1>1, <1>2, <1>3, <1>4 DEF PartsOf, StageOf, CellsOf, Jobs, At, Status, IsIdle,
         Beyond, Landed, JobIs, RowIs, TreeIs
  <2>3. RowOf(a)'
    BY <1>1, <1>2, <1>3, <1>4 DEF PartsOf, RowOf, CellsOf, At, Status,
         HasIntegrationProof, JobIs, RowIs, TreeIs
  <2>4. DebtOf(a)'
    BY <1>1, <1>2, <1>3, <1>4 DEF PartsOf, DebtOf, CellsOf, At, Status, OwesPush,
         JobIs, RowIs, TreeIs
  <2>5. LockOf(a)'
    BY <1>1, <1>2, <1>3, <1>4 DEF PartsOf, StageOf, LockOf, CellsOf, At, Status,
         HoldsLock, SameAsReviewed, Beyond, Landed, JobIs, RowIs, TreeIs
  <2>6. BaseOf(a)'
    BY <1>1, <1>2, <1>3, <1>4 DEF PartsOf, BaseOf, CellsOf, At, Status, JobIs, RowIs,
         TreeIs
  <2> QED BY <2>1, <2>2, <2>3, <2>4, <2>5, <2>6 DEF PartsOf
<1> QED BY <1>5, <1>6, <1>7, <1>8 DEF Keeps

LEMMA SyncBaseKeeps ==
  ASSUME Sound, NEW a \in Assignments, SyncBase(a)
  PROVE  Keeps(a)
<1>1. /\ row \in [Assignments -> Rows] /\ tree \in [Assignments -> Trees]
      /\ job \in [Assignments -> Jobs]
      /\ frozen \in [Assignments -> {None} \cup Commits]
      /\ candidate \in [Assignments -> {None} \cup Commits]
      /\ CellsOf(a) /\ PartsOf(a) /\ WorldOK /\ PreservedInTarget
  BY SoundFacts
<1>2. /\ At(a, "base") /\ Status(a, "active") /\ job[a].expected \in Commits
      /\ ~Paused(a) /\ tree[a].present /\ IsAncestor(job[a].expected, target)
      /\ UNCHANGED <<lock, tree, frozen, candidate, target, recovery, primary, preserved,
                     remote, made, waived, landing, crashes>>
  BY <1>1 DEF SyncBase, PartsOf, TreeOf, StageOf, BaseOf, At, Status, IsIdle, refs, shared,
              history
<1>3. JobIs(a, "idle", "none", None, FALSE)
  BY <1>1, FinishIs DEF SyncBase
<1>4. RowIs(a, row[a].status, job[a].expected, row[a].integrated, row[a].record, row[a].debt)
  <2> DEFINE r == [row[a] EXCEPT !.base = job[a].expected]
  <2>1. /\ r \in Rows /\ r.status = row[a].status /\ r.base = job[a].expected
        /\ r.integrated = row[a].integrated /\ r.record = row[a].record
        /\ r.debt = row[a].debt
    BY <1>1, <1>2 DEF CellsOf, Rows
  <2>2. SetRow(a, r)
    BY DEF SyncBase
  <2> HIDE DEF r
  <2>3. RowIs(a, r.status, r.base, r.integrated, r.record, r.debt)
    BY <1>1, <2>1, <2>2, RowWrite
  <2> QED BY <2>1, <2>3
<1>5. MoveOf(a) /\ PreservedInTarget'
  BY <1>1, <1>2, <1>3, <1>4, QuietMove DEF OnlyOf, JobIs, RowIs, TreeIs
<1>6. WorldOK'
  BY <1>1, <1>2, <1>3, <1>4 DEF WorldOK
<1>7. CellsOf(a)'
  BY <1>1, <1>2, <1>3, <1>4 DEF CellsOf, JobIs, RowIs, TreeIs
<1>8. PartsOf(a)'
  <2>1. TreeOf(a)'
    BY <1>1, <1>2, <1>3, <1>4 DEF PartsOf, TreeOf, CellsOf, Jobs, Status, Paused,
         IsIdle, At, JobIs, RowIs, TreeIs
  <2>2. StageOf(a)'
    BY <1>1, <1>2, <1>3, <1>4 DEF PartsOf, StageOf, CellsOf, Jobs, At, Status, IsIdle,
         Beyond, Landed, JobIs, RowIs, TreeIs
  <2>3. RowOf(a)'
    BY <1>1, <1>2, <1>3, <1>4 DEF PartsOf, RowOf, CellsOf, At, Status,
         HasIntegrationProof, JobIs, RowIs, TreeIs
  <2>4. DebtOf(a)'
    BY <1>1, <1>2, <1>3, <1>4 DEF PartsOf, DebtOf, CellsOf, At, Status, OwesPush,
         JobIs, RowIs, TreeIs
  <2>5. LockOf(a)'
    BY <1>1, <1>2, <1>3, <1>4 DEF PartsOf, StageOf, LockOf, CellsOf, At, Status,
         HoldsLock, SameAsReviewed, Beyond, Landed, JobIs, RowIs, TreeIs
  <2>6. BaseOf(a)'
    BY <1>1, <1>2, <1>3, <1>4 DEF PartsOf, BaseOf, CellsOf, At, Status, JobIs, RowIs,
         TreeIs
  <2> QED BY <2>1, <2>2, <2>3, <2>4, <2>5, <2>6 DEF PartsOf
<1> QED BY <1>5, <1>6, <1>7, <1>8 DEF Keeps


-----------------------------------------------------------------------------
(* Recovery, and the ways the repository changes under the handlers.        *)

LEMMA ReconcileLandedKeeps ==
  ASSUME Sound, NEW a \in Assignments, ReconcileLanded(a)
  PROVE  Keeps(a)
<1>1. /\ row \in [Assignments -> Rows] /\ tree \in [Assignments -> Trees]
      /\ job \in [Assignments -> Jobs]
      /\ frozen \in [Assignments -> {None} \cup Commits]
      /\ candidate \in [Assignments -> {None} \cup Commits]
      /\ CellsOf(a) /\ PartsOf(a) /\ WorldOK /\ PreservedInTarget
  BY SoundFacts
<1>2. /\ IsIdle(a) /\ Status(a, "ready") /\ ~Paused(a) /\ tree[a].present
      /\ candidate[a] \in Commits /\ IsAncestor(candidate[a], target) /\ frozen[a] \in Commits
      /\ OwnsLock(a) /\ lock.expected \in Commits
      /\ UNCHANGED <<lock, preserved, tree, frozen, candidate, target, recovery, remote, made,
                     waived, crashes>>
  BY <1>1 DEF ReconcileLanded, AwaitsRecovery, Free, CellsOf, PartsOf, RowOf, Status, WorldOK,
              OwnsLock, Locks, refs
<1>3. /\ primary' \in [onRef : BOOLEAN, shows : {None} \cup Commits, dirty : SUBSET Changes]
  <2>1. \/ primary' = primary
        \/ primary' = [primary EXCEPT !.shows = candidate[a]]
    BY DEF ReconcileLanded, RepairCheckout
  <2> QED BY <2>1, <1>1, <1>2 DEF WorldOK
<1>4. \/ /\ landing' = landing \ {a}
         /\ \E debt \in {None} \cup Debts :
              /\ RowIs(a, "integrated", row[a].base, candidate[a], candidate[a], debt)
              /\ debt # None => debt.phase = "push-pending" /\ debt.candidate = candidate[a]
         /\ \E place \in {"recycle", "unlock"} : JobIs(a, place, "landed", lock.expected, FALSE)
      \/ row' = row /\ landing' = landing /\ job' = job
  <2>1. CASE /\ SetRow(a, Integrated(a)) /\ landing' = landing \ {a}
             /\ job' = [job EXCEPT ![a] =
                  [Idle EXCEPT !.op = "landed", !.expected = lock.expected,
                               !.at = IF row[a].debt = None THEN "recycle" ELSE "unlock"]]
    <3> DEFINE place == IF row[a].debt = None THEN "recycle" ELSE "unlock"
               j == [Idle EXCEPT !.op = "landed", !.expected = lock.expected, !.at = place]
    <3>1. place \in {"recycle", "unlock"} /\ place \in Places
      BY DEF Places
    <3>2. job' = [job EXCEPT ![a] = j]
      BY <2>1
    <3> HIDE DEF place
    <3>3. /\ j.at = place /\ j.op = "landed" /\ j.expected = lock.expected /\ j.attested = FALSE
          /\ j \in Jobs
      BY <1>2, <3>1 DEF Idle, Jobs
    <3> HIDE DEF j, Jobs
    <3>4. JobIs(a, place, "landed", lock.expected, FALSE)
      BY <1>1, <3>2, <3>3 DEF JobIs
    <3>5. \E debt \in {None} \cup Debts :
            /\ RowIs(a, "integrated", row[a].base, candidate[a], candidate[a], debt)
            /\ debt = None <=> row[a].debt = None
            /\ debt # None => debt.phase = "push-pending" /\ debt.candidate = candidate[a]
      BY <1>2, <2>1, IntegratedIs
    <3> QED BY <2>1, <3>1, <3>4, <3>5
  <2>2. CASE UNCHANGED <<row, landing, job>>
    BY <2>2
  <2> QED BY <2>1, <2>2 DEF ReconcileLanded
<1>5. landing' \subseteq landing /\ landing' \ {a} = landing \ {a}
  BY <1>4
<1>6. MoveOf(a) /\ PreservedInTarget'
  <2>1. IsAncestor(target, target')
    BY <1>1, <1>2, AncestorReflexive DEF WorldOK
  <2> QED BY <2>1, <1>1, <1>2, <1>4, <1>5 DEF MoveOf, OnlyOf, JobIs, RowIs, PreservedInTarget
<1>7. WorldOK'
  BY <1>1, <1>2, <1>3, <1>4, <1>5 DEF WorldOK
<1>8. CellsOf(a)'
  BY <1>1, <1>2, <1>3, <1>4, <1>5 DEF CellsOf, JobIs, RowIs, TreeIs
<1>9. PartsOf(a)'
  <2>1. TreeOf(a)'
    BY <1>1, <1>2, <1>3, <1>4, <1>5 DEF PartsOf, TreeOf, CellsOf, Jobs, Status, Paused,
         IsIdle, At, JobIs, RowIs, TreeIs
  <2>2. StageOf(a)'
    BY <1>1, <1>2, <1>3, <1>4, <1>5 DEF PartsOf, StageOf, CellsOf, Jobs, At, Status,
         IsIdle, Beyond, Landed, JobIs, RowIs, TreeIs
  <2>3. RowOf(a)'
    BY <1>1, <1>2, <1>3, <1>4, <1>5 DEF PartsOf, RowOf, CellsOf, At, Status,
         HasIntegrationProof, JobIs, RowIs, TreeIs
  <2>4. DebtOf(a)'
    BY <1>1, <1>2, <1>3, <1>4, <1>5 DEF PartsOf, DebtOf, CellsOf, At, Status, OwesPush,
         JobIs, RowIs, TreeIs
  <2>5. LockOf(a)'
    BY <1>1, <1>2, <1>3, <1>4, <1>5 DEF PartsOf, StageOf, LockOf, CellsOf, At, Status,
         HoldsLock, SameAsReviewed, Beyond, Landed, JobIs, RowIs, TreeIs
  <2>6. BaseOf(a)'
    BY <1>1, <1>2, <1>3, <1>4, <1>5 DEF PartsOf, BaseOf, CellsOf, At, Status, JobIs,
         RowIs, TreeIs
  <2> QED BY <2>1, <2>2, <2>3, <2>4, <2>5, <2>6 DEF PartsOf
<1> QED BY <1>6, <1>7, <1>8, <1>9 DEF Keeps

LEMMA ReconcileFrozenKeeps ==
  ASSUME Sound, NEW a \in Assignments, ReconcileFrozen(a)
  PROVE  Keeps(a)
<1>1. /\ row \in [Assignments -> Rows] /\ tree \in [Assignments -> Trees]
      /\ job \in [Assignments -> Jobs]
      /\ frozen \in [Assignments -> {None} \cup Commits]
      /\ candidate \in [Assignments -> {None} \cup Commits]
      /\ CellsOf(a) /\ PartsOf(a) /\ WorldOK /\ PreservedInTarget
  BY SoundFacts
<1>2. /\ IsIdle(a) /\ Status(a, "ready") /\ ~Paused(a) /\ tree[a].present /\ target \in Commits
      /\ UNCHANGED <<row, lock, preserved, frozen, candidate, recovery, tree, target, remote,
                     primary, made, waived, landing, crashes>>
  BY <1>1 DEF ReconcileFrozen, AwaitsRecovery, Free, WorldOK, database, refs, shared, history
<1>3. JobIs(a, "lock", "reconcile", target, FALSE)
  <2>1. "lock" \in Places /\ "reconcile" \in AllOps
    BY DEF Places, AllOps
  <2>2. job' = [job EXCEPT ![a] = [Idle EXCEPT !.at = "lock", !.op = "reconcile", !.expected = target]]
    BY DEF ReconcileFrozen
  <2> QED BY <1>2, <2>1, <2>2, BeginsOn
<1>4. MoveOf(a) /\ PreservedInTarget'
  BY <1>1, <1>2, <1>3, QuietMove DEF OnlyOf, JobIs, RowIs, TreeIs
<1>5. WorldOK'
  BY <1>1, <1>2, <1>3 DEF WorldOK
<1>6. CellsOf(a)'
  BY <1>1, <1>2, <1>3 DEF CellsOf, JobIs, RowIs, TreeIs
<1>7. PartsOf(a)'
  <2>1. TreeOf(a)'
    BY <1>1, <1>2, <1>3 DEF PartsOf, TreeOf, CellsOf, Jobs, Status, Paused, IsIdle, At,
         JobIs, RowIs, TreeIs
  <2>2. StageOf(a)'
    BY <1>1, <1>2, <1>3 DEF PartsOf, StageOf, CellsOf, Jobs, At, Status, IsIdle,
         Beyond, Landed, JobIs, RowIs, TreeIs
  <2>3. RowOf(a)'
    BY <1>1, <1>2, <1>3 DEF PartsOf, RowOf, CellsOf, At, Status, HasIntegrationProof,
         JobIs, RowIs, TreeIs
  <2>4. DebtOf(a)'
    BY <1>1, <1>2, <1>3 DEF PartsOf, DebtOf, CellsOf, At, Status, OwesPush, JobIs,
         RowIs, TreeIs
  <2>5. LockOf(a)'
    BY <1>1, <1>2, <1>3 DEF PartsOf, StageOf, LockOf, CellsOf, At, Status, HoldsLock,
         SameAsReviewed, Beyond, Landed, JobIs, RowIs, TreeIs
  <2>6. BaseOf(a)'
    BY <1>1, <1>2, <1>3 DEF PartsOf, BaseOf, CellsOf, At, Status, JobIs, RowIs, TreeIs
  <2> QED BY <2>1, <2>2, <2>3, <2>4, <2>5, <2>6 DEF PartsOf
<1> QED BY <1>4, <1>5, <1>6, <1>7 DEF Keeps

LEMMA ReconcileIntegratedKeeps ==
  ASSUME Sound, NEW a \in Assignments, ReconcileIntegrated(a)
  PROVE  Keeps(a)
<1>1. /\ row \in [Assignments -> Rows] /\ tree \in [Assignments -> Trees]
      /\ job \in [Assignments -> Jobs]
      /\ frozen \in [Assignments -> {None} \cup Commits]
      /\ candidate \in [Assignments -> {None} \cup Commits]
      /\ CellsOf(a) /\ PartsOf(a) /\ WorldOK /\ PreservedInTarget
  BY SoundFacts
<1>2. /\ IsIdle(a) /\ Status(a, "integrated") /\ ~Paused(a) /\ tree[a].present
      /\ row[a].integrated \in Commits /\ Healed(a) = row[a].integrated
      /\ UNCHANGED <<lock, preserved, frozen, candidate, recovery, target, remote,
                     primary, made, waived, landing, crashes>>
  BY <1>1 DEF ReconcileIntegrated, Free, PartsOf, RowOf, refs, shared, history
<1>3. TreeIs(a, tree[a].present, Healed(a), tree[a].dirty, tree[a].replay)
  <2> DEFINE t == [tree[a] EXCEPT !.head = Healed(a)]
  <2>1. /\ t \in Trees /\ t.present = tree[a].present
        /\ t.head = Healed(a)
        /\ t.dirty = tree[a].dirty /\ t.replay = tree[a].replay
    BY <1>1, <1>2 DEF CellsOf, Trees
  <2>2. SetTree(a, t)
    BY DEF ReconcileIntegrated
  <2> HIDE DEF t
  <2>3. TreeIs(a, t.present, t.head, t.dirty, t.replay)
    BY <1>1, <2>1, <2>2, TreeWrite
  <2> QED BY <2>1, <2>3
<1>4. \/ /\ RowIs(a, row[a].status, row[a].base, row[a].integrated, row[a].record, None)
         /\ JobIs(a, "recycle", "reconcile", None, FALSE)
      \/ row' = row /\ job' = job
  <2>1. CASE UNCHANGED <<row, job>>
    BY <2>1
  <2>2. CASE /\ SetRow(a, [row[a] EXCEPT !.debt = None])
             /\ job' = [job EXCEPT ![a] = [Idle EXCEPT !.at = "recycle", !.op = "reconcile"]]
    <3>1. "recycle" \in Places /\ "reconcile" \in AllOps
      BY DEF Places, AllOps
    <3>2. JobIs(a, "recycle", "reconcile", None, FALSE)
      BY <2>2, <3>1, BeginsAt
    <3>3. RowIs(a, row[a].status, row[a].base, row[a].integrated, row[a].record, None)
      <4> DEFINE r == [row[a] EXCEPT !.debt = None]
      <4>1. /\ r \in Rows /\ r.status = row[a].status /\ r.base = row[a].base
            /\ r.integrated = row[a].integrated /\ r.record = row[a].record
            /\ r.debt = None
        BY <1>1 DEF CellsOf, Rows
      <4>2. SetRow(a, r)
        BY <2>2 DEF SetRow
      <4> HIDE DEF r
      <4>3. RowIs(a, r.status, r.base, r.integrated, r.record, r.debt)
        BY <1>1, <4>1, <4>2, RowWrite
      <4> QED BY <4>1, <4>3
    <3> QED BY <3>2, <3>3
  <2> QED BY <2>1, <2>2 DEF ReconcileIntegrated
<1>5. MoveOf(a) /\ PreservedInTarget'
  BY <1>1, <1>2, <1>3, <1>4, QuietMove DEF OnlyOf, JobIs, RowIs, TreeIs
<1>6. WorldOK'
  BY <1>1, <1>2, <1>3, <1>4 DEF WorldOK
<1>7. CellsOf(a)'
  BY <1>1, <1>2, <1>3, <1>4 DEF CellsOf, JobIs, RowIs, TreeIs
<1>8. PartsOf(a)'
  <2>1. TreeOf(a)'
    BY <1>1, <1>2, <1>3, <1>4 DEF PartsOf, TreeOf, CellsOf, Jobs, Status, Paused,
         IsIdle, At, JobIs, RowIs, TreeIs
  <2>2. StageOf(a)'
    BY <1>1, <1>2, <1>3, <1>4 DEF PartsOf, StageOf, CellsOf, Jobs, At, Status, IsIdle,
         Beyond, Landed, JobIs, RowIs, TreeIs
  <2>3. RowOf(a)'
    BY <1>1, <1>2, <1>3, <1>4 DEF PartsOf, RowOf, CellsOf, At, Status,
         HasIntegrationProof, JobIs, RowIs, TreeIs
  <2>4. DebtOf(a)'
    BY <1>1, <1>2, <1>3, <1>4 DEF PartsOf, DebtOf, CellsOf, At, Status, OwesPush,
         JobIs, RowIs, TreeIs
  <2>5. LockOf(a)'
    BY <1>1, <1>2, <1>3, <1>4 DEF PartsOf, StageOf, LockOf, CellsOf, At, Status,
         HoldsLock, SameAsReviewed, Beyond, Landed, JobIs, RowIs, TreeIs
  <2>6. BaseOf(a)'
    BY <1>1, <1>2, <1>3, <1>4 DEF PartsOf, BaseOf, CellsOf, At, Status, JobIs, RowIs,
         TreeIs
  <2> QED BY <2>1, <2>2, <2>3, <2>4, <2>5, <2>6 DEF PartsOf
<1> QED BY <1>5, <1>6, <1>7, <1>8 DEF Keeps

\* A replay that is stopped, and how it may be resolved.
LEMMA PausedFacts ==
  ASSUME Sound, NEW a \in Assignments, Paused(a)
  PROVE  /\ tree[a].replay \in Replays /\ tree[a].replay.left # Root
         /\ tree[a].present /\ tree[a].head \in Commits /\ IsIdle(a) /\ Status(a, "ready")
         /\ Stopped(a) \in ReplayStates /\ Stopped(a).left = tree[a].replay.left
         /\ tree[a].replay.left[1] \in Patch
         /\ Resolutions(a) \subseteq Commits
<1>1. /\ tree[a].replay \in Replays /\ tree[a].replay.left # Root
      /\ tree[a].present /\ tree[a].head \in Commits /\ IsIdle(a) /\ Status(a, "ready")
  BY SoundFacts, TreeFields DEF CellsOf, PartsOf, TreeOf, Paused
<1>2. /\ tree[a].replay.done \in Commits /\ tree[a].replay.left \in Commits
      /\ tree[a].replay.staged \in {None} \cup Commits
  BY <1>1 DEF Replays
<1>3. Stopped(a) \in ReplayStates /\ Stopped(a).left = tree[a].replay.left
  BY <1>1, <1>2 DEF Stopped, ReplayStates
<1>4. Len(tree[a].replay.left) # 0 /\ Len(tree[a].replay.left) \in Nat
  BY <1>1, <1>2, RootFacts, CommitFacts
<1>5. tree[a].replay.left[1] \in Patch
  BY <1>2, <1>4, CommitFacts
<1>6. Reworked(tree[a].replay.left[1]) \in Patch
  BY <1>5 DEF Reworked, Patch
<1>7. <<Reworked(tree[a].replay.left[1])>> \in Commits
  BY <1>6 DEF Commits
<1>8. Resolutions(a) \subseteq Commits
  BY <1>7, RootFacts DEF Resolutions
<1> QED BY <1>1, <1>3, <1>5, <1>8

\* The worktree after a replay went on.
LEMMA AfterReplayIs ==
  ASSUME Sound, NEW a \in Assignments, tree[a].head \in Commits,
         NEW replay \in ReplayStates, SetTree(a, AfterReplay(a, replay))
  PROVE  \/ /\ Complete(replay) /\ replay.done \in Commits
            /\ TreeIs(a, tree[a].present, replay.done, tree[a].dirty, None)
         \/ /\ ~Complete(replay)
            /\ \E stopped \in Replays :
                 /\ stopped.done = replay.done /\ stopped.left = replay.left
                 /\ stopped.staged = None /\ stopped.left # Root
                 /\ TreeIs(a, tree[a].present, tree[a].head, tree[a].dirty, stopped)
<1>1. tree \in [Assignments -> Trees] /\ CellsOf(a)
  BY SoundFacts
<1>2. replay.done \in Commits /\ replay.left \in Commits
  BY DEF ReplayStates
<1>3. CASE Complete(replay)
  <2>1. TreeIs(a, tree[a].present, replay.done, tree[a].dirty, None)
    <3> DEFINE t == [tree[a] EXCEPT !.head = replay.done, !.replay = None]
    <3>1. /\ t \in Trees /\ t.present = tree[a].present
          /\ t.head = replay.done
          /\ t.dirty = tree[a].dirty /\ t.replay = None
      BY <1>1, <1>2 DEF CellsOf, Trees
    <3>2. SetTree(a, t)
      BY <1>3 DEF AfterReplay
    <3> HIDE DEF t
    <3>3. TreeIs(a, t.present, t.head, t.dirty, t.replay)
      BY <1>1, <3>1, <3>2, TreeWrite
    <3> QED BY <3>1, <3>3
  <2> QED BY <1>2, <1>3, <2>1
<1>4. CASE ~Complete(replay)
  <2> DEFINE stopped == [done |-> replay.done, left |-> replay.left, staged |-> None]
  <2>1. /\ stopped \in Replays /\ stopped.done = replay.done /\ stopped.left = replay.left
    BY <1>2 DEF Replays
  <2>2. stopped.staged = None /\ stopped.left # Root
    BY <1>4 DEF Complete
  <2>3. SetTree(a, [tree[a] EXCEPT !.replay = stopped])
    BY <1>4 DEF AfterReplay
  <2> HIDE DEF stopped
  <2>4. TreeIs(a, tree[a].present, tree[a].head, tree[a].dirty, stopped)
    <3> DEFINE t == [tree[a] EXCEPT !.replay = stopped]
    <3>1. /\ t \in Trees /\ t.present = tree[a].present
          /\ t.head = tree[a].head
          /\ t.dirty = tree[a].dirty /\ t.replay = stopped
      BY <1>1, <2>1 DEF CellsOf, Trees
    <3>2. SetTree(a, t)
      BY <2>3 DEF SetTree
    <3> HIDE DEF t
    <3>3. TreeIs(a, t.present, t.head, t.dirty, t.replay)
      BY <1>1, <3>1, <3>2, TreeWrite
    <3> QED BY <3>1, <3>3
  <2> QED BY <1>4, <2>1, <2>2, <2>4
<1> QED BY <1>3, <1>4

LEMMA WaiveIs ==
  ASSUME Sound, NEW a \in Assignments, Paused(a), NEW resolution, Waive(a, resolution)
  PROVE  waived' \subseteq Changes \X {"resolution", "restore"}
<1>1. waived \subseteq Changes \X {"resolution", "restore"}
  BY SoundFacts DEF WorldOK
<1>2. tree[a].replay.left[1].of \in Changes
  BY PausedFacts DEF Patch
<1> QED BY <1>1, <1>2 DEF Waive

LEMMA ResolveByHandKeeps ==
  ASSUME Sound, NEW a \in Assignments, NEW resolution, ResolveByHand(a, resolution)
  PROVE  Keeps(a)
<1>1. /\ row \in [Assignments -> Rows] /\ tree \in [Assignments -> Trees]
      /\ job \in [Assignments -> Jobs]
      /\ frozen \in [Assignments -> {None} \cup Commits]
      /\ candidate \in [Assignments -> {None} \cup Commits]
      /\ CellsOf(a) /\ PartsOf(a) /\ WorldOK /\ PreservedInTarget
  BY SoundFacts
<1>2. /\ IsIdle(a) /\ Status(a, "ready") /\ Paused(a) /\ tree[a].present /\ tree[a].head \in Commits
      /\ tree[a].replay \in Replays /\ tree[a].replay.left # Root /\ resolution \in Commits
      /\ UNCHANGED <<row, lock, preserved, frozen, candidate, recovery, target, remote,
                     primary, job, made, landing, crashes>>
  BY PausedFacts DEF ResolveByHand, database, refs, shared
<1>3. waived' \subseteq Changes \X {"resolution", "restore"}
  BY WaiveIs DEF ResolveByHand
<1>4. \E staged \in Replays :
        /\ staged.left # Root
        /\ TreeIs(a, tree[a].present, tree[a].head, tree[a].dirty, staged)
  <2> DEFINE staged == [tree[a].replay EXCEPT !.staged = resolution]
  <2>1. staged \in Replays /\ staged.left = tree[a].replay.left
    BY <1>2 DEF Replays
  <2>2. tree[a] \in Trees /\ [tree[a] EXCEPT !.replay.staged = resolution] = [tree[a] EXCEPT !.replay = staged]
    BY <1>1 DEF CellsOf, Trees
  <2>3. SetTree(a, [tree[a] EXCEPT !.replay = staged])
    BY <2>2 DEF ResolveByHand
  <2> HIDE DEF staged
  <2>4. TreeIs(a, tree[a].present, tree[a].head, tree[a].dirty, staged)
    <3> DEFINE t == [tree[a] EXCEPT !.replay = staged]
    <3>1. /\ t \in Trees /\ t.present = tree[a].present
          /\ t.head = tree[a].head
          /\ t.dirty = tree[a].dirty /\ t.replay = staged
      BY <2>1, <2>2 DEF Trees
    <3>2. SetTree(a, t)
      BY <2>3 DEF SetTree
    <3> HIDE DEF t
    <3>3. TreeIs(a, t.present, t.head, t.dirty, t.replay)
      BY <1>1, <3>1, <3>2, TreeWrite
    <3> QED BY <3>1, <3>3
  <2> QED BY <1>2, <2>1, <2>4
<1>5. MoveOf(a) /\ PreservedInTarget'
  BY <1>1, <1>2, <1>3, <1>4, QuietMove DEF OnlyOf, JobIs, RowIs, TreeIs
<1>6. WorldOK'
  BY <1>1, <1>2, <1>3, <1>4 DEF WorldOK
<1>7. CellsOf(a)'
  BY <1>1, <1>2, <1>3, <1>4 DEF CellsOf, JobIs, RowIs, TreeIs
<1>8. PartsOf(a)'
  <2>1. TreeOf(a)'
    BY <1>1, <1>2, <1>3, <1>4 DEF PartsOf, TreeOf, CellsOf, Jobs, Status, Paused,
         IsIdle, At, JobIs, RowIs, TreeIs
  <2>2. StageOf(a)'
    BY <1>1, <1>2, <1>3, <1>4 DEF PartsOf, StageOf, CellsOf, Jobs, At, Status, IsIdle,
         Beyond, Landed, JobIs, RowIs, TreeIs
  <2>3. RowOf(a)'
    BY <1>1, <1>2, <1>3, <1>4 DEF PartsOf, RowOf, CellsOf, At, Status,
         HasIntegrationProof, JobIs, RowIs, TreeIs
  <2>4. DebtOf(a)'
    BY <1>1, <1>2, <1>3, <1>4 DEF PartsOf, DebtOf, CellsOf, At, Status, OwesPush,
         JobIs, RowIs, TreeIs
  <2>5. LockOf(a)'
    BY <1>1, <1>2, <1>3, <1>4 DEF PartsOf, StageOf, LockOf, CellsOf, At, Status,
         HoldsLock, SameAsReviewed, Beyond, Landed, JobIs, RowIs, TreeIs
  <2>6. BaseOf(a)'
    BY <1>1, <1>2, <1>3, <1>4 DEF PartsOf, BaseOf, CellsOf, At, Status, JobIs, RowIs,
         TreeIs
  <2> QED BY <2>1, <2>2, <2>3, <2>4, <2>5, <2>6 DEF PartsOf
<1> QED BY <1>5, <1>6, <1>7, <1>8 DEF Keeps


LEMMA ResolveHunkKeeps ==
  ASSUME Sound, NEW a \in Assignments, NEW resolution, ResolveHunk(a, resolution)
  PROVE  Keeps(a)
<1>1. /\ row \in [Assignments -> Rows] /\ tree \in [Assignments -> Trees]
      /\ job \in [Assignments -> Jobs]
      /\ frozen \in [Assignments -> {None} \cup Commits]
      /\ candidate \in [Assignments -> {None} \cup Commits]
      /\ CellsOf(a) /\ PartsOf(a) /\ WorldOK /\ PreservedInTarget
  BY SoundFacts
<1>2. /\ IsIdle(a) /\ Status(a, "ready") /\ Paused(a) /\ tree[a].present /\ tree[a].head \in Commits
      /\ resolution \in Commits /\ Stopped(a) \in ReplayStates /\ Stopped(a).left # Root
      /\ UNCHANGED <<row, lock, preserved, frozen, recovery, target, remote,
                     primary, job, made, landing, crashes>>
  BY PausedFacts DEF ResolveHunk, database, shared
<1>3. waived' \subseteq Changes \X {"resolution", "restore"}
  BY WaiveIs DEF ResolveHunk
<1> DEFINE replay == Resolved(Stopped(a), resolution)
<1>4. replay \in ReplayStates
  BY <1>2, ResolvedFacts
<1>5. /\ SetTree(a, AfterReplay(a, replay))
      /\ IF Complete(replay) THEN SetCandidate(a, replay.done) ELSE UNCHANGED candidate
  BY DEF ResolveHunk
<1> HIDE DEF replay
<1>6. /\ candidate' = [candidate EXCEPT ![a] = candidate'[a]]
      /\ candidate'[a] \in {None} \cup Commits
  <2>1. replay.done \in Commits
    BY <1>4 DEF ReplayStates
  <2> QED BY <1>1, <1>5, <2>1 DEF SetCandidate, CellsOf
<1>7. \/ \E head \in Commits : TreeIs(a, tree[a].present, head, tree[a].dirty, None)
      \/ \E stopped \in Replays :
           /\ stopped.left # Root
           /\ TreeIs(a, tree[a].present, tree[a].head, tree[a].dirty, stopped)
  BY <1>2, <1>4, <1>5, AfterReplayIs
<1>8. MoveOf(a) /\ PreservedInTarget'
  BY <1>1, <1>2, <1>3, <1>6, <1>7, QuietMove DEF OnlyOf, JobIs, RowIs, TreeIs
<1>9. WorldOK'
  BY <1>1, <1>2, <1>3, <1>6, <1>7 DEF WorldOK
<1>10. CellsOf(a)'
  BY <1>1, <1>2, <1>3, <1>6, <1>7 DEF CellsOf, JobIs, RowIs, TreeIs
<1>11. PartsOf(a)'
  <2>1. TreeOf(a)'
    BY <1>1, <1>2, <1>3, <1>6, <1>7 DEF PartsOf, TreeOf, CellsOf, Jobs, Status, Paused,
         IsIdle, At, JobIs, RowIs, TreeIs
  <2>2. StageOf(a)'
    BY <1>1, <1>2, <1>3, <1>6, <1>7 DEF PartsOf, StageOf, CellsOf, Jobs, At, Status,
         IsIdle, Beyond, Landed, JobIs, RowIs, TreeIs
  <2>3. RowOf(a)'
    BY <1>1, <1>2, <1>3, <1>6, <1>7 DEF PartsOf, RowOf, CellsOf, At, Status,
         HasIntegrationProof, JobIs, RowIs, TreeIs
  <2>4. DebtOf(a)'
    BY <1>1, <1>2, <1>3, <1>6, <1>7 DEF PartsOf, DebtOf, CellsOf, At, Status, OwesPush,
         JobIs, RowIs, TreeIs
  <2>5. LockOf(a)'
    <3>1. job'[a].at = "idle"
      BY <1>2 DEF IsIdle, JobIs
    <3> QED BY <3>1 DEF LockOf, At, Beyond, Landed
  <2>6. BaseOf(a)'
    BY <1>1, <1>2, <1>3, <1>6, <1>7 DEF PartsOf, BaseOf, CellsOf, At, Status, JobIs,
         RowIs, TreeIs
  <2> QED BY <2>1, <2>2, <2>3, <2>4, <2>5, <2>6 DEF PartsOf
<1> QED BY <1>8, <1>9, <1>10, <1>11 DEF Keeps

LEMMA ContinueReplayKeeps ==
  ASSUME Sound, NEW a \in Assignments, ContinueReplay(a)
  PROVE  Keeps(a)
<1>1. /\ row \in [Assignments -> Rows] /\ tree \in [Assignments -> Trees]
      /\ job \in [Assignments -> Jobs]
      /\ frozen \in [Assignments -> {None} \cup Commits]
      /\ candidate \in [Assignments -> {None} \cup Commits]
      /\ CellsOf(a) /\ PartsOf(a) /\ WorldOK /\ PreservedInTarget
  BY SoundFacts
<1>2. /\ IsIdle(a) /\ Status(a, "ready") /\ Paused(a) /\ tree[a].present /\ tree[a].head \in Commits
      /\ tree[a].replay.staged \in Commits /\ Stopped(a) \in ReplayStates /\ Stopped(a).left # Root
      /\ target \in Commits
      /\ UNCHANGED <<row, lock, preserved, frozen, recovery, target, remote,
                     primary, made, waived, landing, crashes>>
  <2>1. Paused(a) /\ tree[a].replay.staged # None
    BY DEF ContinueReplay
  <2>2. tree[a].replay.staged \in Commits
    BY <2>1, PausedFacts DEF Replays
  <2> QED BY <1>1, <2>1, <2>2, PausedFacts DEF ContinueReplay, database, shared, history, WorldOK
<1> DEFINE replay == Resolved(Stopped(a), tree[a].replay.staged)
<1>3. replay \in ReplayStates
  BY <1>2, ResolvedFacts
<1>4. /\ SetTree(a, AfterReplay(a, replay))
      /\ \/ /\ Complete(replay) /\ SetCandidate(a, replay.done) /\ Attested(a, "reconcile")
         \/ UNCHANGED <<candidate, job>>
  BY DEF ContinueReplay
<1> HIDE DEF replay
<1>5. \/ /\ Complete(replay) /\ replay.done \in Commits
         /\ TreeIs(a, tree[a].present, replay.done, tree[a].dirty, None)
      \/ /\ ~Complete(replay)
         /\ \E stopped \in Replays :
              /\ stopped.left # Root
              /\ TreeIs(a, tree[a].present, tree[a].head, tree[a].dirty, stopped)
  BY <1>2, <1>3, <1>4, AfterReplayIs
<1>6. \/ /\ JobIs(a, "lock", "reconcile", target, TRUE)
         /\ candidate' = [candidate EXCEPT ![a] = candidate'[a]]
         /\ candidate'[a] = replay.done /\ replay.done \in Commits
         /\ TreeIs(a, tree[a].present, replay.done, tree[a].dirty, None)
      \/ /\ UNCHANGED <<candidate, job>>
         /\ \/ \E head \in Commits : TreeIs(a, tree[a].present, head, tree[a].dirty, None)
            \/ \E stopped \in Replays :
                 /\ stopped.left # Root
                 /\ TreeIs(a, tree[a].present, tree[a].head, tree[a].dirty, stopped)
  <2>1. "reconcile" \in AllOps
    BY DEF AllOps
  <2> QED BY <1>1, <1>4, <1>5, <2>1, AttestedIs DEF SetCandidate
<1>7. MoveOf(a) /\ PreservedInTarget'
  BY <1>1, <1>2, <1>6, QuietMove DEF OnlyOf, JobIs, RowIs, TreeIs
<1>8. WorldOK'
  BY <1>1, <1>2, <1>6 DEF WorldOK
<1>9. CellsOf(a)'
  BY <1>1, <1>2, <1>6 DEF CellsOf, JobIs, RowIs, TreeIs
<1>10. PartsOf(a)'
  <2>1. TreeOf(a)'
    BY <1>1, <1>2, <1>6 DEF PartsOf, TreeOf, CellsOf, Jobs, Status, Paused, IsIdle, At,
         JobIs, RowIs, TreeIs
  <2>2. StageOf(a)'
    BY <1>1, <1>2, <1>6 DEF PartsOf, StageOf, CellsOf, Jobs, At, Status, IsIdle,
         Beyond, Landed, JobIs, RowIs, TreeIs
  <2>3. RowOf(a)'
    BY <1>1, <1>2, <1>6 DEF PartsOf, RowOf, CellsOf, At, Status, HasIntegrationProof,
         JobIs, RowIs, TreeIs
  <2>4. DebtOf(a)'
    BY <1>1, <1>2, <1>6 DEF PartsOf, DebtOf, CellsOf, At, Status, OwesPush, JobIs,
         RowIs, TreeIs
  <2>5. LockOf(a)'
    <3>1. CASE job'[a].at = "idle"
      BY <3>1 DEF LockOf, At, Beyond, Landed
    <3>2. CASE /\ JobIs(a, "lock", "reconcile", target, TRUE)
               /\ candidate'[a] = replay.done /\ replay.done \in Commits
               /\ TreeIs(a, tree[a].present, replay.done, tree[a].dirty, None)
      BY <3>2 DEF LockOf, At, Beyond, Landed, JobIs, TreeIs
    <3> QED BY <1>2, <1>6, <3>1, <3>2 DEF IsIdle
  <2>6. BaseOf(a)'
    BY <1>1, <1>2, <1>6 DEF PartsOf, BaseOf, CellsOf, At, Status, JobIs, RowIs, TreeIs
  <2> QED BY <2>1, <2>2, <2>3, <2>4, <2>5, <2>6 DEF PartsOf
<1> QED BY <1>7, <1>8, <1>9, <1>10 DEF Keeps

LEMMA AbortReplayKeeps ==
  ASSUME Sound, NEW a \in Assignments, AbortReplay(a)
  PROVE  Keeps(a)
<1>1. /\ row \in [Assignments -> Rows] /\ tree \in [Assignments -> Trees]
      /\ job \in [Assignments -> Jobs]
      /\ frozen \in [Assignments -> {None} \cup Commits]
      /\ candidate \in [Assignments -> {None} \cup Commits]
      /\ CellsOf(a) /\ PartsOf(a) /\ WorldOK /\ PreservedInTarget
  BY SoundFacts
<1>2. /\ IsIdle(a) /\ Status(a, "ready") /\ Paused(a) /\ tree[a].present /\ tree[a].head \in Commits
      /\ UNCHANGED <<row, lock, preserved, frozen, candidate, recovery, target, remote,
                     primary, job, made, waived, landing, crashes>>
  BY PausedFacts DEF AbortReplay, database, refs, shared, history
<1>3. TreeIs(a, tree[a].present, tree[a].head, tree[a].dirty, None)
  <2> DEFINE t == [tree[a] EXCEPT !.replay = None]
  <2>1. /\ t \in Trees /\ t.present = tree[a].present
        /\ t.head = tree[a].head
        /\ t.dirty = tree[a].dirty /\ t.replay = None
    BY <1>1 DEF CellsOf, Trees
  <2>2. SetTree(a, t)
    BY DEF AbortReplay
  <2> HIDE DEF t
  <2>3. TreeIs(a, t.present, t.head, t.dirty, t.replay)
    BY <1>1, <2>1, <2>2, TreeWrite
  <2> QED BY <2>1, <2>3
<1>4. MoveOf(a) /\ PreservedInTarget'
  BY <1>1, <1>2, <1>3, QuietMove DEF OnlyOf, JobIs, RowIs, TreeIs
<1>5. WorldOK'
  BY <1>1, <1>2, <1>3 DEF WorldOK
<1>6. CellsOf(a)'
  BY <1>1, <1>2, <1>3 DEF CellsOf, JobIs, RowIs, TreeIs
<1>7. PartsOf(a)'
  <2>1. TreeOf(a)'
    BY <1>1, <1>2, <1>3 DEF PartsOf, TreeOf, CellsOf, Jobs, Status, Paused, IsIdle, At,
         JobIs, RowIs, TreeIs
  <2>2. StageOf(a)'
    BY <1>1, <1>2, <1>3 DEF PartsOf, StageOf, CellsOf, Jobs, At, Status, IsIdle,
         Beyond, Landed, JobIs, RowIs, TreeIs
  <2>3. RowOf(a)'
    BY <1>1, <1>2, <1>3 DEF PartsOf, RowOf, CellsOf, At, Status, HasIntegrationProof,
         JobIs, RowIs, TreeIs
  <2>4. DebtOf(a)'
    BY <1>1, <1>2, <1>3 DEF PartsOf, DebtOf, CellsOf, At, Status, OwesPush, JobIs,
         RowIs, TreeIs
  <2>5. LockOf(a)'
    BY <1>1, <1>2, <1>3 DEF PartsOf, StageOf, LockOf, CellsOf, At, Status, HoldsLock,
         SameAsReviewed, Beyond, Landed, JobIs, RowIs, TreeIs
  <2>6. BaseOf(a)'
    BY <1>1, <1>2, <1>3 DEF PartsOf, BaseOf, CellsOf, At, Status, JobIs, RowIs, TreeIs
  <2> QED BY <2>1, <2>2, <2>3, <2>4, <2>5, <2>6 DEF PartsOf
<1> QED BY <1>4, <1>5, <1>6, <1>7 DEF Keeps

LEMMA RerebaseKeeps ==
  ASSUME Sound, NEW a \in Assignments, Rerebase(a)
  PROVE  Keeps(a)
<1>1. /\ row \in [Assignments -> Rows] /\ tree \in [Assignments -> Trees]
      /\ job \in [Assignments -> Jobs]
      /\ frozen \in [Assignments -> {None} \cup Commits]
      /\ candidate \in [Assignments -> {None} \cup Commits]
      /\ CellsOf(a) /\ PartsOf(a) /\ WorldOK /\ PreservedInTarget
  BY SoundFacts
<1>2. /\ IsIdle(a) /\ Status(a, "ready") /\ ~Paused(a) /\ tree[a].present /\ tree[a].head \in Commits
      /\ target \in Commits /\ row[a].base \in Commits
      /\ UNCHANGED <<row, lock, preserved, frozen, candidate, recovery, target, remote,
                     primary, job, made, waived, landing, crashes>>
  BY <1>1, RowFields DEF Rerebase, AwaitsRecovery, Free, CellsOf, PartsOf, TreeOf, WorldOK,
                         database, refs, shared, history
<1> DEFINE replay == Replayed(ReplayPlan(target, row[a].base, tree[a].head))
<1>3. replay \in ReplayStates
  BY <1>2, ReplayPlanFacts, ReplayedFacts
<1>4. SetTree(a, AfterReplay(a, replay))
  BY DEF Rerebase
<1> HIDE DEF replay
<1>5. \/ \E head \in Commits : TreeIs(a, tree[a].present, head, tree[a].dirty, None)
      \/ \E stopped \in Replays :
           /\ stopped.left # Root
           /\ TreeIs(a, tree[a].present, tree[a].head, tree[a].dirty, stopped)
  BY <1>2, <1>3, <1>4, AfterReplayIs
<1>6. MoveOf(a) /\ PreservedInTarget'
  BY <1>1, <1>2, <1>5, QuietMove DEF OnlyOf, JobIs, RowIs, TreeIs
<1>7. WorldOK'
  BY <1>1, <1>2, <1>5 DEF WorldOK
<1>8. CellsOf(a)'
  BY <1>1, <1>2, <1>5 DEF CellsOf, JobIs, RowIs, TreeIs
<1>9. PartsOf(a)'
  <2>1. TreeOf(a)'
    BY <1>1, <1>2, <1>5 DEF PartsOf, TreeOf, CellsOf, Jobs, Status, Paused, IsIdle, At,
         JobIs, RowIs, TreeIs
  <2>2. StageOf(a)'
    BY <1>1, <1>2, <1>5 DEF PartsOf, StageOf, CellsOf, Jobs, At, Status, IsIdle,
         Beyond, Landed, JobIs, RowIs, TreeIs
  <2>3. RowOf(a)'
    BY <1>1, <1>2, <1>5 DEF PartsOf, RowOf, CellsOf, At, Status, HasIntegrationProof,
         JobIs, RowIs, TreeIs
  <2>4. DebtOf(a)'
    BY <1>1, <1>2, <1>5 DEF PartsOf, DebtOf, CellsOf, At, Status, OwesPush, JobIs,
         RowIs, TreeIs
  <2>5. LockOf(a)'
    <3>1. job'[a].at = "idle"
      BY <1>2 DEF IsIdle, JobIs
    <3> QED BY <3>1 DEF LockOf, At, Beyond, Landed
  <2>6. BaseOf(a)'
    BY <1>1, <1>2, <1>5 DEF PartsOf, BaseOf, CellsOf, At, Status, JobIs, RowIs, TreeIs
  <2> QED BY <2>1, <2>2, <2>3, <2>4, <2>5, <2>6 DEF PartsOf
<1> QED BY <1>6, <1>7, <1>8, <1>9 DEF Keeps

LEMMA RestoreFrozenKeeps ==
  ASSUME Sound, NEW a \in Assignments, RestoreFrozen(a)
  PROVE  Keeps(a)
<1>1. /\ row \in [Assignments -> Rows] /\ tree \in [Assignments -> Trees]
      /\ job \in [Assignments -> Jobs]
      /\ frozen \in [Assignments -> {None} \cup Commits]
      /\ candidate \in [Assignments -> {None} \cup Commits]
      /\ CellsOf(a) /\ PartsOf(a) /\ WorldOK /\ PreservedInTarget
  BY SoundFacts
<1>2. /\ IsIdle(a) /\ Status(a, "ready") /\ ~Paused(a) /\ tree[a].present /\ tree[a].head \in Commits
      /\ frozen[a] \in Commits
      /\ UNCHANGED <<row, lock, preserved, frozen, candidate, recovery, target, remote,
                     primary, job, made, landing, crashes>>
  BY <1>1 DEF RestoreFrozen, AwaitsRecovery, Free, PartsOf, TreeOf, RowOf, Status, database, refs,
              shared
<1>3. waived' \subseteq Changes \X {"resolution", "restore"}
  <2>1. ChangesOf(tree[a].head) \subseteq Changes
    BY <1>2, ChangesOfCommit
  <2> QED BY <1>1, <2>1 DEF RestoreFrozen, WorldOK
<1>4. TreeIs(a, tree[a].present, frozen[a], {}, tree[a].replay)
  <2> DEFINE t == ResetTo(a, frozen[a])
  <2>1. /\ t \in Trees /\ t.present = tree[a].present
        /\ t.head = frozen[a]
        /\ t.dirty = {} /\ t.replay = tree[a].replay
    BY <1>1, <1>2 DEF ResetTo, CellsOf, Trees
  <2>2. SetTree(a, t)
    BY DEF RestoreFrozen
  <2> HIDE DEF t
  <2>3. TreeIs(a, t.present, t.head, t.dirty, t.replay)
    BY <1>1, <2>1, <2>2, TreeWrite
  <2> QED BY <2>1, <2>3
<1>5. MoveOf(a) /\ PreservedInTarget'
  BY <1>1, <1>2, <1>3, <1>4, QuietMove DEF OnlyOf, JobIs, RowIs, TreeIs
<1>6. WorldOK'
  BY <1>1, <1>2, <1>3, <1>4 DEF WorldOK
<1>7. CellsOf(a)'
  BY <1>1, <1>2, <1>3, <1>4 DEF CellsOf, JobIs, RowIs, TreeIs
<1>8. PartsOf(a)'
  <2>1. TreeOf(a)'
    BY <1>1, <1>2, <1>3, <1>4, FS_EmptySet DEF PartsOf, TreeOf, CellsOf, Jobs, Status,
         Paused, IsIdle, At, JobIs, RowIs, TreeIs
  <2>2. StageOf(a)'
    BY <1>1, <1>2, <1>3, <1>4 DEF PartsOf, StageOf, CellsOf, Jobs, At, Status, IsIdle,
         Beyond, Landed, JobIs, RowIs, TreeIs
  <2>3. RowOf(a)'
    BY <1>1, <1>2, <1>3, <1>4 DEF PartsOf, RowOf, CellsOf, At, Status,
         HasIntegrationProof, JobIs, RowIs, TreeIs
  <2>4. DebtOf(a)'
    BY <1>1, <1>2, <1>3, <1>4 DEF PartsOf, DebtOf, CellsOf, At, Status, OwesPush,
         JobIs, RowIs, TreeIs
  <2>5. LockOf(a)'
    <3>1. job'[a].at = "idle"
      BY <1>2 DEF IsIdle, JobIs
    <3> QED BY <3>1 DEF LockOf, At, Beyond, Landed
  <2>6. BaseOf(a)'
    BY <1>1, <1>2, <1>3, <1>4 DEF PartsOf, BaseOf, CellsOf, At, Status, JobIs, RowIs,
         TreeIs
  <2> QED BY <2>1, <2>2, <2>3, <2>4, <2>5, <2>6 DEF PartsOf
<1> QED BY <1>5, <1>6, <1>7, <1>8 DEF Keeps

LEMMA ReopenKeeps ==
  ASSUME Sound, NEW a \in Assignments, Reopen(a)
  PROVE  Keeps(a)
<1>1. /\ row \in [Assignments -> Rows] /\ tree \in [Assignments -> Trees]
      /\ job \in [Assignments -> Jobs]
      /\ frozen \in [Assignments -> {None} \cup Commits]
      /\ candidate \in [Assignments -> {None} \cup Commits]
      /\ CellsOf(a) /\ PartsOf(a) /\ WorldOK /\ PreservedInTarget
  BY SoundFacts
<1>2. /\ IsIdle(a) /\ Status(a, "ready") /\ ~Paused(a) /\ tree[a].present /\ tree[a].head \in Commits
      /\ frozen[a] \in Commits
      /\ UNCHANGED <<lock, preserved, frozen, candidate, target, remote,
                     primary, made, waived, landing, crashes>>
  BY <1>1 DEF Reopen, AwaitsRecovery, Free, PartsOf, TreeOf, RowOf, Status, shared, history
<1>3. recovery' \subseteq Commits
  <2>1. recovery' = recovery \cup {tree[a].head} \/ recovery' = Snapshot(a)
    BY DEF Reopen
  <2> QED BY <1>1, <1>2, <2>1, SnapshotIs DEF WorldOK
<1>4. TreeIs(a, tree[a].present, frozen[a], {}, tree[a].replay)
  <2> DEFINE t == ResetTo(a, frozen[a])
  <2>1. /\ t \in Trees /\ t.present = tree[a].present
        /\ t.head = frozen[a]
        /\ t.dirty = {} /\ t.replay = tree[a].replay
    BY <1>1, <1>2 DEF ResetTo, CellsOf, Trees
  <2>2. SetTree(a, t)
    BY DEF Reopen
  <2> HIDE DEF t
  <2>3. TreeIs(a, t.present, t.head, t.dirty, t.replay)
    BY <1>1, <2>1, <2>2, TreeWrite
  <2> QED BY <2>1, <2>3
<1>5. RowIs(a, "active", row[a].base, row[a].integrated, row[a].record, None)
  <2> DEFINE r == [row[a] EXCEPT !.status = "active", !.debt = None]
  <2>1. /\ r \in Rows /\ r.status = "active" /\ r.base = row[a].base
        /\ r.integrated = row[a].integrated /\ r.record = row[a].record
        /\ r.debt = None
    BY <1>1 DEF CellsOf, Rows
  <2>2. SetRow(a, r)
    BY DEF Reopen
  <2> HIDE DEF r
  <2>3. RowIs(a, r.status, r.base, r.integrated, r.record, r.debt)
    BY <1>1, <2>1, <2>2, RowWrite
  <2> QED BY <2>1, <2>3
<1>6. JobIs(a, "clear", "none", None, FALSE)
  <2> DEFINE j == [Idle EXCEPT !.at = "clear"]
  <2>1. /\ j.at = "clear" /\ j.op = "none" /\ j.expected = None /\ j.attested = FALSE
        /\ j \in Jobs
    BY DEF Idle, Jobs, Places
  <2>2. job' = [job EXCEPT ![a] = j]
    BY DEF Reopen
  <2> HIDE DEF j, Jobs
  <2> QED BY <1>1, <2>1, <2>2 DEF JobIs
<1>7. MoveOf(a) /\ PreservedInTarget'
  BY <1>1, <1>2, <1>3, <1>4, <1>5, <1>6, QuietMove DEF OnlyOf, JobIs, RowIs, TreeIs
<1>8. WorldOK'
  BY <1>1, <1>2, <1>3, <1>4, <1>5, <1>6 DEF WorldOK
<1>9. CellsOf(a)'
  BY <1>1, <1>2, <1>3, <1>4, <1>5, <1>6 DEF CellsOf, JobIs, RowIs, TreeIs
<1>10. PartsOf(a)'
  <2>1. TreeOf(a)'
    BY <1>1, <1>2, <1>3, <1>4, <1>5, <1>6, FS_EmptySet DEF PartsOf, TreeOf, CellsOf,
         Jobs, Status, Paused, IsIdle, At, JobIs, RowIs, TreeIs
  <2>2. StageOf(a)'
    BY <1>1, <1>2, <1>3, <1>4, <1>5, <1>6 DEF PartsOf, StageOf, CellsOf, Jobs, At,
         Status, IsIdle, Beyond, Landed, JobIs, RowIs, TreeIs
  <2>3. RowOf(a)'
    BY <1>1, <1>2, <1>3, <1>4, <1>5, <1>6 DEF PartsOf, RowOf, CellsOf, At, Status,
         HasIntegrationProof, JobIs, RowIs, TreeIs
  <2>4. DebtOf(a)'
    BY <1>1, <1>2, <1>3, <1>4, <1>5, <1>6 DEF PartsOf, DebtOf, CellsOf, At, Status,
         OwesPush, JobIs, RowIs, TreeIs
  <2>5. LockOf(a)'
    BY <1>1, <1>2, <1>3, <1>4, <1>5, <1>6 DEF PartsOf, StageOf, LockOf, CellsOf, At,
         Status, HoldsLock, SameAsReviewed, Beyond, Landed, JobIs, RowIs, TreeIs
  <2>6. BaseOf(a)'
    BY <1>1, <1>2, <1>3, <1>4, <1>5, <1>6 DEF PartsOf, BaseOf, CellsOf, At, Status,
         JobIs, RowIs, TreeIs
  <2> QED BY <2>1, <2>2, <2>3, <2>4, <2>5, <2>6 DEF PartsOf
<1> QED BY <1>7, <1>8, <1>9, <1>10 DEF Keeps

LEMMA SyncKeeps ==
  ASSUME Sound, NEW a \in Assignments, Sync(a)
  PROVE  Keeps(a)
<1>1. /\ row \in [Assignments -> Rows] /\ tree \in [Assignments -> Trees]
      /\ job \in [Assignments -> Jobs]
      /\ frozen \in [Assignments -> {None} \cup Commits]
      /\ candidate \in [Assignments -> {None} \cup Commits]
      /\ CellsOf(a) /\ PartsOf(a) /\ WorldOK /\ PreservedInTarget
  BY SoundFacts
<1>2. /\ IsIdle(a) /\ Status(a, "active") /\ ~Paused(a) /\ tree[a].present /\ tree[a].head \in Commits
      /\ target \in Commits /\ IsAncestor(target, target)
      /\ UNCHANGED <<row, lock, preserved, frozen, candidate, recovery, target, remote,
                     primary, made, waived, landing, crashes>>
  BY <1>1, AncestorReflexive DEF Sync, Free, PartsOf, TreeOf, WorldOK, database, refs, shared,
                                 history
<1> DEFINE replay == Replayed(ReplayPlan(target, row[a].base, tree[a].head))
           synced == IF IsAncestor(tree[a].head, target) THEN target ELSE replay.done
<1>3. synced \in Commits
  BY <1>2, ReplayIsTyped
<1>4. SetTree(a, [tree[a] EXCEPT !.head = synced])
  BY DEF Sync
<1> HIDE DEF synced
<1>5. TreeIs(a, tree[a].present, synced, tree[a].dirty, tree[a].replay)
  <2> DEFINE t == [tree[a] EXCEPT !.head = synced]
  <2>1. /\ t \in Trees /\ t.present = tree[a].present
        /\ t.head = synced
        /\ t.dirty = tree[a].dirty /\ t.replay = tree[a].replay
    BY <1>1, <1>3 DEF CellsOf, Trees
  <2>2. SetTree(a, t)
    BY <1>4 DEF SetTree
  <2> HIDE DEF t
  <2>3. TreeIs(a, t.present, t.head, t.dirty, t.replay)
    BY <1>1, <2>1, <2>2, TreeWrite
  <2> QED BY <2>1, <2>3
<1>6. JobIs(a, "base", "none", target, FALSE)
  <2> DEFINE j == [Idle EXCEPT !.at = "base", !.expected = target]
  <2>1. /\ j.at = "base" /\ j.op = "none" /\ j.expected = target /\ j.attested = FALSE
        /\ j \in Jobs
    BY <1>2 DEF Idle, Jobs, Places
  <2>2. job' = [job EXCEPT ![a] = j]
    BY DEF Sync
  <2> HIDE DEF j, Jobs
  <2> QED BY <1>1, <2>1, <2>2 DEF JobIs
<1>7. MoveOf(a) /\ PreservedInTarget'
  BY <1>1, <1>2, <1>3, <1>5, <1>6, QuietMove DEF OnlyOf, JobIs, RowIs, TreeIs
<1>8. WorldOK'
  BY <1>1, <1>2, <1>3, <1>5, <1>6 DEF WorldOK
<1>9. CellsOf(a)'
  BY <1>1, <1>2, <1>3, <1>5, <1>6 DEF CellsOf, JobIs, RowIs, TreeIs
<1>10. PartsOf(a)'
  <2>1. TreeOf(a)'
    BY <1>1, <1>2, <1>3, <1>5, <1>6 DEF PartsOf, TreeOf, CellsOf, Jobs, Status, Paused,
         IsIdle, At, JobIs, RowIs, TreeIs
  <2>2. StageOf(a)'
    BY <1>1, <1>2, <1>3, <1>5, <1>6 DEF PartsOf, StageOf, CellsOf, Jobs, At, Status,
         IsIdle, Beyond, Landed, JobIs, RowIs, TreeIs
  <2>3. RowOf(a)'
    BY <1>1, <1>2, <1>3, <1>5, <1>6 DEF PartsOf, RowOf, CellsOf, At, Status,
         HasIntegrationProof, JobIs, RowIs, TreeIs
  <2>4. DebtOf(a)'
    BY <1>1, <1>2, <1>3, <1>5, <1>6 DEF PartsOf, DebtOf, CellsOf, At, Status, OwesPush,
         JobIs, RowIs, TreeIs
  <2>5. LockOf(a)'
    BY <1>1, <1>2, <1>3, <1>5, <1>6 DEF PartsOf, StageOf, LockOf, CellsOf, At, Status,
         HoldsLock, SameAsReviewed, Beyond, Landed, JobIs, RowIs, TreeIs
  <2>6. BaseOf(a)'
    BY <1>1, <1>2, <1>3, <1>5, <1>6 DEF PartsOf, BaseOf, CellsOf, At, Status, JobIs,
         RowIs, TreeIs
  <2> QED BY <2>1, <2>2, <2>3, <2>4, <2>5, <2>6 DEF PartsOf
<1> QED BY <1>7, <1>8, <1>9, <1>10 DEF Keeps

LEMMA CrashKeeps ==
  ASSUME Sound, NEW a \in Assignments, Crash(a)
  PROVE  Keeps(a)
<1>1. /\ row \in [Assignments -> Rows] /\ tree \in [Assignments -> Trees]
      /\ job \in [Assignments -> Jobs]
      /\ frozen \in [Assignments -> {None} \cup Commits]
      /\ candidate \in [Assignments -> {None} \cup Commits]
      /\ CellsOf(a) /\ PartsOf(a) /\ WorldOK /\ PreservedInTarget
  BY SoundFacts
<1>2. /\ ~IsIdle(a)
      /\ UNCHANGED <<row, lock, preserved, frozen, candidate, recovery, tree, target, remote,
                     primary, made, waived, landing>>
  BY DEF Crash, database, refs, shared
<1>3. JobIs(a, "idle", "none", None, FALSE)
  BY <1>1, FinishIs DEF Crash
<1>4. crashes' \in 0..MaxCrashes
  BY <1>1, FinalizationAssumption DEF Crash, WorldOK
<1>5. MoveOf(a) /\ PreservedInTarget'
  BY <1>1, <1>2, <1>3, <1>4, QuietMove DEF OnlyOf, JobIs, RowIs, TreeIs
<1>6. WorldOK'
  BY <1>1, <1>2, <1>3, <1>4 DEF WorldOK
<1>7. CellsOf(a)'
  BY <1>1, <1>2, <1>3, <1>4 DEF CellsOf, JobIs, RowIs, TreeIs
<1>8. PartsOf(a)'
  <2>1. TreeOf(a)'
    BY <1>1, <1>2, <1>3, <1>4 DEF PartsOf, TreeOf, CellsOf, Jobs, Status, Paused,
         IsIdle, At, JobIs, RowIs, TreeIs
  <2>2. StageOf(a)'
    BY <1>1, <1>2, <1>3, <1>4 DEF PartsOf, StageOf, CellsOf, Jobs, At, Status, IsIdle,
         Beyond, Landed, JobIs, RowIs, TreeIs
  <2>3. RowOf(a)'
    BY <1>1, <1>2, <1>3, <1>4 DEF PartsOf, RowOf, CellsOf, At, Status,
         HasIntegrationProof, JobIs, RowIs, TreeIs
  <2>4. DebtOf(a)'
    BY <1>1, <1>2, <1>3, <1>4 DEF PartsOf, DebtOf, CellsOf, At, Status, OwesPush,
         JobIs, RowIs, TreeIs
  <2>5. LockOf(a)'
    BY <1>1, <1>2, <1>3, <1>4 DEF PartsOf, StageOf, LockOf, CellsOf, At, Status,
         HoldsLock, SameAsReviewed, Beyond, Landed, JobIs, RowIs, TreeIs
  <2>6. BaseOf(a)'
    BY <1>1, <1>2, <1>3, <1>4 DEF PartsOf, BaseOf, CellsOf, At, Status, JobIs, RowIs,
         TreeIs
  <2> QED BY <2>1, <2>2, <2>3, <2>4, <2>5, <2>6 DEF PartsOf
<1> QED BY <1>5, <1>6, <1>7, <1>8 DEF Keeps

LEMMA CrashInReplayKeeps ==
  ASSUME Sound, NEW a \in Assignments, CrashInReplay(a)
  PROVE  Keeps(a)
<1>1. /\ row \in [Assignments -> Rows] /\ tree \in [Assignments -> Trees]
      /\ job \in [Assignments -> Jobs]
      /\ frozen \in [Assignments -> {None} \cup Commits]
      /\ candidate \in [Assignments -> {None} \cup Commits]
      /\ CellsOf(a) /\ PartsOf(a) /\ WorldOK /\ PreservedInTarget
  BY SoundFacts
<1>2. /\ At(a, "replay") /\ Status(a, "ready") /\ ~Paused(a) /\ tree[a].present
      /\ tree[a].head \in Commits /\ target \in Commits /\ row[a].base \in Commits
      /\ UNCHANGED <<row, lock, preserved, frozen, candidate, recovery, target, remote,
                     primary, made, waived, landing>>
  BY <1>1, RowFields DEF CrashInReplay, CellsOf, PartsOf, StageOf, TreeOf, At, Status, IsIdle,
                         Beyond, WorldOK, database, refs, shared
<1>3. JobIs(a, "idle", "none", None, FALSE)
  BY <1>1, FinishIs DEF CrashInReplay
<1>4. crashes' \in 0..MaxCrashes
  BY <1>1, FinalizationAssumption DEF CrashInReplay, WorldOK
<1> DEFINE plan == ReplayPlan(target, row[a].base, tree[a].head)
           StoppedAt(k) == [done   |-> plan.done \o SubSeq(plan.left, 1, k - 1),
                            left   |-> SubSeq(plan.left, k, Len(plan.left)),
                            staged |-> <<plan.left[k]>>]
<1>5. /\ plan \in ReplayStates /\ Replayed(plan) \in ReplayStates
      /\ plan.done \in Commits /\ plan.left \in Commits /\ Replayed(plan).left \in Commits
  BY <1>2, ReplayPlanFacts, ReplayedFacts DEF ReplayStates
<1>6. PICK k \in 1..(Len(plan.left) - Len(Replayed(plan).left)) :
        SetTree(a, [tree[a] EXCEPT !.replay = StoppedAt(k)])
  BY DEF CrashInReplay
<1> HIDE DEF plan
<1>7. k \in Nat \ {0} /\ k - 1 \in Nat /\ k - 1 <= Len(plan.left) /\ k \in 1..Len(plan.left)
  <2>1. Len(plan.left) \in Nat /\ Len(Replayed(plan).left) \in Nat
    BY <1>5, CommitFacts
  <2> DEFINE m == Len(plan.left)
             n == Len(Replayed(plan).left)
  <2>2. m \in Nat /\ n \in Nat /\ k \in 1..(m - n)
    BY <1>6, <2>1
  <2> HIDE DEF m, n
  <2>3. k \in Nat \ {0} /\ k - 1 \in Nat /\ k - 1 <= m /\ k \in 1..m
    BY <2>2
  <2> QED BY <2>3 DEF m
<1>8. /\ SubSeq(plan.left, 1, k - 1) \in Commits
      /\ SubSeq(plan.left, k, Len(plan.left)) \in Commits
      /\ Len(SubSeq(plan.left, k, Len(plan.left))) # 0
  <2>1. SubSeq(plan.left, 1, k - 1) \in Commits
    BY <1>5, <1>7, SubSeqFacts
  <2>2. SubSeq(plan.left, k, Len(plan.left)) \in Commits
    BY <1>5, <1>7, CommitFacts, SubSeqFacts
  <2>3. Len(SubSeq(plan.left, k, Len(plan.left))) = Len(plan.left) - k + 1
    BY <1>5, <1>7 DEF Commits
  <2> QED BY <1>5, <1>7, <2>1, <2>2, <2>3, CommitFacts
<1>9. /\ StoppedAt(k) \in Replays /\ StoppedAt(k).left # Root
  <2>1. plan.done \o SubSeq(plan.left, 1, k - 1) \in Commits
    BY <1>5, <1>8, ConcatFacts
  <2>2. plan.left[k] \in Patch
    BY <1>5, <1>7, CommitFacts
  <2>3. <<plan.left[k]>> \in Commits
    BY <2>2 DEF Commits
  <2>4. SubSeq(plan.left, k, Len(plan.left)) # Root
    BY <1>8, RootFacts
  <2> QED BY <1>8, <2>1, <2>3, <2>4 DEF Replays
<1> HIDE DEF StoppedAt
<1>10. TreeIs(a, tree[a].present, tree[a].head, tree[a].dirty, StoppedAt(k))
  <2> DEFINE t == [tree[a] EXCEPT !.replay = StoppedAt(k)]
  <2>1. /\ t \in Trees /\ t.present = tree[a].present
        /\ t.head = tree[a].head
        /\ t.dirty = tree[a].dirty /\ t.replay = StoppedAt(k)
    BY <1>1, <1>9 DEF CellsOf, Trees
  <2>2. SetTree(a, t)
    BY <1>6 DEF SetTree
  <2> HIDE DEF t
  <2>3. TreeIs(a, t.present, t.head, t.dirty, t.replay)
    BY <1>1, <2>1, <2>2, TreeWrite
  <2> QED BY <2>1, <2>3
<1>11. MoveOf(a) /\ PreservedInTarget'
  BY <1>1, <1>2, <1>3, <1>4, <1>9, <1>10, QuietMove DEF OnlyOf, JobIs, RowIs, TreeIs
<1>12. WorldOK'
  BY <1>1, <1>2, <1>3, <1>4, <1>9, <1>10 DEF WorldOK
<1>13. CellsOf(a)'
  BY <1>1, <1>2, <1>3, <1>4, <1>9, <1>10 DEF CellsOf, JobIs, RowIs, TreeIs
<1>14. PartsOf(a)'
  <2>1. TreeOf(a)'
    BY <1>1, <1>2, <1>3, <1>4, <1>9, <1>10 DEF PartsOf, TreeOf, CellsOf, Jobs, Status,
         Paused, IsIdle, At, JobIs, RowIs, TreeIs
  <2>2. StageOf(a)'
    BY <1>1, <1>2, <1>3, <1>4, <1>9, <1>10 DEF PartsOf, StageOf, CellsOf, Jobs, At,
         Status, IsIdle, Beyond, Landed, JobIs, RowIs, TreeIs
  <2>3. RowOf(a)'
    BY <1>1, <1>2, <1>3, <1>4, <1>9, <1>10 DEF PartsOf, RowOf, CellsOf, At, Status,
         HasIntegrationProof, JobIs, RowIs, TreeIs
  <2>4. DebtOf(a)'
    BY <1>1, <1>2, <1>3, <1>4, <1>9, <1>10 DEF PartsOf, DebtOf, CellsOf, At, Status,
         OwesPush, JobIs, RowIs, TreeIs
  <2>5. LockOf(a)'
    BY <1>1, <1>2, <1>3, <1>4, <1>9, <1>10 DEF PartsOf, StageOf, LockOf, CellsOf, At,
         Status, HoldsLock, SameAsReviewed, Beyond, Landed, JobIs, RowIs, TreeIs
  <2>6. BaseOf(a)'
    BY <1>1, <1>2, <1>3, <1>4, <1>9, <1>10 DEF PartsOf, BaseOf, CellsOf, At, Status,
         JobIs, RowIs, TreeIs
  <2> QED BY <2>1, <2>2, <2>3, <2>4, <2>5, <2>6 DEF PartsOf
<1> QED BY <1>11, <1>12, <1>13, <1>14 DEF Keeps


\* What the operator and the remote do to the assignments: at most end an
\* obligation that outlived its row, and let the target grow.
LEMMA EnvironmentKeeps ==
  ASSUME Sound, UNCHANGED <<lock, frozen, candidate, tree, job>>,
         row' \in [Assignments -> Rows],
         \A a \in Assignments :
           \/ row'[a] = row[a]
           \/ Status(a, "cleaned") /\ row'[a] = [row[a] EXCEPT !.debt = None],
         IsAncestor(target, target'), WorldOK', PreservedInTarget'
  PROVE  Sound'
<1>1. TypeOK'
  BY DEF Sound, TypeOK, WorldOK
<1>2. ASSUME NEW a \in Assignments
      PROVE  PartsOf(a)'
  <2>1. CellsOf(a) /\ PartsOf(a) /\ target \in Commits /\ target' \in Commits
    <3>1. CellsOf(a) /\ PartsOf(a) /\ WorldOK
      BY <1>2, SoundFacts
    <3> QED BY <3>1 DEF WorldOK
  <2>2. /\ row'[a].status = row[a].status /\ row'[a].base = row[a].base
        /\ row'[a].integrated = row[a].integrated /\ row'[a].record = row[a].record
        /\ row'[a].debt = row[a].debt \/ (Status(a, "cleaned") /\ row'[a].debt = None)
    BY <2>1 DEF CellsOf, Rows
  <2>3. ASSUME NEW c \in Commits, IsAncestor(c, target)
        PROVE  IsAncestor(c, target')
    BY <2>1, <2>3, AncestorTransitive
  <2>4. row[a].base \in Commits /\ (At(a, "base") => job[a].expected \in Commits)
    BY <2>1, RowFields DEF CellsOf, PartsOf, StageOf
  <2>5. TreeOf(a)' /\ StageOf(a)'
    BY <2>1, <2>2 DEF PartsOf, TreeOf, StageOf, Paused, IsIdle, At, Status
  <2>6. RowOf(a)'
    BY <2>1, <2>2, <2>3 DEF PartsOf, RowOf, HasIntegrationProof, Status
  <2>7. DebtOf(a)'
    BY <2>1, <2>2, <2>3 DEF PartsOf, DebtOf, StageOf, OwesPush, At, Status
  <2>8. LockOf(a)'
    BY <2>1, <2>2 DEF PartsOf, LockOf, HoldsLock, SameAsReviewed, At
  <2>9. BaseOf(a)'
    BY <2>1, <2>2, <2>3, <2>4 DEF PartsOf, BaseOf, At
  <2> QED BY <2>5, <2>6, <2>7, <2>8, <2>9 DEF PartsOf
<1> QED BY <1>1, <1>2 DEF Sound

LEMMA OperatorEditKeeps ==
  ASSUME Sound, NEW c \in OperatorWork, OperatorEdit(c)
  PROVE  Sound'
<1>1. /\ row \in [Assignments -> Rows] /\ target \in Commits /\ WorldOK /\ PreservedInTarget
      /\ c \in Changes
  BY FinalizationAssumption DEF Sound, TypeOK, WorldOK
<1>2. UNCHANGED <<row, lock, preserved, frozen, candidate, recovery, tree, target, remote, job,
                  waived, landing, crashes>>
  BY DEF OperatorEdit, database, refs
<1>3. WorldOK'
  BY <1>1, <1>2 DEF OperatorEdit, WorldOK
<1>4. IsAncestor(target, target') /\ PreservedInTarget'
  BY <1>1, <1>2, AncestorReflexive DEF PreservedInTarget
<1> QED BY <1>1, <1>2, <1>3, <1>4, EnvironmentKeeps

LEMMA OperatorCommitKeeps ==
  ASSUME Sound, NEW c \in OperatorWork, OperatorCommit(c)
  PROVE  Sound'
<1>1. /\ row \in [Assignments -> Rows] /\ target \in Commits /\ WorldOK /\ PreservedInTarget
      /\ c \in Changes
  BY FinalizationAssumption DEF Sound, TypeOK, WorldOK
<1>2. UNCHANGED <<row, lock, preserved, frozen, candidate, recovery, tree, remote, job,
                  made, waived, landing, crashes>>
  BY DEF OperatorCommit, database, refs, history
<1>3. target' \in Commits /\ IsAncestor(target, target')
  BY <1>1, WrittenFacts, AppendFacts DEF OperatorCommit
<1>4. WorldOK'
  BY <1>1, <1>2, <1>3 DEF OperatorCommit, WorldOK
<1>5. ASSUME NEW commit \in preserved
      PROVE  IsAncestor(commit, target')
  <2>1. commit \in Commits /\ IsAncestor(commit, target)
    BY <1>1, <1>5 DEF WorldOK, PreservedInTarget
  <2> QED BY <2>1, <1>1, <1>3, AncestorTransitive
<1>6. PreservedInTarget'
  BY <1>2, <1>5 DEF PreservedInTarget
<1> QED BY <1>1, <1>2, <1>3, <1>4, <1>6, EnvironmentKeeps

LEMMA OperatorSwitchKeeps ==
  ASSUME Sound, OperatorSwitch
  PROVE  Sound'
<1>1. /\ row \in [Assignments -> Rows] /\ target \in Commits /\ WorldOK /\ PreservedInTarget
  BY DEF Sound, TypeOK, WorldOK
<1>2. UNCHANGED <<row, lock, preserved, frozen, candidate, recovery, tree, target, remote, job,
                  made, waived, landing, crashes>>
  BY DEF OperatorSwitch, database, refs, history
<1>3. WorldOK'
  BY <1>1, <1>2 DEF OperatorSwitch, WorldOK
<1>4. IsAncestor(target, target') /\ PreservedInTarget'
  BY <1>1, <1>2, AncestorReflexive DEF PreservedInTarget
<1> QED BY <1>1, <1>2, <1>3, <1>4, EnvironmentKeeps

LEMMA OperatorPushKeeps ==
  ASSUME Sound, OperatorPush
  PROVE  Sound'
<1>1. /\ row \in [Assignments -> Rows] /\ target \in Commits /\ WorldOK /\ PreservedInTarget
  BY DEF Sound, TypeOK, WorldOK
<1>2. UNCHANGED <<lock, frozen, candidate, recovery, tree, target, primary, job,
                  made, waived, landing, crashes>>
  BY DEF OperatorPush, refs, history
<1>3. preserved' \subseteq preserved
  BY DEF OperatorPush, StillPreserved
<1>4. \A a \in Assignments :
        \/ row'[a] = row[a]
        \/ Status(a, "cleaned") /\ row'[a] = [row[a] EXCEPT !.debt = None]
  BY DEF OperatorPush, Drained
<1>5. row' \in [Assignments -> Rows]
  <2>1. ASSUME NEW a \in Assignments
        PROVE  row'[a] \in Rows
    <3>1. row[a] \in Rows
      BY <1>1
    <3>2. [row[a] EXCEPT !.debt = None] \in Rows
      BY <3>1 DEF Rows
    <3> QED BY <1>4, <3>1, <3>2
  <2>2. row' = [a \in Assignments |-> row'[a]]
    BY DEF OperatorPush
  <2> HIDE DEF Rows
  <2> QED BY <2>1, <2>2
<1>6. WorldOK'
  BY <1>1, <1>2, <1>3 DEF OperatorPush, WorldOK
<1>7. IsAncestor(target, target') /\ PreservedInTarget'
  BY <1>1, <1>2, <1>3, AncestorReflexive DEF PreservedInTarget
<1> QED BY <1>2, <1>4, <1>5, <1>6, <1>7, EnvironmentKeeps

LEMMA RemotePushKeeps ==
  ASSUME Sound, NEW c \in RemoteWork, RemotePush(c)
  PROVE  Sound'
<1>1. /\ row \in [Assignments -> Rows] /\ target \in Commits /\ WorldOK /\ PreservedInTarget
      /\ c \in Changes /\ remote \in Commits
  BY FinalizationAssumption DEF Sound, TypeOK, WorldOK
<1>2. UNCHANGED <<row, lock, preserved, frozen, candidate, recovery, tree, target, primary, job,
                  waived, landing, crashes>>
  BY DEF RemotePush, database, refs
<1>3. remote' \in Commits
  BY <1>1, WrittenFacts, AppendFacts DEF RemotePush
<1>4. WorldOK'
  BY <1>1, <1>2, <1>3 DEF RemotePush, WorldOK
<1>5. IsAncestor(target, target') /\ PreservedInTarget'
  BY <1>1, <1>2, AncestorReflexive DEF PreservedInTarget
<1> QED BY <1>1, <1>2, <1>4, <1>5, EnvironmentKeeps

LEMMA InitSound ==
  ASSUME Init
  PROVE  Sound
<1>1. /\ Root \in Commits /\ IsAncestor(Root, Root)
  BY RootFacts
<1>2. TypeOK
  <2>1. Idle \in Jobs
    BY DEF Idle, Jobs, Places
  <2>2. [status |-> "active", base |-> Root, integrated |-> None, record |-> None, debt |-> None]
          \in Rows
    BY <1>1 DEF Rows
  <2>3. [present |-> TRUE, head |-> Root, dirty |-> {}, replay |-> None] \in Trees
    BY <1>1 DEF Trees
  <2>4. row \in [Assignments -> Rows] /\ tree \in [Assignments -> Trees] /\ job \in [Assignments -> Jobs]
    <3> HIDE DEF Rows, Trees, Jobs
    <3> QED BY <2>1, <2>2, <2>3 DEF Init
  <2>5. primary \in [onRef : BOOLEAN, shows : {None} \cup Commits, dirty : SUBSET Changes]
    BY <1>1 DEF Init
  <2>6. crashes \in 0..MaxCrashes
    BY FinalizationAssumption DEF Init
  <2> QED BY <1>1, <2>4, <2>5, <2>6 DEF Init, TypeOK
<1>3. ASSUME NEW a \in Assignments
      PROVE  PartsOf(a)
  <2>1. /\ row[a].status = "active" /\ row[a].base = Root /\ row[a].record = None
        /\ row[a].debt = None /\ tree[a].present = TRUE /\ tree[a].head = Root
        /\ tree[a].dirty = {} /\ tree[a].replay = None /\ job[a].at = "idle" /\ target = Root
    BY <1>3 DEF Init, Idle
  <2> QED BY <2>1, <1>1, FS_EmptySet DEF PartsOf, TreeOf, StageOf, RowOf, DebtOf, LockOf, BaseOf,
             Paused, IsIdle, At, Status, OwesPush, Beyond, Landed
<1>4. PreservedInTarget
  BY DEF Init, PreservedInTarget
<1> QED BY <1>2, <1>3, <1>4 DEF Sound

-----------------------------------------------------------------------------
(* Every step.                                                              *)

LEMMA KeepsSound ==
  ASSUME Sound, NEW a \in Assignments, Keeps(a)
  PROVE  Sound'
BY MoveKeepsOthers DEF Keeps

LEMMA BeginKeeps ==
  ASSUME Sound, NEW a \in Assignments, Begin(a)
  PROVE  Keeps(a)
<1>1. CASE \E c \in Work[a] :
             \/ Edit(a, c) \/ CommitAndStay(a, c) \/ BeginPush(a, c)
             \/ \E op \in AllOps : BeginCommander(a, c, op) \/ BeginRepair(a, c, op)
  BY <1>1, EditKeeps, CommitAndStayKeeps, BeginPushKeeps, BeginCommanderKeeps, BeginRepairKeeps
<1>2. CASE BeginReconcile(a) \/ BeginCloseOut(a) \/ BeginReconcileReady(a) \/ BeginConfirm(a)
  BY <1>2, BeginReconcileKeeps, BeginCloseOutKeeps, BeginReconcileReadyKeeps, BeginConfirmKeeps
<1> QED BY <1>1, <1>2 DEF Begin

LEMMA StepKeeps ==
  ASSUME Sound, NEW a \in Assignments, Step(a)
  PROVE  Keeps(a)
BY FreezeKeeps, AcquireLockKeeps, ReplayKeeps, ProveKeeps, AdvanceKeeps, CarryKeeps,
   RecordKeeps, UnlockKeeps, PushCandidateKeeps, ReadbackKeeps, SettleKeeps, RecycleKeeps,
   ForgetKeeps, ReleaseKeeps, CloseKeeps, RetireKeeps, ClearKeeps, SyncBaseKeeps DEF Step

LEMMA RecoverKeeps ==
  ASSUME Sound, NEW a \in Assignments, Recover(a)
  PROVE  Keeps(a)
<1>1. CASE \E resolution \in Resolutions(a) :
             ResolveByHand(a, resolution) \/ ResolveHunk(a, resolution)
  BY <1>1, ResolveByHandKeeps, ResolveHunkKeeps
<1>2. CASE \/ ReconcileLanded(a) \/ ReconcileFrozen(a) \/ ReconcileIntegrated(a)
           \/ ContinueReplay(a) \/ AbortReplay(a) \/ Rerebase(a) \/ RestoreFrozen(a)
           \/ Reopen(a) \/ Sync(a) \/ CompleteTeardown(a)
  BY <1>2, ReconcileLandedKeeps, ReconcileFrozenKeeps, ReconcileIntegratedKeeps,
     ContinueReplayKeeps, AbortReplayKeeps, RerebaseKeeps, RestoreFrozenKeeps, ReopenKeeps,
     SyncKeeps, CompleteTeardownKeeps
<1> QED BY <1>1, <1>2 DEF Recover

LEMMA NextSound ==
  ASSUME Sound, [Next]_vars
  PROVE  Sound'
<1>1. CASE \E a \in Assignments : Begin(a) \/ Step(a) \/ Recover(a)
  BY <1>1, BeginKeeps, StepKeeps, RecoverKeeps, KeepsSound
<1>2. CASE \E a \in Assignments : Crash(a) \/ CrashInReplay(a)
  BY <1>2, CrashKeeps, CrashInReplayKeeps, KeepsSound
<1>3. CASE \/ \E c \in OperatorWork : OperatorEdit(c) \/ OperatorCommit(c)
           \/ OperatorSwitch \/ OperatorPush
           \/ \E c \in RemoteWork : RemotePush(c)
  BY <1>3, OperatorEditKeeps, OperatorCommitKeeps, OperatorSwitchKeeps, OperatorPushKeeps,
     RemotePushKeeps
<1>4. CASE UNCHANGED vars
  BY <1>4 DEF vars, database, refs, shared, history, Sound, TypeOK, PreservedInTarget, PartsOf,
              TreeOf, StageOf, RowOf, DebtOf, LockOf, BaseOf, Paused, IsIdle, At, Status,
              HasIntegrationProof, OwesPush, HoldsLock, SameAsReviewed
<1> QED BY <1>1, <1>2, <1>3, <1>4 DEF Next, Environment

-----------------------------------------------------------------------------
(* An advance that is not recorded.                                         *)

\* Where a handler of a row that landed may be.
Afterwards == {"idle", "lock"} \cup Landed

LandOf(a) ==
  a \in landing =>
    /\ Status(a, "ready") /\ ~Paused(a)
    /\ OwnsLock(a)
    /\ candidate[a] \in Commits /\ tree[a].head = candidate[a]
    /\ IsAncestor(lock.expected, candidate[a]) /\ IsAncestor(candidate[a], target)
    /\ job[a].at \in Afterwards

CarryOf(a) == job[a].at \in Landed => a \in landing

\* The checkout of the operator is at the target, or at the commit from which
\* the target was advanced and not yet carried forward.
CheckoutOK ==
  /\ primary.onRef => primary.shows \in Commits
  /\ primary.onRef /\ primary.shows # target =>
       /\ lock # None /\ lock.owner \in landing
       /\ primary.shows = lock.expected
       /\ target = candidate[lock.owner]

Lands == CheckoutOK /\ \A a \in Assignments : LandOf(a) /\ CarryOf(a)

\* A step of a row that did not land, or that leaves a landed row landed.
ApartFrom(a) ==
  /\ a \notin landing /\ UNCHANGED <<landing, target, primary>>
  /\ job'[a].at \notin Landed

AroundLanded(a) ==
  /\ a \in landing /\ UNCHANGED <<landing, target, primary, lock>>
  /\ candidate'[a] = candidate[a] /\ tree'[a].head = tree[a].head
  /\ tree'[a].replay = tree[a].replay /\ row'[a].status = row[a].status
  /\ job'[a].at \in Afterwards

\* What others know of their advances stays.
LEMMA OthersLanded ==
  ASSUME Sound, Lands, NEW a \in Assignments, MoveOf(a), target' \in Commits,
         NEW b \in Assignments, b # a
  PROVE  LandOf(b)' /\ CarryOf(b)'
<1>1. /\ row'[b] = row[b] /\ tree'[b] = tree[b] /\ job'[b] = job[b]
      /\ candidate'[b] = candidate[b] /\ (b \in landing' <=> b \in landing)
      /\ IsAncestor(target, target') /\ target \in Commits
  <2>1. /\ row \in [Assignments -> Rows] /\ tree \in [Assignments -> Trees]
        /\ job \in [Assignments -> Jobs] /\ WorldOK
        /\ candidate \in [Assignments -> {None} \cup Commits]
    BY SoundFacts
  <2> QED BY <2>1 DEF MoveOf, OnlyOf, WorldOK
<1>2. LandOf(b) /\ CarryOf(b)
  BY DEF Lands
<1>3. CarryOf(b)'
  BY <1>1, <1>2 DEF CarryOf
<1>4. ASSUME b \in landing'
      PROVE  lock' = lock /\ IsAncestor(candidate[b], target')
  <2>1. b \in landing
    BY <1>1, <1>4
  <2>2. lock # None /\ lock.owner = b /\ candidate[b] \in Commits /\ IsAncestor(candidate[b], target)
    BY <1>2, <2>1 DEF LandOf, OwnsLock
  <2>3. lock' = lock
    BY <2>2 DEF MoveOf
  <2> QED BY <1>1, <2>2, <2>3, AncestorTransitive
<1>5. LandOf(b)'
  BY <1>1, <1>2, <1>4 DEF LandOf, OwnsLock, Status, Paused
<1> QED BY <1>3, <1>5

LEMMA ApartKeepsLands ==
  ASSUME Sound, Lands, NEW a \in Assignments, Keeps(a), ApartFrom(a)
  PROVE  Lands'
<1>1. /\ MoveOf(a) /\ target' \in Commits /\ CheckoutOK
      /\ a \notin landing /\ landing' = landing /\ target' = target /\ primary' = primary
      /\ job'[a].at \notin Landed
  BY DEF Keeps, WorldOK, ApartFrom, Lands
<1>2. LandOf(a)' /\ CarryOf(a)'
  BY <1>1 DEF LandOf, CarryOf
<1>3. \A b \in Assignments : LandOf(b)' /\ CarryOf(b)'
  BY <1>1, <1>2, OthersLanded
<1>4. CheckoutOK'
  <2>1. ASSUME primary.onRef, primary.shows # target
        PROVE  lock' = lock /\ candidate'[lock.owner] = candidate[lock.owner]
    <3>1. lock # None /\ lock.owner \in landing /\ lock.owner # a
      BY <1>1, <2>1 DEF CheckoutOK
    <3>2. lock.owner \in Assignments /\ candidate \in [Assignments -> {None} \cup Commits]
      BY <3>1 DEF Sound, TypeOK
    <3> QED BY <1>1, <3>1, <3>2 DEF MoveOf, OnlyOf
  <2> QED BY <1>1, <2>1 DEF CheckoutOK
<1> QED BY <1>3, <1>4 DEF Lands

LEMMA AroundKeepsLands ==
  ASSUME Sound, Lands, NEW a \in Assignments, Keeps(a), AroundLanded(a)
  PROVE  Lands'
<1>1. /\ MoveOf(a) /\ target' \in Commits /\ CheckoutOK /\ LandOf(a) /\ CarryOf(a)
      /\ a \in landing /\ landing' = landing /\ target' = target /\ primary' = primary
      /\ lock' = lock /\ candidate'[a] = candidate[a]
  BY DEF Keeps, WorldOK, AroundLanded, Lands
<1>2. LandOf(a)' /\ CarryOf(a)'
  BY <1>1 DEF LandOf, CarryOf, AroundLanded, OwnsLock, Status, Paused
<1>3. \A b \in Assignments : LandOf(b)' /\ CarryOf(b)'
  BY <1>1, <1>2, OthersLanded
<1>4. CheckoutOK'
  <2>1. lock.owner = a
    BY <1>1 DEF LandOf, OwnsLock
  <2> QED BY <1>1, <2>1 DEF CheckoutOK
<1> QED BY <1>3, <1>4 DEF Lands

\* The steps of rows that cannot have landed.
LEMMA NotReadyApart ==
  ASSUME Sound, Lands, NEW a \in Assignments, ~Status(a, "ready")
  PROVE  a \notin landing
BY DEF Lands, LandOf

LEMMA PausedApart ==
  ASSUME Sound, Lands, NEW a \in Assignments, Paused(a)
  PROVE  a \notin landing
BY DEF Lands, LandOf

LEMMA BusyApart ==
  ASSUME Sound, Lands, NEW a \in Assignments, job[a].at \notin Afterwards
  PROVE  a \notin landing
BY DEF Lands, LandOf


LEMMA PlacesReached ==
  ASSUME Sound, NEW a \in Assignments
  PROVE  /\ \A p \in Places : Goto(a, p) => job'[a].at = p
         /\ Finish(a) => job'[a].at = "idle"
         /\ \A op \in AllOps : Attested(a, op) => job'[a].at = "lock"
<1>1. job \in [Assignments -> Jobs]
  BY SoundFacts
<1> QED BY <1>1, GotoIs, FinishIs, AttestedIs DEF JobIs

LEMMA BeginApart ==
  ASSUME Sound, Lands, "repair-landed" \notin Slips, NEW a \in Assignments, Begin(a)
  PROVE  ApartFrom(a) \/ AroundLanded(a)
<1>1. /\ row \in [Assignments -> Rows] /\ job \in [Assignments -> Jobs]
      /\ tree \in [Assignments -> Trees] /\ LandOf(a) /\ CarryOf(a)
      /\ candidate \in [Assignments -> {None} \cup Commits]
  BY SoundFacts DEF Lands
<1>2. "idle" \notin Landed /\ "lock" \notin Landed /\ "freeze" \notin Landed /\ "close" \notin Landed
      /\ "idle" \in Afterwards /\ "lock" \in Afterwards
  BY DEF Landed, Afterwards
<1>3. ASSUME NEW c \in Work[a], Edit(a, c)
      PROVE  ApartFrom(a) \/ AroundLanded(a)
  <2>1. /\ UNCHANGED <<landing, target, primary, lock, row, job, candidate>>
        /\ tree'[a].head = tree[a].head /\ tree'[a].replay = tree[a].replay
    BY <1>1, <1>3 DEF Edit, SetTree, database, refs, shared, Trees
  <2> QED BY <1>1, <2>1 DEF ApartFrom, AroundLanded, LandOf, CarryOf
<1>4. ASSUME NEW c \in Work[a],
             \/ CommitAndStay(a, c) \/ BeginPush(a, c)
             \/ \E op \in AllOps : BeginCommander(a, c, op)
      PROVE  ApartFrom(a)
  <2>1. a \notin landing
    BY <1>4, NotReadyApart DEF CommitAndStay, BeginPush, BeginCommander, Status
  <2>2. UNCHANGED <<landing, target, primary>>
    BY <1>4 DEF CommitAndStay, BeginPush, BeginCommander, shared, history
  <2>3. job'[a].at \in {"idle", "freeze"}
    BY <1>1, <1>4 DEF CommitAndStay, BeginPush, BeginCommander, Free, IsIdle, Idle
  <2> QED BY <1>2, <2>1, <2>2, <2>3 DEF ApartFrom
<1>5. ASSUME NEW c \in Work[a], NEW op \in AllOps, BeginRepair(a, c, op)
      PROVE  ApartFrom(a)
  <2>1. a \notin landing
    BY <1>5 DEF BeginRepair, MayMoveHead
  <2>2. UNCHANGED <<landing, target, primary>> /\ job'[a].at = "lock"
    BY <1>5, PlacesReached DEF BeginRepair, shared, history
  <2> QED BY <1>2, <2>1, <2>2 DEF ApartFrom
<1>6. ASSUME BeginReconcile(a)
      PROVE  ApartFrom(a)
  <2>1. a \notin landing
    BY <1>6, NotReadyApart DEF BeginReconcile, Status
  <2>2. UNCHANGED <<landing, target, primary>> /\ job'[a].at = "freeze"
    BY <1>1, <1>6 DEF BeginReconcile, Idle, shared, history
  <2> QED BY <1>2, <2>1, <2>2 DEF ApartFrom
<1>7. ASSUME BeginReconcileReady(a) \/ BeginConfirm(a)
      PROVE  ApartFrom(a) \/ AroundLanded(a)
  <2>1. /\ UNCHANGED <<landing, target, primary, lock, row, tree>>
        /\ candidate'[a] = tree[a].head
    BY <1>1, <1>7 DEF BeginReconcileReady, BeginConfirm, SetCandidate, database, refs, shared, history
  <2>2. job'[a].at = "lock"
    BY <1>7, PlacesReached DEF BeginReconcileReady, BeginConfirm, AllOps
  <2> QED BY <1>1, <1>2, <2>1, <2>2 DEF ApartFrom, AroundLanded, LandOf
<1>8. ASSUME BeginCloseOut(a)
      PROVE  ApartFrom(a) \/ AroundLanded(a)
  <2>1. /\ UNCHANGED <<landing, target, primary, lock, row>> /\ job[a].at = "idle"
        /\ tree'[a].head = tree[a].head /\ tree'[a].replay = tree[a].replay
    BY <1>1, <1>8 DEF BeginCloseOut, SetTree, Free, IsIdle, database, shared, history, Trees
  <2>2. CASE Status(a, "ready")
    <3>1. job'[a].at \in {"idle", "lock"}
      BY <1>1, <1>8, <2>1, <2>2 DEF BeginCloseOut, Idle, Status
    <3>2. candidate'[a] \in {candidate[a], tree[a].head}
      BY <1>1, <1>8, <2>2 DEF BeginCloseOut, Status, SetCandidate
    <3> QED BY <1>1, <1>2, <2>1, <3>1, <3>2 DEF ApartFrom, AroundLanded, LandOf
  <2>3. CASE ~Status(a, "ready")
    <3>1. job'[a].at \in {"freeze", "close"}
      BY <1>1, <1>8, <2>3 DEF BeginCloseOut, Idle
    <3> QED BY <1>2, <2>1, <2>3, <3>1, NotReadyApart DEF ApartFrom
  <2> QED BY <2>2, <2>3
<1> QED BY <1>3, <1>4, <1>5, <1>6, <1>7, <1>8 DEF Begin

\* The steps of a handler that neither advance nor acknowledge.
Quietly(a) ==
  \/ Freeze(a) \/ AcquireLock(a) \/ Replay(a) \/ Prove(a) \/ Unlock(a)
  \/ PushCandidate(a) \/ Readback(a) \/ Settle(a) \/ Recycle(a) \/ Forget(a)
  \/ Release(a) \/ Close(a) \/ Retire(a) \/ Clear(a) \/ SyncBase(a)

LEMMA StepApart ==
  ASSUME Sound, Lands, NEW a \in Assignments, Quietly(a), Keeps(a)
  PROVE  ApartFrom(a) \/ AroundLanded(a)
<1>1. /\ row \in [Assignments -> Rows] /\ job \in [Assignments -> Jobs]
      /\ tree \in [Assignments -> Trees] /\ LandOf(a) /\ CarryOf(a)
      /\ candidate \in [Assignments -> {None} \cup Commits]
  BY SoundFacts DEF Lands
<1>2. UNCHANGED <<landing, target, primary>>
  BY DEF Quietly, Freeze, AcquireLock, Replay, Prove, Unlock, PushCandidate, Readback, Settle,
         Recycle, Forget, Release, Close, Retire, Clear, SyncBase, shared, history
<1>3. CASE AcquireLock(a)
  <2>1. UNCHANGED <<row, tree, candidate>>
    BY <1>3 DEF AcquireLock, refs
  <2>2. a \in landing => lock' = lock /\ job'[a].at = "idle"
    BY <1>1, <1>3, PlacesReached DEF AcquireLock, LandOf, OwnsLock
  <2>3. job'[a].at \in {"idle", "advance", "replay"}
    <3>1. "advance" \in Places /\ "replay" \in Places
      BY DEF Places
    <3> QED BY <1>3, <3>1, PlacesReached DEF AcquireLock
  <2> QED BY <1>2, <2>1, <2>2, <2>3 DEF ApartFrom, AroundLanded, Landed, Afterwards
<1>4. CASE ~AcquireLock(a)
  <2>1. job[a].at \notin Afterwards
    BY <1>4 DEF Quietly, Freeze, Replay, Prove, Unlock, PushCandidate, Readback, Settle,
         Recycle, Forget, Release, Close, Retire, Clear, SyncBase, At, Afterwards, Landed
  <2>2. a \notin landing
    BY <2>1, BusyApart
  <2>3. job'[a].at \notin Landed
    <3>1. CASE Freeze(a)
      <4>1. job' = [job EXCEPT ![a].at = "lock", ![a].expected = target] => job'[a].at = "lock"
        BY <1>1 DEF Jobs
      <4> QED BY <3>1, <4>1, PlacesReached DEF Freeze, Landed
    <3>2. CASE Replay(a) \/ Prove(a)
      <4>1. \/ Goto(a, "prove") \/ Goto(a, "advance") \/ Finish(a)
        BY <3>2 DEF Replay, Prove, BackToFrozen
      <4>2. "prove" \in Places /\ "advance" \in Places
        BY DEF Places
      <4> QED BY <4>1, <4>2, PlacesReached DEF Landed
    <3>3. CASE ~(Freeze(a) \/ Replay(a) \/ Prove(a))
      <4>1. ~Status(a, "ready") /\ StageOf(a)'
        BY <1>4, <3>3, SoundFacts DEF Quietly, Unlock, PushCandidate, Readback, Settle, Recycle,
          Forget, Release, Close, Retire, Clear, SyncBase, At, PartsOf, StageOf, Status, Keeps
      <4>2. row'[a].status \in {row[a].status, "active", "cleaned"}
        <5>1. row[a] \in Rows
          BY <1>1
        <5>2. \/ row' = row
              \/ \E debt : SetRow(a, [row[a] EXCEPT !.debt = debt])
              \/ SetRow(a, [row[a] EXCEPT !.debt.phase = "push-succeeded"])
              \/ SetRow(a, Recycled(a))
              \/ SetRow(a, [row[a] EXCEPT !.status = "cleaned"])
              \/ SetRow(a, [row[a] EXCEPT !.base = job[a].expected])
          BY <1>4, <3>3 DEF Quietly, Unlock, PushCandidate, Readback, Settle, Recycle,
             Forget, Release, Close, Retire, Retired, Clear, SyncBase, database
        <5> QED BY <1>1, <5>1, <5>2 DEF SetRow, Recycled, Rows
      <4> QED BY <4>1, <4>2 DEF StageOf, Status
    <3> QED BY <3>1, <3>2, <3>3
  <2> QED BY <1>2, <2>2, <2>3 DEF ApartFrom
<1> QED BY <1>3, <1>4

LEMMA RecoverApart ==
  ASSUME Sound, Lands, "repair-landed" \notin Slips, NEW a \in Assignments,
         Recover(a), ~ReconcileLanded(a)
  PROVE  ApartFrom(a)
<1>1. /\ row \in [Assignments -> Rows] /\ job \in [Assignments -> Jobs]
      /\ LandOf(a) /\ CarryOf(a)
  BY SoundFacts DEF Lands
<1>2. CASE ReconcileFrozen(a)
  <2>1. a \notin landing
    BY <1>1, <1>2, NoneAssumption DEF ReconcileFrozen, LandOf
  <2>2. UNCHANGED <<landing, target, primary>> /\ job'[a].at = "lock"
    BY <1>1, <1>2 DEF ReconcileFrozen, Idle, shared, history
  <2> QED BY <2>1, <2>2 DEF ApartFrom, Landed
<1>3. CASE ReconcileIntegrated(a)
  <2>1. a \notin landing
    BY <1>3, NotReadyApart DEF ReconcileIntegrated, Status
  <2>2. UNCHANGED <<landing, target, primary>> /\ job'[a].at \in {"idle", "recycle"}
    BY <1>1, <1>3 DEF ReconcileIntegrated, Free, IsIdle, Idle, shared, history
  <2> QED BY <2>1, <2>2 DEF ApartFrom, Landed
<1>4. CASE \E resolution \in Resolutions(a) :
             ResolveByHand(a, resolution) \/ ResolveHunk(a, resolution)
  <2>1. a \notin landing
    BY <1>4, PausedApart DEF ResolveByHand, ResolveHunk
  <2>2. UNCHANGED <<landing, target, primary, job>> /\ job[a].at = "idle"
    BY <1>4 DEF ResolveByHand, ResolveHunk, IsIdle, shared
  <2> QED BY <2>1, <2>2 DEF ApartFrom, Landed
<1>5. CASE ContinueReplay(a)
  <2>1. a \notin landing
    BY <1>5, PausedApart DEF ContinueReplay
  <2>2. UNCHANGED <<landing, target, primary>>
    BY <1>5 DEF ContinueReplay, shared, history
  <2>3. job'[a].at \in {"idle", "lock"}
    BY <1>5, PlacesReached DEF ContinueReplay, IsIdle, AllOps
  <2> QED BY <2>1, <2>2, <2>3 DEF ApartFrom, Landed
<1>6. CASE AbortReplay(a)
  <2>1. a \notin landing
    BY <1>6, PausedApart DEF AbortReplay
  <2>2. UNCHANGED <<landing, target, primary, job>> /\ job[a].at = "idle"
    BY <1>6 DEF AbortReplay, IsIdle, shared, history
  <2> QED BY <2>1, <2>2 DEF ApartFrom, Landed
<1>7. CASE Rerebase(a) \/ RestoreFrozen(a)
  <2>1. a \notin landing
    BY <1>7 DEF Rerebase, RestoreFrozen, MayMoveHead
  <2>2. UNCHANGED <<landing, target, primary, job>> /\ job[a].at = "idle"
    BY <1>7 DEF Rerebase, RestoreFrozen, AwaitsRecovery, Free, IsIdle, shared, history
  <2> QED BY <2>1, <2>2 DEF ApartFrom, Landed
<1>8. CASE Reopen(a)
  <2>1. a \notin landing
    BY <1>1, <1>8, NoneAssumption DEF Reopen, LandedUnderLock, LandOf
  <2>2. UNCHANGED <<landing, target, primary>> /\ job'[a].at = "clear"
    BY <1>1, <1>8 DEF Reopen, Idle, shared, history
  <2> QED BY <2>1, <2>2 DEF ApartFrom, Landed
<1>9. CASE Sync(a)
  <2>1. a \notin landing
    BY <1>9, NotReadyApart DEF Sync, Status
  <2>2. UNCHANGED <<landing, target, primary>> /\ job'[a].at = "base"
    BY <1>1, <1>9 DEF Sync, Idle, shared, history
  <2> QED BY <2>1, <2>2 DEF ApartFrom, Landed
<1>10. CASE CompleteTeardown(a)
  <2>1. a \notin landing
    BY <1>10, NotReadyApart DEF CompleteTeardown, Status
  <2>2. UNCHANGED <<landing, target, primary, job>> /\ job[a].at = "idle"
    BY <1>10 DEF CompleteTeardown, IsIdle, shared, history
  <2> QED BY <2>1, <2>2 DEF ApartFrom, Landed
<1> QED BY <1>2, <1>3, <1>4, <1>5, <1>6, <1>7, <1>8, <1>9, <1>10 DEF Recover

\* While its row is at the lock's far side and has not landed, the checkout
\* shows the target.
LEMMA AdvanceKeepsLands ==
  ASSUME Sound, Lands, NEW a \in Assignments, Keeps(a), Advance(a)
  PROVE  Lands'
<1>1. /\ MoveOf(a) /\ target \in Commits /\ target' \in Commits /\ CheckoutOK
      /\ job \in [Assignments -> Jobs] /\ PartsOf(a) /\ WorldOK
      /\ tree \in [Assignments -> Trees]
  BY SoundFacts DEF Keeps, WorldOK, Lands
<1>2. At(a, "advance") /\ HoldsLock(a, job[a].expected) /\ lock # None /\ lock.owner = a
  <2>1. HoldsLock(a, job[a].expected) /\ job[a].expected \in Commits
    BY <1>1 DEF Advance, At, PartsOf, StageOf, LockOf, Beyond
  <2>2. lock \in Locks
    BY <2>1 DEF HoldsLock, Locks
  <2> QED BY <2>1, <2>2, NoneAssumption DEF HoldsLock, Advance
<1>3. a \notin landing
  BY <1>2, BusyApart DEF At, Afterwards, Landed
<1>4. CASE ~MayAdvance(a)
  <2>1. job'[a].at = "idle" /\ UNCHANGED <<landing, target, primary>>
    BY <1>4, PlacesReached DEF Advance, BackToFrozen
  <2> QED BY <1>3, <2>1, ApartKeepsLands DEF ApartFrom, Landed
<1>5. CASE MayAdvance(a)
  <2>1. /\ target = job[a].expected /\ target' = candidate[a] /\ landing' = landing \cup {a}
        /\ UNCHANGED <<lock, candidate, tree, row, primary>> /\ job'[a].at = "carry"
    BY <1>5, PlacesReached DEF Advance, MayAdvance, Places
  <2>2. /\ Status(a, "ready") /\ ~Paused(a) /\ candidate[a] \in Commits
        /\ tree[a].head = candidate[a] /\ IsAncestor(target, candidate[a])
    BY <1>1, <1>2, <1>5, <2>1 DEF At, PartsOf, StageOf, TreeOf, LockOf, IsIdle, Beyond,
                            MayAdvance, SameAsReviewed
  <2>3. IsAncestor(candidate[a], candidate[a])
    BY <2>2, AncestorReflexive
  <2>4. lock.expected = target
    BY <1>2, <2>1 DEF HoldsLock
  <2>5. LandOf(a)' /\ CarryOf(a)'
    BY <1>2, <2>1, <2>2, <2>3, <2>4 DEF LandOf, CarryOf, OwnsLock, Status, Paused, Afterwards,
                                        Landed
  <2>6. \A b \in Assignments : LandOf(b)' /\ CarryOf(b)'
    BY <1>1, <2>5, OthersLanded
  <2>7. CheckoutOK'
    <3>1. primary.onRef => primary.shows = target
      BY <1>1, <1>2, <1>3 DEF CheckoutOK
    <3> QED BY <1>1, <1>2, <2>1, <2>4, <3>1 DEF CheckoutOK
  <2> QED BY <2>6, <2>7 DEF Lands
<1> QED BY <1>4, <1>5

LEMMA CarryKeepsLands ==
  ASSUME Sound, Lands, NEW a \in Assignments, Keeps(a), Carry(a)
  PROVE  Lands'
<1>1. /\ MoveOf(a) /\ target' \in Commits /\ CheckoutOK /\ LandOf(a) /\ CarryOf(a)
      /\ UNCHANGED <<row, lock, tree, candidate, target, landing>> /\ At(a, "carry")
  BY DEF Keeps, WorldOK, Lands, Carry, database, refs, history
<1>2. a \in landing /\ job'[a].at \in {"idle", "record"}
  BY <1>1, PlacesReached DEF Carry, CarryOf, At, Landed, Places
<1>3. LandOf(a)' /\ CarryOf(a)'
  BY <1>1, <1>2 DEF LandOf, CarryOf, OwnsLock, Status, Paused, Afterwards, Landed
<1>4. \A b \in Assignments : LandOf(b)' /\ CarryOf(b)'
  BY <1>1, <1>3, OthersLanded
<1>5. CheckoutOK'
  <2>1. CASE primary' = primary
    BY <1>1, <2>1 DEF CheckoutOK
  <2>2. CASE /\ target = candidate[a]
             /\ primary' = [primary EXCEPT !.shows = IF @ = None THEN None ELSE candidate[a]]
    <3>1. primary \in [onRef : BOOLEAN, shows : {None} \cup Commits, dirty : SUBSET Changes]
      BY DEF Sound, TypeOK
    <3>2. primary.onRef => primary.shows # None
      BY <1>1, NoneAssumption DEF CheckoutOK
    <3>3. primary'.onRef => primary'.shows = target'
      BY <1>1, <2>2, <3>1, <3>2
    <3> QED BY <1>1, <3>3 DEF CheckoutOK
  <2> QED BY <2>1, <2>2 DEF Carry
<1> QED BY <1>4, <1>5 DEF Lands

\* An advance that is acknowledged: the checkout is at the target.
LEMMA AcknowledgeKeepsLands ==
  ASSUME Sound, Lands, NEW a \in Assignments, Keeps(a),
         landing' = landing \ {a}, target' = target, job'[a].at \notin Landed,
         primary'.onRef => primary'.shows = target
  PROVE  Lands'
<1>1. MoveOf(a) /\ target \in Commits /\ target' \in Commits
  BY DEF Keeps, WorldOK, Sound, TypeOK
<1>2. LandOf(a)' /\ CarryOf(a)'
  BY DEF LandOf, CarryOf
<1>3. \A b \in Assignments : LandOf(b)' /\ CarryOf(b)'
  BY <1>1, <1>2, OthersLanded
<1>4. CheckoutOK'
  BY <1>1 DEF CheckoutOK
<1> QED BY <1>3, <1>4 DEF Lands

LEMMA RecordKeepsLands ==
  ASSUME Sound, Lands, NEW a \in Assignments, Keeps(a), Record(a)
  PROVE  Lands'
<1>1. /\ CheckoutOK /\ LandOf(a) /\ CarryOf(a) /\ At(a, "record")
      /\ UNCHANGED <<lock, tree, candidate, target, primary>>
  BY DEF Lands, Record, refs, shared
<1>2. a \in landing
  BY <1>1 DEF CarryOf, At, Landed
<1>3. CASE /\ CheckoutAt(candidate[a]) /\ landing' = landing \ {a} /\ Goto(a, "unlock")
  <2>1. job'[a].at = "unlock" /\ (primary'.onRef => primary'.shows = target)
    BY <1>1, <1>3, PlacesReached DEF CheckoutAt, Places
  <2> QED BY <1>1, <1>3, <2>1, AcknowledgeKeepsLands DEF Landed
<1>4. CASE Finish(a) /\ UNCHANGED <<row, landing>>
  <2>1. job'[a].at = "idle"
    BY <1>4, PlacesReached
  <2> QED BY <1>1, <1>2, <1>4, <2>1, AroundKeepsLands DEF AroundLanded, Afterwards
<1> QED BY <1>3, <1>4 DEF Record

LEMMA ReconcileLandedKeepsLands ==
  ASSUME Sound, Lands, NEW a \in Assignments, Keeps(a), ReconcileLanded(a)
  PROVE  Lands'
<1>1. /\ CheckoutOK /\ LandOf(a) /\ CarryOf(a) /\ job[a].at = "idle" /\ OwnsLock(a)
      /\ UNCHANGED <<lock, tree, candidate, target>> /\ Status(a, "ready")
      /\ primary \in [onRef : BOOLEAN, shows : {None} \cup Commits, dirty : SUBSET Changes]
      /\ MoveOf(a) /\ target \in Commits /\ target' \in Commits /\ candidate[a] \in Commits
  <2>1. candidate[a] \in {None} \cup Commits
    BY DEF Sound, TypeOK
  <2> QED BY <2>1 DEF Lands, Keeps, WorldOK, ReconcileLanded, AwaitsRecovery, Free, IsIdle, Sound,
                    TypeOK, refs
<1>2. primary'.onRef => primary'.shows = target
  <2>1. CASE CheckoutAt(candidate[a])
    BY <2>1 DEF ReconcileLanded, RepairCheckout, CheckoutAt
  <2>2. CASE target # candidate[a]
    <3>1. primary' = primary
      BY <2>2 DEF ReconcileLanded, RepairCheckout
    <3>2. lock.owner = a
      BY <1>1 DEF OwnsLock
    <3> QED BY <1>1, <2>2, <3>1, <3>2 DEF CheckoutOK
  <2>3. CASE ~CheckoutAt(candidate[a]) /\ target = candidate[a]
    BY <1>1, <2>3 DEF ReconcileLanded, RepairCheckout
  <2> QED BY <2>1, <2>2, <2>3
<1>3. CASE landing' = landing \ {a} /\ job'[a].at \in {"recycle", "unlock"}
  BY <1>1, <1>2, <1>3, AcknowledgeKeepsLands DEF Landed
<1>4. CASE UNCHANGED <<row, landing, job>>
  <2>1. LandOf(a)' /\ CarryOf(a)'
    BY <1>1, <1>4 DEF LandOf, CarryOf, OwnsLock, Status, Paused
  <2>2. \A b \in Assignments : LandOf(b)' /\ CarryOf(b)'
    BY <1>1, <2>1, OthersLanded
  <2>3. CheckoutOK'
    BY <1>1, <1>2 DEF CheckoutOK
  <2> QED BY <2>2, <2>3 DEF Lands
<1> QED
  <2>1. job \in [Assignments -> Jobs]
    BY SoundFacts
  <2>2. ~UNCHANGED <<row, landing, job>> => job'[a].at \in {"recycle", "unlock"}
    BY <2>1 DEF ReconcileLanded, Idle
  <2> QED BY <1>3, <1>4, <2>2 DEF ReconcileLanded

LEMMA CrashKeepsLands ==
  ASSUME Sound, Lands, NEW a \in Assignments, Keeps(a), Crash(a) \/ CrashInReplay(a)
  PROVE  Lands'
<1>1. job'[a].at = "idle" /\ UNCHANGED <<landing, target, primary, lock, row, candidate>>
  BY PlacesReached DEF Crash, CrashInReplay, database, refs, shared
<1>2. CASE a \in landing
  <2>1. ~CrashInReplay(a)
    BY <1>2, BusyApart DEF CrashInReplay, At, Afterwards, Landed
  <2>2. tree' = tree
    BY <2>1 DEF Crash
  <2> QED BY <1>1, <1>2, <2>2, AroundKeepsLands DEF AroundLanded, Afterwards
<1>3. CASE a \notin landing
  BY <1>1, <1>3, ApartKeepsLands DEF ApartFrom, Landed
<1> QED BY <1>2, <1>3

LEMMA EnvironmentKeepsLands ==
  ASSUME Sound, Sound', Lands,
         \/ \E c \in OperatorWork : OperatorEdit(c) \/ OperatorCommit(c)
         \/ OperatorSwitch \/ OperatorPush
         \/ \E c \in RemoteWork : RemotePush(c)
  PROVE  Lands'
<1>1. /\ UNCHANGED <<lock, candidate, tree, job, landing>>
      /\ \A a \in Assignments : row'[a].status = row[a].status
      /\ target \in Commits /\ target' \in Commits /\ CheckoutOK
  <2>1. row \in [Assignments -> Rows]
    BY DEF Sound, TypeOK
  <2>2. CASE OperatorPush
    <3>1. \A a \in Assignments : row'[a] = row[a] \/ row'[a] = [row[a] EXCEPT !.debt = None]
      BY <2>2 DEF OperatorPush
    <3>2. \A a \in Assignments : row'[a].status = row[a].status
      BY <2>1, <3>1 DEF Rows
    <3> QED BY <2>2, <3>2 DEF OperatorPush, Lands, Sound, TypeOK, refs, history
  <2>3. CASE ~OperatorPush
    BY <2>3 DEF OperatorEdit, OperatorCommit, OperatorSwitch, RemotePush, Lands, Sound, TypeOK,
                database, refs, history
  <2> QED BY <2>2, <2>3
<1>2. IsAncestor(target, target')
  <2>1. CASE target' = target
    BY <1>1, <2>1, AncestorReflexive
  <2>2. CASE target' # target
    <3>1. PICK c \in OperatorWork : OperatorCommit(c)
      BY <2>2 DEF OperatorEdit, OperatorSwitch, OperatorPush, RemotePush
    <3> QED BY <1>1, <3>1, FinalizationAssumption, WrittenFacts, AppendFacts DEF OperatorCommit
  <2> QED BY <2>1, <2>2
<1>3. ASSUME NEW a \in Assignments
      PROVE  LandOf(a)' /\ CarryOf(a)'
  <2>1. LandOf(a) /\ CarryOf(a)
    BY <1>3 DEF Lands
  <2>2. candidate[a] \in Commits /\ IsAncestor(candidate[a], target) => IsAncestor(candidate[a], target')
    BY <1>1, <1>2, AncestorTransitive
  <2> QED BY <1>1, <1>3, <2>1, <2>2 DEF LandOf, CarryOf, OwnsLock, Status, Paused
<1>4. CheckoutOK'
  <2>1. primary \in [onRef : BOOLEAN, shows : {None} \cup Commits, dirty : SUBSET Changes]
    BY DEF Sound, TypeOK
  <2>2. \/ primary'.onRef = primary.onRef /\ primary'.shows = primary.shows /\ target' = target
        \/ primary'.onRef => primary'.shows = target'
    <3>1. CASE \E c \in OperatorWork : OperatorEdit(c)
      BY <2>1, <3>1 DEF OperatorEdit
    <3>2. CASE \E c \in OperatorWork : OperatorCommit(c)
      BY <2>1, <3>2 DEF OperatorCommit
    <3>3. CASE OperatorSwitch
      BY <2>1, <3>3 DEF OperatorSwitch
    <3>4. CASE OperatorPush \/ \E c \in RemoteWork : RemotePush(c)
      BY <3>4 DEF OperatorPush, RemotePush
    <3> QED BY <3>1, <3>2, <3>3, <3>4
  <2> QED BY <1>1, <2>2 DEF CheckoutOK
<1> QED BY <1>3, <1>4 DEF Lands

LEMMA NextLands ==
  ASSUME Sound, Lands, "repair-landed" \notin Slips, [Next]_vars
  PROVE  Lands'
<1>1. ASSUME NEW a \in Assignments, Begin(a)
      PROVE  Lands'
  BY <1>1, BeginKeeps, BeginApart, ApartKeepsLands, AroundKeepsLands
<1>2. ASSUME NEW a \in Assignments, Step(a)
      PROVE  Lands'
  <2>1. Keeps(a)
    BY <1>2, StepKeeps
  <2>2. CASE Quietly(a)
    BY <2>1, <2>2, StepApart, ApartKeepsLands, AroundKeepsLands
  <2>3. CASE Advance(a) \/ Carry(a) \/ Record(a)
    BY <2>1, <2>3, AdvanceKeepsLands, CarryKeepsLands, RecordKeepsLands
  <2> QED BY <1>2, <2>2, <2>3 DEF Step, Quietly
<1>3. ASSUME NEW a \in Assignments, Recover(a)
      PROVE  Lands'
  BY <1>3, RecoverKeeps, RecoverApart, ApartKeepsLands, ReconcileLandedKeepsLands
<1>4. ASSUME NEW a \in Assignments, Crash(a) \/ CrashInReplay(a)
      PROVE  Lands'
  BY <1>4, CrashKeeps, CrashInReplayKeeps, CrashKeepsLands
<1>5. CASE \/ \E c \in OperatorWork : OperatorEdit(c) \/ OperatorCommit(c)
           \/ OperatorSwitch \/ OperatorPush
           \/ \E c \in RemoteWork : RemotePush(c)
  BY <1>5, NextSound, EnvironmentKeepsLands
<1>6. CASE UNCHANGED vars
  BY <1>6 DEF vars, database, refs, shared, history, Lands, CheckoutOK, LandOf, CarryOf, OwnsLock,
              Status, Paused
<1> QED BY <1>1, <1>2, <1>3, <1>4, <1>5, <1>6 DEF Next, Environment

-----------------------------------------------------------------------------
(* What can move the target, and what can begin or end an advance.          *)

LEMMA TargetMoves ==
  ASSUME [Next]_vars
  PROVE  \/ UNCHANGED <<target, landing>>
         \/ \E a \in Assignments : Advance(a) /\ MayAdvance(a)
         \/ \E a \in Assignments : Record(a) /\ landing' = landing \ {a}
         \/ \E a \in Assignments : ReconcileLanded(a) /\ landing' = landing \ {a}
         \/ \E c \in OperatorWork : OperatorCommit(c)
<1>1. ASSUME NEW a \in Assignments, Begin(a)
      PROVE  UNCHANGED <<target, landing>>
  BY <1>1 DEF Begin, Edit, CommitAndStay, BeginPush, BeginCommander, BeginRepair, BeginReconcile,
              BeginCloseOut, BeginReconcileReady, BeginConfirm, shared, history
<1>2. ASSUME NEW a \in Assignments, Step(a)
      PROVE  \/ UNCHANGED <<target, landing>>
             \/ Advance(a) /\ MayAdvance(a)
             \/ Record(a) /\ landing' = landing \ {a}
  <2>1. CASE Advance(a)
    BY <2>1 DEF Advance
  <2>2. CASE Record(a)
    BY <2>2 DEF Record, shared
  <2> QED BY <1>2, <2>1, <2>2 DEF Step, Freeze, AcquireLock, Replay, Prove, Carry, Unlock,
         PushCandidate, Readback, Settle, Recycle, Forget, Release, Close, Retire, Clear, SyncBase,
         shared, history
<1>3. ASSUME NEW a \in Assignments, Recover(a)
      PROVE  \/ UNCHANGED <<target, landing>>
             \/ ReconcileLanded(a) /\ landing' = landing \ {a}
  BY <1>3 DEF Recover, ReconcileLanded, ReconcileFrozen, ReconcileIntegrated, ResolveByHand,
              ResolveHunk, ContinueReplay, AbortReplay, Rerebase, RestoreFrozen, Reopen, Sync,
              CompleteTeardown, shared, history
<1>4. CASE Environment
  BY <1>4 DEF Environment, Crash, CrashInReplay, OperatorEdit, OperatorSwitch, OperatorPush,
              RemotePush, OperatorCommit, shared, history
<1>5. CASE UNCHANGED vars
  BY <1>5 DEF vars, shared, history
<1> QED BY <1>1, <1>2, <1>3, <1>4, <1>5 DEF Next

\* A row that has the lock is the only one that may have landed.
LEMMA OwnerLanded ==
  ASSUME Lands, NEW a \in Assignments, OwnsLock(a), landing \subseteq Assignments
  PROVE  landing \subseteq {a}
BY DEF Lands, LandOf, OwnsLock

LEMMA HolderOwns ==
  ASSUME Sound, NEW a \in Assignments, At(a, "advance")
  PROVE  OwnsLock(a) /\ HoldsLock(a, job[a].expected) /\ job[a].expected \in Commits
<1>1. PartsOf(a)
  BY SoundFacts
<1>2. HoldsLock(a, job[a].expected) /\ job[a].expected \in Commits
  BY <1>1 DEF At, PartsOf, StageOf, LockOf, Beyond
<1>3. lock \in Locks
  BY <1>2 DEF HoldsLock, Locks
<1>4. lock # None
  BY <1>3, NoneAssumption
<1> QED BY <1>2, <1>4 DEF HoldsLock, OwnsLock

LEMMA InitLands ==
  ASSUME Init
  PROVE  Lands
<1>1. Root \in Commits
  BY RootFacts
<1> QED BY <1>1 DEF Init, Idle, Lands, CheckoutOK, LandOf, CarryOf, Landed

\* What a row advances the target by.
LEMMA AdvanceIsReviewed ==
  ASSUME Sound, NEW a \in Assignments, Advance(a), MayAdvance(a)
  PROVE  /\ HoldsLock(a, target) /\ landing' = landing \cup {a}
         /\ IsAncestor(target, target')
         /\ \/ job[a].attested /\ job[a].op # "close-out"
            \/ Effect(target, target') = Effect(row[a].base, frozen[a])
<1>1. At(a, "advance") /\ PartsOf(a) /\ target = job[a].expected
  BY SoundFacts DEF Advance, MayAdvance
<1>2. target' = candidate[a] /\ landing' = landing \cup {a}
  BY DEF Advance
<1>3. ~job[a].attested \/ job[a].op = "close-out" =>
        SameAsReviewed(a, job[a].expected, candidate[a])
  BY <1>1 DEF PartsOf, LockOf, At
<1>4. IsAncestor(target, target')
  BY <1>1, <1>2, <1>3 DEF MayAdvance, SameAsReviewed
<1>5. HoldsLock(a, target)
  BY <1>1 DEF MayAdvance
<1> QED BY <1>1, <1>2, <1>3, <1>4, <1>5 DEF SameAsReviewed

-----------------------------------------------------------------------------
(* The theorems on what lands.                                              *)

LEMMA SoundAlways == Spec => []Sound
<1>1. Sound /\ [Next]_vars => Sound'
  BY NextSound
<1> QED BY InitSound, <1>1, PTL DEF Spec

\* Whatever handlers, crashes, people and remotes do, the tables, the refs,
\* the worktrees and the handlers hold what integration.ts can put there.
THEOREM TypeCorrect == Spec => []TypeOK
<1>1. Sound => TypeOK
  BY DEF Sound
<1> QED BY SoundAlways, <1>1, PTL

\* An integrated row has its candidate ref and its record, both in the
\* target, and no record outlives the life of the row it was written for.
THEOREM ProofsKept == Spec => []IntegratedIsProven
<1>1. Sound => IntegratedIsProven
  BY DEF Sound, PartsOf, RowOf, IntegratedIsProven
<1> QED BY SoundAlways, <1>1, PTL

\* What is still to be pushed, by a row or by preserved_work, is in the
\* local target.
THEOREM DebtsReachable == Spec => []DebtIsInTarget
<1>1. Sound => DebtIsInTarget
  BY DEF Sound, PartsOf, DebtOf, PreservedInTarget, DebtIsInTarget
<1> QED BY SoundAlways, <1>1, PTL

\* A handler advances the target only under its own lock, from the commit
\* that lock names, by the reviewed effect or by what a human attested.
THEOREM ReviewedLands == Spec => OnlyReviewedLands
<1> DEFINE P == \A a \in landing' \ landing :
       /\ HoldsLock(a, target)
       /\ \/ job[a].attested /\ job[a].op # "close-out"
          \/ Effect(target, target') = Effect(row[a].base, frozen[a])
<1>1. Sound /\ [Next]_vars => [P]_vars
  <2> SUFFICES ASSUME Sound, [Next]_vars, NEW a \in landing' \ landing
               PROVE  /\ HoldsLock(a, target)
                      /\ \/ job[a].attested /\ job[a].op # "close-out"
                         \/ Effect(target, target') = Effect(row[a].base, frozen[a])
    OBVIOUS
  <2>1. CASE \E b \in Assignments : Advance(b) /\ MayAdvance(b)
    <3>1. PICK b \in Assignments : Advance(b) /\ MayAdvance(b)
      BY <2>1
    <3>2. a = b
      BY <3>1, AdvanceIsReviewed
    <3> QED BY <3>1, <3>2, AdvanceIsReviewed
  <2>2. CASE ~ \E b \in Assignments : Advance(b) /\ MayAdvance(b)
    <3>1. landing' \subseteq landing
      BY <2>2, TargetMoves DEF OperatorCommit, history
    <3> QED BY <3>1
  <2> QED BY <2>1, <2>2
<1> QED BY SoundAlways, <1>1, PTL DEF Spec, OnlyReviewedLands

LEMMA LandsAlways ==
  ASSUME "repair-landed" \notin Slips
  PROVE  Spec => [](Sound /\ Lands)
<1>1. Sound /\ Lands /\ [Next]_vars => Sound' /\ Lands'
  BY NextSound, NextLands
<1> QED BY InitSound, InitLands, <1>1, PTL DEF Spec

\* Where a row that landed unrecorded is reconciled before anyone gives it
\* another HEAD, its advance can always be proved: the row is ready, its lock
\* names the commit advanced from, and candidate, HEAD and target agree.
THEOREM LandingsProvable ==
  ASSUME "repair-landed" \notin Slips
  PROVE  Spec => []LandedIsProvable
<1>1. Sound /\ Lands => LandedIsProvable
  <2> SUFFICES ASSUME Sound, Lands, NEW a \in landing
               PROVE  /\ Status(a, "ready") /\ ~Paused(a) /\ OwnsLock(a)
                      /\ candidate[a] # None /\ tree[a].head = candidate[a]
                      /\ IsAncestor(lock.expected, candidate[a])
                      /\ IsAncestor(candidate[a], target)
    BY DEF LandedIsProvable
  <2>1. a \in Assignments
    BY DEF Sound, TypeOK
  <2> QED BY <2>1, NoneAssumption DEF Lands, LandOf
<1> QED BY LandsAlways, <1>1, PTL

\* Under the same condition the operator's checkout shows the target, or the
\* commit from which an advance not yet recorded took it.
THEOREM CheckoutKept ==
  ASSUME "repair-landed" \notin Slips
  PROVE  Spec => []CheckoutFollows
<1>1. Sound /\ Lands => CheckoutFollows
  BY DEF Lands, CheckoutOK, CheckoutFollows
<1> QED BY LandsAlways, <1>1, PTL

\* Under the same condition the target is advanced by one unacknowledged
\* assignment at a time, and only grows: Finalization implements Landing.
THEOREM ImplementsLanding ==
  ASSUME "repair-landed" \notin Slips
  PROVE  Spec => LandsInTurn
<1> USE DEF Abstract!IsAncestor, IsAncestor, Abstract!IsPrefix, IsPrefix
<1>1. Init => Abstract!Init
  BY DEF Init, Abstract!Init, Abstract!Root, Root
<1>2. Sound /\ Lands /\ [Next]_vars => [Abstract!Next]_Abstract!vars
  <2> SUFFICES ASSUME Sound, Lands, [Next]_vars
               PROVE  [Abstract!Next]_Abstract!vars
    OBVIOUS
  <2>1. landing \subseteq Assignments /\ target \in Commits
    BY DEF Sound, TypeOK
  <2>2. CASE UNCHANGED <<target, landing>>
    BY <2>2 DEF Abstract!vars
  <2>3. ASSUME NEW a \in Assignments, Advance(a) /\ MayAdvance(a)
        PROVE  Abstract!Land(a)
    <3>1. At(a, "advance")
      BY <2>3 DEF Advance
    <3>2. landing \subseteq {a}
      BY <2>1, <3>1, HolderOwns, OwnerLanded
    <3>3. a \notin landing
      BY <3>1, BusyApart DEF At, Afterwards, Landed
    <3>4. landing' = landing \cup {a} /\ IsAncestor(target, target')
      BY <2>3, AdvanceIsReviewed
    <3> QED BY <3>2, <3>3, <3>4 DEF Abstract!Land
  <2>4. ASSUME NEW a \in Assignments, landing' = landing \ {a}, target' = target,
               landing \subseteq {a}
        PROVE  Abstract!Acknowledge(a) \/ UNCHANGED Abstract!vars
    BY <2>4 DEF Abstract!Acknowledge, Abstract!vars
  <2>5. ASSUME NEW a \in Assignments, Record(a), landing' = landing \ {a}
        PROVE  Abstract!Acknowledge(a) \/ UNCHANGED Abstract!vars
    <3>1. a \in landing
      BY <2>5 DEF Record, At, Lands, CarryOf, Landed
    <3>2. OwnsLock(a)
      BY <3>1 DEF Lands, LandOf
    <3>3. landing \subseteq {a}
      BY <2>1, <3>2, OwnerLanded
    <3> QED BY <2>4, <2>5, <3>3 DEF Record, shared
  <2>6. ASSUME NEW a \in Assignments, ReconcileLanded(a), landing' = landing \ {a}
        PROVE  Abstract!Acknowledge(a) \/ UNCHANGED Abstract!vars
    <3>1. OwnsLock(a) /\ target' = target
      BY <2>6 DEF ReconcileLanded
    <3>2. landing \subseteq {a}
      BY <2>1, <3>1, OwnerLanded
    <3> QED BY <2>4, <2>6, <3>1, <3>2
  <2>7. ASSUME NEW c \in OperatorWork, OperatorCommit(c)
        PROVE  Abstract!Commit
    <3>1. IsAncestor(target, target')
      BY <2>1, <2>7, FinalizationAssumption, WrittenFacts, AppendFacts DEF OperatorCommit
    <3>2. landing' = landing
      BY <2>7 DEF OperatorCommit, history
    <3> QED BY <3>1, <3>2 DEF Abstract!Commit
  <2> QED BY <2>2, <2>3, <2>5, <2>6, <2>7, TargetMoves DEF Abstract!Next
<1> QED BY LandsAlways, <1>1, <1>2, PTL DEF Spec, LandsInTurn, Abstract!Spec

-----------------------------------------------------------------------------
(* Where the changes are.                                                   *)

Within(commit) == IF commit = None THEN {} ELSE ChangesOf(commit)
Underway(replay) ==
  IF replay = None THEN {}
  ELSE ChangesOf(replay.done) \cup ChangesOf(replay.left) \cup Within(replay.staged)

\* What no step takes back: landed, kept by a recovery ref, or given up.
Fixed ==
  ChangesOf(target) \cup {w[1] : w \in waived}
    \cup UNION {ChangesOf(commit) : commit \in recovery}

\* What one worktree holds, and all that one assignment can draw from.
CarriedBy(a) == tree[a].dirty \cup Within(tree[a].head)
StockOf(a) ==
  CarriedBy(a) \cup Within(frozen[a]) \cup Within(candidate[a]) \cup Underway(tree[a].replay)

\* The places of a handler before the target is advanced.
Before == {"lock"} \cup Beyond

\* What the ways back rest on: HEAD has what was frozen until it lands, the
\* frozen commit has what HEAD has while a handler may reset to it, and a
\* stopped replay has all of HEAD.
WorkOf(a) ==
  /\ Status(a, "ready") => Within(frozen[a]) \subseteq Within(tree[a].head) \cup Fixed
  /\ Status(a, "integrated") => Within(frozen[a]) \subseteq Fixed
  /\ job[a].at \in Before /\ ~job[a].attested =>
       IsClean(a) /\ Within(tree[a].head) \subseteq Within(frozen[a]) \cup Fixed
  /\ job[a].at \in Landed => tree[a].head = candidate[a]
  /\ Paused(a) =>
       /\ Within(tree[a].head) \subseteq
            ChangesOf(tree[a].replay.done) \cup ChangesOf(tree[a].replay.left) \cup Fixed
       /\ tree[a].replay.staged # None =>
            tree[a].replay.left[1].of \in ChangesOf(tree[a].replay.staged) \cup Fixed

\* A step of a loses nothing, and adds nothing that is not of its own.
NothingDropped(a) ==
  /\ Fixed \subseteq Fixed'
  /\ CarriedBy(a) \subseteq CarriedBy(a)' \cup Fixed'
  /\ made' \subseteq made \cup CarriedBy(a)'
  /\ primary'.dirty = primary.dirty

Draws(a) ==
  /\ StockOf(a)' \subseteq StockOf(a) \cup ChangesOf(target) \cup Work[a]
  /\ ChangesOf(target') \subseteq StockOf(a) \cup ChangesOf(target)
  /\ primary'.dirty = primary.dirty

Carries(a) ==
  /\ Draws(a)
  /\ "edit-midway" \notin Slips /\ WorkOf(a) => NothingDropped(a) /\ WorkOf(a)'

LEMMA FixedGrows ==
  ASSUME target \in Commits, target' \in Commits, IsAncestor(target, target'),
         recovery \subseteq recovery', waived \subseteq waived'
  PROVE  Fixed \subseteq Fixed'
<1>1. ChangesOf(target) \subseteq ChangesOf(target')
  BY AncestorChanges
<1>2. UNION {ChangesOf(commit) : commit \in recovery}
        \subseteq UNION {ChangesOf(commit) : commit \in recovery'}
  OBVIOUS
<1>3. {w[1] : w \in waived} \subseteq {w[1] : w \in waived'}
  OBVIOUS
<1> QED BY <1>1, <1>2, <1>3 DEF Fixed

\* A step of a that leaves its worktree alone.
StillWorld(a) ==
  /\ tree'[a] = tree[a] /\ recovery' = recovery /\ waived' = waived /\ made' = made
  /\ primary'.dirty = primary.dirty
  /\ target' = target \/ (target' = candidate[a] /\ candidate[a] \in Commits)

StillRefs(a) ==
  /\ frozen'[a] \in {frozen[a], None} \/ frozen'[a] = tree[a].head
  /\ candidate'[a] \in {candidate[a], None} \/ candidate'[a] = tree[a].head

StillRow(a) ==
  /\ row'[a].status = "ready" =>
       (Status(a, "ready") /\ frozen'[a] = frozen[a]) \/ frozen'[a] = tree[a].head
  /\ row'[a].status = "integrated" =>
       /\ frozen'[a] = frozen[a]
       /\ \/ Status(a, "integrated")
          \/ Status(a, "ready") /\ (WorkOf(a) => Within(tree[a].head) \subseteq ChangesOf(target'))

StillJob(a) ==
  /\ job'[a].at \in Before /\ ~job'[a].attested =>
       \/ job[a].at \in Before /\ ~job[a].attested /\ frozen'[a] = frozen[a]
       \/ IsClean(a) /\ tree[a].head = frozen'[a]
  /\ job'[a].at \in Landed =>
       \/ tree[a].head = candidate'[a]
       \/ job[a].at \in Landed /\ candidate'[a] = candidate[a]

Still(a) == StillWorld(a) /\ StillRefs(a) /\ StillRow(a) /\ StillJob(a)

\* A step that writes neither row nor refs, and one that leaves the row and
\* the frozen ref be.
LEMMA PrimaryKept ==
  ASSUME UNCHANGED primary
  PROVE  primary'.dirty = primary.dirty
OBVIOUS

LEMMA StillRowIfKept ==
  ASSUME NEW a \in Assignments, row'[a].status = row[a].status, frozen'[a] = frozen[a]
  PROVE  StillRow(a)
BY DEF StillRow, Status

LEMMA StillCarries ==
  ASSUME Sound, NEW a \in Assignments, Keeps(a), Still(a)
  PROVE  Carries(a)
<1>1. Fixed \subseteq Fixed'
  BY FixedGrows DEF Still, StillWorld, Sound, TypeOK, Keeps, MoveOf, WorldOK
<1>2. Draws(a)
  BY NoneAssumption DEF Still, StillWorld, StillRefs, Draws, StockOf, CarriedBy, Within
<1>3. NothingDropped(a)
  BY <1>1 DEF Still, StillWorld, NothingDropped, CarriedBy
<1>4. ASSUME WorkOf(a)
      PROVE  WorkOf(a)'
  <2>1. ChangesOf(target') \subseteq Fixed'
    BY DEF Fixed
  <2>2. row'[a].status = "ready" => Within(frozen'[a]) \subseteq Within(tree'[a].head) \cup Fixed'
    BY <1>1, <1>4 DEF Still, StillWorld, StillRefs, StillRow, StillJob, WorkOf, Status
  <2>3. row'[a].status = "integrated" => Within(frozen'[a]) \subseteq Fixed'
    BY <1>1, <1>4, <2>1 DEF Still, StillWorld, StillRefs, StillRow, StillJob, WorkOf, Status
  <2>4. job'[a].at \in Before /\ ~job'[a].attested =>
          /\ tree'[a].dirty = {}
          /\ Within(tree'[a].head) \subseteq Within(frozen'[a]) \cup Fixed'
    BY <1>1, <1>4 DEF Still, StillWorld, StillRefs, StillRow, StillJob, WorkOf, IsClean
  <2>5. job'[a].at \in Landed => tree'[a].head = candidate'[a]
    BY <1>4 DEF Still, StillWorld, StillJob, WorkOf
  <2>6. tree'[a].replay # None =>
          /\ Within(tree'[a].head) \subseteq
               ChangesOf(tree'[a].replay.done) \cup ChangesOf(tree'[a].replay.left) \cup Fixed'
          /\ tree'[a].replay.staged # None =>
               tree'[a].replay.left[1].of \in ChangesOf(tree'[a].replay.staged) \cup Fixed'
    BY <1>1, <1>4 DEF Still, StillWorld, StillRefs, StillRow, StillJob, WorkOf, Paused
  <2> QED BY <2>2, <2>3, <2>4, <2>5, <2>6 DEF WorkOf, Status, Paused, IsClean
<1> QED BY <1>2, <1>3, <1>4 DEF Carries

\* Where the handler of a is after its move.
LEMMA JobMoves ==
  ASSUME Sound, NEW a \in Assignments
  PROVE  /\ \A p \in Places :
              Goto(a, p) => /\ job'[a].at = p /\ job'[a].op = job[a].op
                            /\ job'[a].attested = job[a].attested
         /\ Finish(a) => job'[a].at = "idle" /\ job'[a].op = "none" /\ ~job'[a].attested
         /\ \A op \in AllOps :
              Attested(a, op) => job'[a].at = "lock" /\ job'[a].op = op /\ job'[a].attested
<1>1. job \in [Assignments -> Jobs]
  BY SoundFacts
<1> QED BY <1>1, GotoIs, FinishIs, AttestedIs DEF JobIs

-----------------------------------------------------------------------------
(* What each step does to the changes.  First the steps that leave the      *)
(* worktree alone.                                                          *)

LEMMA BeginStills ==
  ASSUME Sound, NEW a \in Assignments,
         BeginReconcile(a) \/ BeginReconcileReady(a) \/ BeginConfirm(a)
  PROVE  Still(a)
<1>1. /\ candidate \in [Assignments -> {None} \cup Commits] /\ job \in [Assignments -> Jobs]
      /\ Free(a) /\ ~Status(a, "integrated")
  BY SoundFacts DEF BeginReconcile, BeginReconcileReady, BeginConfirm, Status
<1>2. /\ UNCHANGED <<row, tree, frozen, target, recovery, waived, made, primary>>
      /\ candidate' = candidate \/ candidate'[a] = tree[a].head
  BY <1>1 DEF BeginReconcile, BeginReconcileReady, BeginConfirm, SetCandidate, database, refs,
              shared, history
<1>3. job'[a].at = "freeze" \/ (job'[a].at = "lock" /\ job'[a].attested)
  BY <1>1, JobMoves DEF BeginReconcile, BeginReconcileReady, BeginConfirm, Idle, AllOps
<1>10. StillWorld(a)
  BY <1>1, <1>2, <1>3, PrimaryKept DEF StillWorld
<1>13. StillRefs(a)
  BY <1>1, <1>2, <1>3 DEF StillRefs
<1>11. StillRow(a)
  BY <1>1, <1>2, <1>3, StillRowIfKept DEF StillRow, Status
<1>12. StillJob(a)
  BY <1>1, <1>2, <1>3 DEF StillJob, Before, Beyond, Landed
<1> QED BY <1>10, <1>11, <1>12, <1>13 DEF Still

LEMMA FreezeStills ==
  ASSUME Sound, NEW a \in Assignments, Freeze(a)
  PROVE  Still(a)
<1>1. /\ job \in [Assignments -> Jobs] /\ frozen \in [Assignments -> {None} \cup Commits]
      /\ row \in [Assignments -> Rows] /\ Status(a, "active")
  BY SoundFacts DEF Freeze, PartsOf, StageOf, At
<1>2. /\ UNCHANGED <<tree, candidate, target, recovery, waived, made, primary>>
      /\ frozen'[a] = tree[a].head
  BY <1>1 DEF Freeze, SetFrozen, shared, history
<1>3. (IsClean(a) /\ job'[a].at = "lock") \/ job'[a].at = "idle"
  <2>1. job' = [job EXCEPT ![a].at = "lock", ![a].expected = target] => job'[a].at = "lock"
    BY <1>1 DEF Jobs
  <2> QED BY <2>1, JobMoves DEF Freeze
<1>4. row'[a].status # "integrated"
  BY <1>1 DEF Freeze, SetRow, Rows, Status
<1>10. StillWorld(a)
  BY <1>2, <1>3, <1>4, PrimaryKept DEF StillWorld
<1>13. StillRefs(a)
  BY <1>2, <1>3, <1>4 DEF StillRefs
<1>11. StillRow(a)
  BY <1>2, <1>3, <1>4, StillRowIfKept DEF StillRow, Status
<1>12. StillJob(a)
  BY <1>2, <1>3, <1>4 DEF StillJob, Before, Beyond, Landed
<1> QED BY <1>10, <1>11, <1>12, <1>13 DEF Still

LEMMA AcquireLockStills ==
  ASSUME Sound, NEW a \in Assignments, AcquireLock(a)
  PROVE  Still(a)
<1>1. UNCHANGED <<row, tree, frozen, candidate, target, recovery, waived, made, primary>>
  BY DEF AcquireLock, refs, shared, history
<1>2. \/ job'[a].at \in {"advance", "replay"} /\ job'[a].attested = job[a].attested
      \/ job'[a].at = "idle"
  <2>1. "advance" \in Places /\ "replay" \in Places
    BY DEF Places
  <2> QED BY <2>1, JobMoves DEF AcquireLock
<1>3. job[a].at \in Before
  BY DEF AcquireLock, At, Before
<1>10. StillWorld(a)
  BY <1>1, <1>2, <1>3, PrimaryKept DEF StillWorld
<1>13. StillRefs(a)
  BY <1>1, <1>2, <1>3 DEF StillRefs
<1>11. StillRow(a)
  BY <1>1, <1>2, <1>3, StillRowIfKept DEF StillRow, Status
<1>12. StillJob(a)
  BY <1>1, <1>2, <1>3 DEF StillJob, Before, Beyond, Landed
<1> QED BY <1>10, <1>11, <1>12, <1>13 DEF Still

LEMMA ProveStills ==
  ASSUME Sound, NEW a \in Assignments, Prove(a), SameAsReviewed(a, job[a].expected, tree[a].head)
  PROVE  Still(a)
<1>1. /\ UNCHANGED <<row, tree, frozen, target, recovery, waived, made, primary>>
      /\ candidate'[a] = tree[a].head
  BY SoundFacts DEF Prove, SetCandidate, shared, history
<1>2. job'[a].at = "advance" /\ job'[a].attested = job[a].attested
  BY JobMoves DEF Prove, Places
<1>3. job[a].at \in Before
  BY DEF Prove, At, Before, Beyond
<1>10. StillWorld(a)
  BY <1>1, <1>2, <1>3, PrimaryKept DEF StillWorld
<1>13. StillRefs(a)
  BY <1>1, <1>2, <1>3 DEF StillRefs
<1>11. StillRow(a)
  BY <1>1, <1>2, <1>3, StillRowIfKept DEF StillRow, Status
<1>12. StillJob(a)
  BY <1>1, <1>2, <1>3 DEF StillJob, Before, Beyond, Landed
<1> QED BY <1>10, <1>11, <1>12, <1>13 DEF Still

LEMMA AdvanceStills ==
  ASSUME Sound, NEW a \in Assignments, Advance(a), MayAdvance(a) \/ job[a].attested
  PROVE  Still(a)
<1>1. /\ UNCHANGED <<row, tree, frozen, candidate, recovery, waived, made, primary>>
      /\ target' = target \/ target' = candidate[a]
  BY DEF Advance
<1>2. job'[a].at \in {"carry", "idle"}
  BY JobMoves DEF Advance, Places
<1>3. candidate[a] \in Commits /\ tree[a].head = candidate[a]
  BY SoundFacts DEF Advance, PartsOf, LockOf, At
<1>10. StillWorld(a)
  BY <1>1, <1>2, <1>3, PrimaryKept DEF StillWorld
<1>13. StillRefs(a)
  BY <1>1, <1>2, <1>3 DEF StillRefs
<1>11. StillRow(a)
  BY <1>1, <1>2, <1>3, StillRowIfKept DEF StillRow, Status
<1>12. StillJob(a)
  BY <1>1, <1>2, <1>3 DEF StillJob, Before, Beyond, Landed
<1> QED BY <1>10, <1>11, <1>12, <1>13 DEF Still

LEMMA CarryStills ==
  ASSUME Sound, NEW a \in Assignments, Carry(a)
  PROVE  Still(a)
<1>1. UNCHANGED <<row, tree, frozen, candidate, target, recovery, waived, made>>
  BY DEF Carry, database, refs, history
<1>2. primary'.dirty = primary.dirty
  <2>1. primary \in [onRef : BOOLEAN, shows : {None} \cup Commits, dirty : SUBSET Changes]
    BY DEF Sound, TypeOK
  <2> QED BY <2>1 DEF Carry
<1>3. job'[a].at \in {"record", "idle"} /\ job[a].at \in Landed
  BY JobMoves DEF Carry, Places, At, Landed
<1>10. StillWorld(a)
  BY <1>1, <1>2, <1>3, PrimaryKept DEF StillWorld
<1>13. StillRefs(a)
  BY <1>1, <1>2, <1>3 DEF StillRefs
<1>11. StillRow(a)
  BY <1>1, <1>2, <1>3, StillRowIfKept DEF StillRow, Status
<1>12. StillJob(a)
  BY <1>1, <1>2, <1>3 DEF StillJob, Before, Beyond, Landed
<1> QED BY <1>10, <1>11, <1>12, <1>13 DEF Still

LEMMA RecordStills ==
  ASSUME Sound, NEW a \in Assignments, Record(a)
  PROVE  Still(a)
<1>1. /\ UNCHANGED <<tree, frozen, candidate, target, recovery, waived, made, primary>>
      /\ Status(a, "ready") /\ job[a].at \in Landed /\ row \in [Assignments -> Rows]
      /\ target \in Commits
  BY SoundFacts DEF Record, refs, shared, PartsOf, StageOf, At, Landed, WorldOK
<1>2. job'[a].at \in {"unlock", "idle"}
  BY JobMoves DEF Record, Places
<1>3. row' = row \/ CheckoutAt(candidate[a])
  BY DEF Record
<1>4. CheckoutAt(candidate[a]) /\ WorkOf(a) => Within(tree[a].head) \subseteq ChangesOf(target)
  BY <1>1, NoneAssumption DEF CheckoutAt, WorkOf, Within
<1>5. row'[a].status \in {"ready", "integrated"}
  <2>1. CASE row' = row
    BY <1>1, <2>1 DEF Status
  <2>2. CASE SetRow(a, Integrated(a))
    <3>1. row[a] \in Rows
      BY <1>1
    <3> QED BY <1>1, <3>1, <2>2 DEF SetRow, Integrated, Rows
  <2> QED BY <2>1, <2>2 DEF Record
<1>10. StillWorld(a)
  BY <1>1, <1>2, <1>3, <1>4, <1>5, PrimaryKept DEF StillWorld
<1>13. StillRefs(a)
  BY <1>1, <1>2, <1>3, <1>4, <1>5 DEF StillRefs
<1>11. StillRow(a)
  BY <1>1, <1>2, <1>3, <1>4, <1>5, StillRowIfKept DEF StillRow, Status
<1>12. StillJob(a)
  BY <1>1, <1>2, <1>3, <1>4, <1>5 DEF StillJob, Before, Beyond, Landed
<1> QED BY <1>10, <1>11, <1>12, <1>13 DEF Still

\* The steps of an integrated row, and those that end a reopen or a sync.
LEMMA SettlingStills ==
  ASSUME Sound, NEW a \in Assignments,
         \/ Unlock(a) \/ PushCandidate(a) \/ Readback(a) \/ Settle(a) \/ Recycle(a) \/ Forget(a)
         \/ Retire(a) \/ Clear(a) \/ SyncBase(a) \/ CompleteTeardown(a)
  PROVE  Still(a)
<1>1. /\ row \in [Assignments -> Rows] /\ frozen \in [Assignments -> {None} \cup Commits]
      /\ candidate \in [Assignments -> {None} \cup Commits]
      /\ PartsOf(a)
  BY SoundFacts
<1>2. UNCHANGED <<tree, target, recovery, waived, made, primary>>
  BY DEF Unlock, PushCandidate, Readback, Settle, Recycle, Forget, Retire, Clear, SyncBase,
         CompleteTeardown, refs, shared, history
<1>3. frozen' = frozen \/ (Clear(a) /\ frozen'[a] = None)
  BY <1>1 DEF Unlock, PushCandidate, Readback, Settle, Recycle, Forget, Retire, Clear, SyncBase,
         CompleteTeardown, refs, SetFrozen
<1>4. candidate' = candidate \/ candidate'[a] = None
  BY <1>1 DEF Unlock, PushCandidate, Readback, Settle, Recycle, Forget, Retire, Clear, SyncBase,
         CompleteTeardown, refs, SetCandidate
<1>5. job'[a].at \notin Before \cup Landed
  <2>1. \/ Finish(a) \/ (CompleteTeardown(a) /\ UNCHANGED job)
        \/ \E p \in {"push", "idle", "recycle", "release", "close", "readback", "settle", "forget",
                     "unlock"} : Goto(a, p)
    <3>1. Unlock(a) => Finish(a) \/ Goto(a, "push") \/ Goto(a, "recycle") \/ Goto(a, "release")
                         \/ Goto(a, "close")
      <4>1. /\ job[a].op \in AllOps \cup {"none", "landed"}
            /\ Unlock(a) => job[a].op # "none"
        BY SoundFacts, JobFields DEF Unlock, PartsOf, CellsOf, StageOf, At, IsIdle
      <4>2. Unlock(a) => AfterIntegration(a) \in {"push", "idle", "recycle", "release", "close"}
        BY <4>1 DEF AfterIntegration, AllOps
      <4> QED BY <4>2 DEF Unlock, ProceedTo
    <3>2. Forget(a) => Finish(a) \/ Goto(a, "unlock")
      BY DEF Forget, ProceedTo
    <3> QED BY <3>1, <3>2 DEF PushCandidate, Readback, Settle, Recycle, Retire, Clear, SyncBase,
                              CompleteTeardown
  <2>2. CompleteTeardown(a) => job[a].at = "idle"
    BY DEF CompleteTeardown, IsIdle
  <2>3. \A p \in {"push", "idle", "recycle", "release", "close", "readback", "settle", "forget",
                  "unlock"} : p \in Places
    BY DEF Places
  <2> QED BY <2>1, <2>2, <2>3, JobMoves DEF Before, Beyond, Landed
<1>6. /\ row'[a].status \notin {row[a].status} => row'[a].status \in {"active", "cleaned"}
      /\ Clear(a) => row'[a].status = "active"
      /\ ~Status(a, "ready")
  <2>1. ~Status(a, "ready") /\ (Clear(a) => Status(a, "active"))
    BY <1>1 DEF PartsOf, StageOf, At, Status, Unlock, PushCandidate, Readback, Settle, Recycle,
           Forget, Retire, Clear, SyncBase, CompleteTeardown
  <2>2. \/ row' = row
        \/ \E debt : SetRow(a, [row[a] EXCEPT !.debt = debt])
        \/ SetRow(a, [row[a] EXCEPT !.debt.phase = "push-succeeded"])
        \/ SetRow(a, Recycled(a))
        \/ SetRow(a, [row[a] EXCEPT !.status = "cleaned"])
        \/ SetRow(a, [row[a] EXCEPT !.base = job[a].expected])
    BY DEF Unlock, PushCandidate, Readback, Settle, Recycle, Forget, Retire, Retired, Clear,
           SyncBase, CompleteTeardown, database
  <2>3. Clear(a) => row' = row
    BY DEF Clear
  <2>4. row[a] \in Rows
    BY <1>1
  <2> QED BY <1>1, <2>1, <2>2, <2>3, <2>4 DEF SetRow, Recycled, Rows, Status
<1>7. frozen'[a] = frozen[a] \/ row'[a].status = "active"
  BY <1>3, <1>6
<1>10. StillWorld(a)
  BY <1>2, <1>3, <1>4, <1>5, <1>6, <1>7, PrimaryKept DEF StillWorld
<1>13. StillRefs(a)
  BY <1>2, <1>3, <1>4, <1>5, <1>6, <1>7 DEF StillRefs
<1>11. StillRow(a)
  BY <1>2, <1>3, <1>4, <1>5, <1>6, <1>7, StillRowIfKept DEF StillRow, Status
<1>12. StillJob(a)
  BY <1>2, <1>3, <1>4, <1>5, <1>6, <1>7 DEF StillJob, Before, Beyond, Landed
<1> QED BY <1>10, <1>11, <1>12, <1>13 DEF Still

LEMMA ReconcileLandedStills ==
  ASSUME Sound, NEW a \in Assignments, ReconcileLanded(a)
  PROVE  Still(a)
<1>1. /\ UNCHANGED <<tree, frozen, candidate, target, recovery, waived, made>>
      /\ Status(a, "ready") /\ row \in [Assignments -> Rows] /\ job \in [Assignments -> Jobs]
      /\ job[a].at = "idle" /\ target \in Commits
      /\ candidate[a] \in Commits /\ tree[a].head = candidate[a] /\ IsAncestor(candidate[a], target)
  <2>1. candidate[a] \in {None} \cup Commits
    BY DEF Sound, TypeOK
  <2> QED BY <2>1, SoundFacts DEF ReconcileLanded, AwaitsRecovery, Free, IsIdle, refs, WorldOK
<1>2. primary'.dirty = primary.dirty
  <2>1. primary \in [onRef : BOOLEAN, shows : {None} \cup Commits, dirty : SUBSET Changes]
    BY DEF Sound, TypeOK
  <2> QED BY <2>1 DEF ReconcileLanded, RepairCheckout
<1>3. job'[a].at \in {"idle", "recycle", "unlock"}
  BY <1>1 DEF ReconcileLanded, Idle
<1>4. Within(tree[a].head) \subseteq ChangesOf(target)
  BY <1>1, AncestorChanges DEF Within
<1>5. row'[a].status \in {"ready", "integrated"}
  BY <1>1 DEF ReconcileLanded, SetRow, Integrated, Rows, Status
<1>10. StillWorld(a)
  BY <1>1, <1>2, <1>3, <1>4, <1>5, PrimaryKept DEF StillWorld
<1>13. StillRefs(a)
  BY <1>1, <1>2, <1>3, <1>4, <1>5 DEF StillRefs
<1>11. StillRow(a)
  BY <1>1, <1>2, <1>3, <1>4, <1>5, StillRowIfKept DEF StillRow, Status
<1>12. StillJob(a)
  BY <1>1, <1>2, <1>3, <1>4, <1>5 DEF StillJob, Before, Beyond, Landed
<1> QED BY <1>10, <1>11, <1>12, <1>13 DEF Still

LEMMA ReconcileFrozenStills ==
  ASSUME Sound, NEW a \in Assignments, ReconcileFrozen(a)
  PROVE  Still(a)
<1>1. /\ UNCHANGED <<row, tree, frozen, candidate, target, recovery, waived, made, primary>>
      /\ tree[a].head = frozen[a] /\ IsClean(a)
  BY DEF ReconcileFrozen, database, refs, shared, history
<1>2. job'[a].at = "lock"
  BY SoundFacts DEF ReconcileFrozen, Idle
<1>10. StillWorld(a)
  BY <1>1, <1>2, PrimaryKept DEF StillWorld
<1>13. StillRefs(a)
  BY <1>1, <1>2 DEF StillRefs
<1>11. StillRow(a)
  BY <1>1, <1>2, StillRowIfKept DEF StillRow, Status
<1>12. StillJob(a)
  BY <1>1, <1>2 DEF StillJob, Before, Beyond, Landed
<1> QED BY <1>10, <1>11, <1>12, <1>13 DEF Still

LEMMA CrashStills ==
  ASSUME Sound, NEW a \in Assignments, Crash(a)
  PROVE  Still(a)
<1>1. UNCHANGED <<row, tree, frozen, candidate, target, recovery, waived, made, primary>>
  BY DEF Crash, database, refs, shared
<1>2. job'[a].at = "idle"
  BY JobMoves DEF Crash
<1>10. StillWorld(a)
  BY <1>1, <1>2, PrimaryKept DEF StillWorld
<1>13. StillRefs(a)
  BY <1>1, <1>2 DEF StillRefs
<1>11. StillRow(a)
  BY <1>1, <1>2, StillRowIfKept DEF StillRow, Status
<1>12. StillJob(a)
  BY <1>1, <1>2 DEF StillJob, Before, Beyond, Landed
<1> QED BY <1>10, <1>11, <1>12, <1>13 DEF Still

-----------------------------------------------------------------------------
(* The steps that change the worktree.                                      *)

\* Such a step leaves the target and the operator's checkout alone.
LEMMA MovedCarries ==
  ASSUME Sound, NEW a \in Assignments, Keeps(a), target' = target, primary' = primary,
         recovery \subseteq recovery', waived \subseteq waived',
         made' \subseteq made \cup CarriedBy(a)',
         StockOf(a)' \subseteq StockOf(a) \cup ChangesOf(target) \cup Work[a],
         Fixed \subseteq Fixed' /\ "edit-midway" \notin Slips /\ WorkOf(a) =>
           CarriedBy(a) \subseteq (CarriedBy(a)' \cup Fixed') /\ WorkOf(a)'
  PROVE  Carries(a)
<1>1. Fixed \subseteq Fixed'
  <2>1. IsAncestor(target, target') /\ target \in Commits
    BY DEF Keeps, MoveOf, Sound, TypeOK
  <2> QED BY <2>1, FixedGrows
<1>2. primary'.dirty = primary.dirty
  BY PrimaryKept
<1>3. Draws(a)
  BY <1>2 DEF Draws
<1>4. ASSUME "edit-midway" \notin Slips, WorkOf(a)
      PROVE  NothingDropped(a) /\ WorkOf(a)'
  BY <1>1, <1>2, <1>4 DEF NothingDropped
<1> QED BY <1>3, <1>4 DEF Carries

LEMMA RestingWork ==
  ASSUME NEW a \in Assignments, row'[a].status \notin {"ready", "integrated"},
         job'[a].at \notin Before \cup Landed, tree'[a].replay = None
  PROVE  WorkOf(a)'
BY DEF WorkOf, Status, Paused

\* What a worktree that is replayed onto the target comes to.
LEMMA ReplayOnTarget ==
  ASSUME Sound, NEW a \in Assignments, tree[a].head \in Commits
  PROVE  LET r == Replayed(ReplayPlan(target, row[a].base, tree[a].head)) IN
         /\ r \in ReplayStates
         /\ ChangesOf(r.done) \cup ChangesOf(r.left)
              \subseteq ChangesOf(target) \cup ChangesOf(tree[a].head)
         /\ ChangesOf(tree[a].head) \subseteq ChangesOf(r.done) \cup ChangesOf(r.left)
<1> DEFINE plan == ReplayPlan(target, row[a].base, tree[a].head)
<1>1. /\ target \in Commits /\ row[a].base \in Commits /\ IsAncestor(row[a].base, target)
  BY SoundFacts, RowFields DEF WorldOK, CellsOf, PartsOf, BaseOf
<1>2. /\ plan \in ReplayStates /\ plan.done = target
      /\ ChangesOf(plan.left) \subseteq ChangesOf(tree[a].head)
      /\ ChangesOf(tree[a].head) \subseteq
           ChangesOf(row[a].base) \cup ChangesOf(target) \cup ChangesOf(plan.left)
  BY <1>1, ReplayPlanFacts
<1>3. /\ Replayed(plan) \in ReplayStates
      /\ ChangesOf(Replayed(plan).done) \cup ChangesOf(Replayed(plan).left)
           = ChangesOf(target) \cup ChangesOf(plan.left)
  BY <1>2, ReplayedFacts
<1>4. ChangesOf(row[a].base) \subseteq ChangesOf(target)
  BY <1>1, AncestorChanges
<1> QED BY <1>2, <1>3, <1>4

LEMMA CommitMoves ==
  ASSUME Sound, NEW a \in Assignments, Free(a), NEW c \in tree[a].dirty,
         SetTree(a, Committed(a, c))
  PROVE  /\ tree'[a].head = Committed(a, c).head /\ tree'[a].head \in Commits
         /\ tree[a].head \in Commits
         /\ ChangesOf(tree'[a].head) = ChangesOf(tree[a].head) \cup {c}
         /\ tree'[a].dirty = tree[a].dirty \ {c} /\ tree'[a].replay = None
         /\ CarriedBy(a)' = CarriedBy(a)
<1>1. /\ tree[a] \in Trees /\ tree \in [Assignments -> Trees]
      /\ tree[a].head \in Commits /\ tree[a].replay = None /\ c \in Changes
  BY SoundFacts, TreeFields DEF Free, Paused, CellsOf, PartsOf, TreeOf
<1>2. /\ Committed(a, c).head = Append(tree[a].head, Written(c))
      /\ Committed(a, c).dirty = tree[a].dirty \ {c} /\ Committed(a, c).replay = None
  BY <1>1 DEF Committed, Trees
<1>3. tree'[a] = Committed(a, c)
  BY <1>1 DEF SetTree
<1>4. /\ Append(tree[a].head, Written(c)) \in Commits
      /\ ChangesOf(Append(tree[a].head, Written(c))) = ChangesOf(tree[a].head) \cup {c}
  BY <1>1, WrittenFacts, AppendFacts
<1>5. tree[a].head # None /\ tree'[a].head # None
  BY <1>1, <1>2, <1>3, <1>4, NoneAssumption
<1>6. CarriedBy(a)' = CarriedBy(a)
  BY <1>2, <1>3, <1>4, <1>5 DEF CarriedBy, Within
<1> QED BY <1>1, <1>2, <1>3, <1>4, <1>6

LEMMA CommitCarries ==
  ASSUME Sound, NEW a \in Assignments, NEW c \in tree[a].dirty,
         \/ CommitAndStay(a, c) \/ BeginPush(a, c)
         \/ \E op \in AllOps : BeginCommander(a, c, op)
  PROVE  Carries(a)
<1>1. /\ Free(a) /\ SetTree(a, Committed(a, c)) /\ Status(a, "active")
      /\ UNCHANGED <<frozen, candidate, recovery, target, primary, made, waived>>
      /\ row' = row \/ \E debt : row' = [row EXCEPT ![a] = [row[a] EXCEPT !.debt = debt]]
      /\ job' = job \/ \E op \in AllOps :
           job' = [job EXCEPT ![a] = [Idle EXCEPT !.at = "freeze", !.op = op]]
  BY DEF CommitAndStay, BeginPush, BeginCommander, SetRow, database, refs, shared, history, AllOps
<1>2. /\ row \in [Assignments -> Rows] /\ job \in [Assignments -> Jobs] /\ row[a] \in Rows
      /\ job[a].at = "idle"
  BY <1>1, SoundFacts DEF Free, IsIdle, CellsOf
<1>3. row'[a].status = "active"
  <2>1. CASE row' = row
    BY <1>1, <2>1 DEF Status
  <2>2. CASE \E debt : row' = [row EXCEPT ![a] = [row[a] EXCEPT !.debt = debt]]
    <3>1. PICK debt : row' = [row EXCEPT ![a] = [row[a] EXCEPT !.debt = debt]]
      BY <2>2
    <3>2. [row[a] EXCEPT !.debt = debt].status = row[a].status
      BY <1>2 DEF Rows
    <3> QED BY <1>1, <1>2, <3>1, <3>2 DEF Status
  <2> QED BY <1>1, <2>1, <2>2
<1>4. job'[a].at \in {"idle", "freeze"}
  BY <1>1, <1>2 DEF Idle
<1>5. WorkOf(a)'
  BY <1>1, <1>3, <1>4, CommitMoves, RestingWork DEF Before, Beyond, Landed
<1>6. StockOf(a)' = StockOf(a)
  <2>1. Underway(tree'[a].replay) = Underway(tree[a].replay)
    BY <1>1, CommitMoves DEF Free, Paused
  <2> QED BY <1>1, <2>1, CommitMoves DEF StockOf
<1>7. Keeps(a)
  BY CommitAndStayKeeps, BeginPushKeeps, BeginCommanderKeeps
<1> QED BY <1>1, <1>5, <1>6, <1>7, CommitMoves, MovedCarries

LEMMA BeginRepairCarries ==
  ASSUME Sound, NEW a \in Assignments, NEW c \in tree[a].dirty, NEW op \in AllOps,
         BeginRepair(a, c, op)
  PROVE  Carries(a)
<1>1. /\ Free(a) /\ SetTree(a, Committed(a, c)) /\ Status(a, "ready")
      /\ UNCHANGED <<row, frozen, recovery, target, primary, made, waived>>
      /\ candidate' = [candidate EXCEPT ![a] = Committed(a, c).head] /\ Attested(a, op)
  BY DEF BeginRepair, SetCandidate, database, shared, history
<1>2. job'[a].attested /\ job'[a].at = "lock" /\ candidate'[a] = Committed(a, c).head
  BY <1>1, SoundFacts, JobMoves
<1>3. Within(tree[a].head) \subseteq Within(tree'[a].head) /\ Within(tree'[a].head) \subseteq CarriedBy(a)
  BY <1>1, CommitMoves, NoneAssumption DEF Within, CarriedBy
<1>4. StockOf(a)' \subseteq StockOf(a)
  <2>1. Underway(tree'[a].replay) = Underway(tree[a].replay)
    BY <1>1, CommitMoves DEF Free, Paused
  <2> QED BY <1>1, <1>2, <1>3, <2>1, CommitMoves DEF StockOf
<1>5. ASSUME Fixed \subseteq Fixed', WorkOf(a)
      PROVE  WorkOf(a)'
  BY <1>1, <1>2, <1>3, <1>5, CommitMoves DEF WorkOf, Status, Paused, Landed
<1>6. Keeps(a)
  BY BeginRepairKeeps
<1> QED BY <1>1, <1>4, <1>5, <1>6, CommitMoves, MovedCarries

LEMMA EditCarries ==
  ASSUME Sound, NEW a \in Assignments, NEW c \in Work[a], Edit(a, c)
  PROVE  Carries(a)
<1>1. /\ UNCHANGED <<row, frozen, candidate, recovery, target, primary, job, waived>>
      /\ made' = made \cup {c} /\ tree[a].present /\ ~Paused(a)
      /\ IsIdle(a) \/ "edit-midway" \in Slips
  BY DEF Edit, database, refs, shared
<1>2. tree[a] \in Trees /\ tree \in [Assignments -> Trees]
  BY SoundFacts DEF CellsOf
<1>3. /\ tree'[a].dirty = tree[a].dirty \cup {c} /\ tree'[a].head = tree[a].head
      /\ tree'[a].replay = tree[a].replay
  BY <1>2 DEF Edit, SetTree, Trees
<1>4. StockOf(a)' = StockOf(a) \cup {c}
  BY <1>1, <1>3 DEF StockOf, CarriedBy
<1>5. CarriedBy(a)' = CarriedBy(a) \cup {c}
  BY <1>3 DEF CarriedBy
<1>6. ASSUME "edit-midway" \notin Slips, WorkOf(a), Fixed \subseteq Fixed'
      PROVE  WorkOf(a)'
  <2>1. job'[a].at \notin Before \cup Landed
    BY <1>1, <1>6 DEF IsIdle, Before, Beyond, Landed
  <2> QED BY <1>1, <1>3, <1>6, <2>1 DEF WorkOf, Status, Paused
<1>7. Keeps(a)
  BY EditKeeps
<1> QED BY <1>1, <1>4, <1>5, <1>6, <1>7, MovedCarries

\* A snapshot has all that the worktree held.
LEMMA SnapshotHolds ==
  ASSUME Sound, NEW a \in Assignments, tree[a].head \in Commits, ~IsClean(a)
  PROVE  \E commit \in Snapshot(a) : CarriedBy(a) \subseteq ChangesOf(commit)
<1> DEFINE residue == SetToSeq({Written(c) : c \in tree[a].dirty})
<1>1. tree[a].dirty \subseteq Changes /\ IsFiniteSet(tree[a].dirty)
  BY SoundFacts, TreeFields DEF CellsOf, PartsOf, TreeOf
<1>2. residue \in Commits /\ ChangesOf(residue) = tree[a].dirty
  BY <1>1, ResidueFacts
<1>3. ChangesOf(tree[a].head \o residue) = ChangesOf(tree[a].head) \cup tree[a].dirty
  BY <1>2, ConcatFacts
<1>4. tree[a].head \o residue \in Snapshot(a)
  BY DEF Snapshot
<1> HIDE DEF residue
<1> QED BY <1>3, <1>4, NoneAssumption DEF CarriedBy, Within

LEMMA BeginCloseOutCarries ==
  ASSUME Sound, NEW a \in Assignments, BeginCloseOut(a)
  PROVE  Carries(a)
<1> DEFINE Opened(j) == /\ job' = [job EXCEPT ![a] = j]
                        /\ (j.at = "lock" /\ j.attested = TRUE) \/ j.at = "close"
<1>1. /\ Free(a) /\ recovery' = Snapshot(a) /\ ~Paused(a)
      /\ SetTree(a, [tree[a] EXCEPT !.dirty = {}])
      /\ UNCHANGED <<row, frozen, target, primary, made, waived>>
      /\ candidate' = candidate \/ (Status(a, "ready") /\ SetCandidate(a, tree[a].head))
      /\ Status(a, "active") \/ UNCHANGED job \/ \E j : Opened(j)
  <2> DEFINE entry == [Idle EXCEPT !.op = "close-out"]
             opened == [entry EXCEPT !.at = "lock", !.expected = target, !.attested = TRUE]
             closing == [entry EXCEPT !.at = "close"]
  <2>1. opened.at = "lock" /\ opened.attested = TRUE /\ closing.at = "close"
    BY DEF Idle
  <2>2. \/ Status(a, "active") \/ UNCHANGED job
        \/ job' = [job EXCEPT ![a] = opened] \/ job' = [job EXCEPT ![a] = closing]
    BY DEF BeginCloseOut
  <2> HIDE DEF opened, closing
  <2>3. Status(a, "active") \/ UNCHANGED job \/ \E j : Opened(j)
    BY <2>1, <2>2
  <2> HIDE DEF Opened
  <2> QED BY <2>3 DEF BeginCloseOut, Free, database, shared, history
<1>2. /\ tree[a] \in Trees /\ tree \in [Assignments -> Trees] /\ tree[a].head \in Commits
      /\ candidate \in [Assignments -> {None} \cup Commits]
      /\ job \in [Assignments -> Jobs] /\ job[a].at = "idle"
  BY <1>1, SoundFacts DEF CellsOf, PartsOf, TreeOf, Free, IsIdle
<1>3. /\ tree'[a].dirty = {} /\ tree'[a].head = tree[a].head /\ tree'[a].replay = tree[a].replay
  BY <1>1, <1>2 DEF SetTree, Trees
<1>4. candidate'[a] \in {candidate[a], tree[a].head}
  BY <1>1, <1>2 DEF SetCandidate
<1>5. StockOf(a)' \subseteq StockOf(a)
  BY <1>1, <1>3, <1>4 DEF StockOf, CarriedBy
<1>6. tree[a].dirty \subseteq Fixed' /\ recovery \subseteq recovery'
  <2>1. recovery \subseteq recovery'
    BY <1>1, <1>2, SnapshotIs
  <2>2. CASE IsClean(a)
    BY <2>1, <2>2 DEF IsClean
  <2>3. CASE ~IsClean(a)
    <3>1. PICK commit \in recovery' : CarriedBy(a) \subseteq ChangesOf(commit)
      BY <1>1, <1>2, <2>3, SnapshotHolds
    <3> QED BY <2>1, <3>1 DEF Fixed, CarriedBy
  <2> QED BY <2>2, <2>3
<1>7. CarriedBy(a) \subseteq CarriedBy(a)' \cup Fixed'
  BY <1>3, <1>6 DEF CarriedBy
<1>8. ASSUME Fixed \subseteq Fixed', WorkOf(a)
      PROVE  WorkOf(a)'
  <2>1. tree'[a].replay = None
    BY <1>1, <1>3 DEF Paused
  <2>2. CASE Status(a, "active")
    <3>1. job'[a].at = "freeze"
      BY <1>2, <2>2 DEF BeginCloseOut, Idle, Status
    <3> QED BY <1>1, <2>1, <2>2, <3>1, RestingWork DEF Status, Before, Beyond, Landed
  <2>3. CASE ~Status(a, "active")
    <3>1. job'[a].at \notin Before \cup Landed \/ (job'[a].at = "lock" /\ job'[a].attested = TRUE)
      <4>1. CASE UNCHANGED job
        BY <1>2, <4>1 DEF Before, Beyond, Landed
      <4>2. CASE \E j : Opened(j)
        <5>1. PICK j : Opened(j)
          BY <4>2
        <5>2. \/ job'[a].at = "close"
              \/ job'[a].at = "lock" /\ job'[a].attested = TRUE
          BY <1>2, <5>1
        <5> QED BY <5>2 DEF Before, Beyond, Landed
      <4> HIDE DEF Opened
      <4> QED BY <1>1, <2>3, <4>1, <4>2
    <3>2. job'[a].at \notin Landed /\ ~(job'[a].at \in Before /\ ~job'[a].attested)
      BY <3>1 DEF Landed
    <3> QED BY <1>1, <1>3, <1>8, <2>1, <3>2 DEF WorkOf, Status, Paused
  <2> QED BY <2>2, <2>3
<1>9. Keeps(a)
  BY BeginCloseOutKeeps
<1> QED BY <1>1, <1>5, <1>6, <1>7, <1>8, <1>9, MovedCarries

LEMMA ReopenCarries ==
  ASSUME Sound, NEW a \in Assignments, Reopen(a)
  PROVE  Carries(a)
<1>1. /\ Free(a) /\ Status(a, "ready") /\ ~Paused(a)
      /\ recovery' = IF IsClean(a) /\ tree[a].head # frozen[a]
                     THEN recovery \cup {tree[a].head} ELSE Snapshot(a)
      /\ SetTree(a, ResetTo(a, frozen[a]))
      /\ SetRow(a, [row[a] EXCEPT !.status = "active", !.debt = None])
      /\ job' = [job EXCEPT ![a] = [Idle EXCEPT !.at = "clear"]]
      /\ UNCHANGED <<frozen, candidate, target, primary, made, waived>>
  BY DEF Reopen, AwaitsRecovery, Free, shared, history
<1>2. /\ tree[a] \in Trees /\ tree \in [Assignments -> Trees] /\ tree[a].head \in Commits
      /\ job \in [Assignments -> Jobs] /\ row[a] \in Rows /\ row \in [Assignments -> Rows]
      /\ frozen[a] \in Commits
  BY <1>1, SoundFacts DEF CellsOf, PartsOf, TreeOf, RowOf, Free, Status
<1>3. /\ tree'[a].dirty = {} /\ tree'[a].head = frozen[a] /\ tree'[a].replay = None
      /\ tree[a].replay = None
  BY <1>1, <1>2 DEF SetTree, Trees, ResetTo, Paused
<1>4. row'[a].status = "active" /\ job'[a].at = "clear"
  BY <1>1, <1>2 DEF SetRow, Rows, Idle
<1>5. StockOf(a)' \subseteq StockOf(a)
  BY <1>1, <1>3 DEF StockOf, CarriedBy
<1>6. recovery \subseteq recovery'
  BY <1>1, <1>2, SnapshotIs
<1>7. CarriedBy(a) \subseteq CarriedBy(a)' \cup Fixed'
  <2>1. CASE ~IsClean(a)
    <3>1. PICK commit \in recovery' : CarriedBy(a) \subseteq ChangesOf(commit)
      BY <1>1, <1>2, <2>1, SnapshotHolds
    <3> QED BY <3>1 DEF Fixed
  <2>2. CASE IsClean(a) /\ tree[a].head # frozen[a]
    <3>1. tree[a].head \in recovery' /\ Within(tree[a].head) = ChangesOf(tree[a].head)
      BY <1>1, <1>2, <2>2, NoneAssumption DEF Within
    <3>2. ChangesOf(tree[a].head) \subseteq Fixed'
      BY <3>1 DEF Fixed
    <3> QED BY <3>1, <3>2, <2>2 DEF CarriedBy, IsClean
  <2>3. CASE IsClean(a) /\ tree[a].head = frozen[a]
    BY <1>3, <2>3 DEF CarriedBy, IsClean
  <2> QED BY <2>1, <2>2, <2>3
<1>8. WorkOf(a)'
  BY <1>3, <1>4, RestingWork DEF Before, Beyond, Landed
<1>9. Keeps(a)
  BY ReopenKeeps
<1> QED BY <1>1, <1>5, <1>6, <1>7, <1>8, <1>9, MovedCarries

LEMMA SyncCarries ==
  ASSUME Sound, NEW a \in Assignments, Sync(a)
  PROVE  Carries(a)
<1> DEFINE replay == Replayed(ReplayPlan(target, row[a].base, tree[a].head))
           synced == IF IsAncestor(tree[a].head, target) THEN target ELSE replay.done
<1>1. /\ Free(a) /\ Status(a, "active") /\ ~Paused(a)
      /\ IsAncestor(tree[a].head, target) \/ Complete(replay)
      /\ SetTree(a, [tree[a] EXCEPT !.head = synced])
      /\ job' = [job EXCEPT ![a] = [Idle EXCEPT !.at = "base", !.expected = target]]
      /\ UNCHANGED <<row, frozen, candidate, recovery, target, primary, made, waived>>
  BY DEF Sync, Free, database, refs, shared, history
<1>2. /\ tree[a] \in Trees /\ tree \in [Assignments -> Trees] /\ tree[a].head \in Commits
      /\ job \in [Assignments -> Jobs] /\ target \in Commits
  BY <1>1, SoundFacts DEF CellsOf, PartsOf, TreeOf, WorldOK, Free
<1>3. /\ replay \in ReplayStates
      /\ ChangesOf(replay.done) \subseteq ChangesOf(target) \cup ChangesOf(tree[a].head)
      /\ ChangesOf(tree[a].head) \subseteq ChangesOf(replay.done) \cup ChangesOf(replay.left)
  BY <1>2, ReplayOnTarget
<1> HIDE DEF replay
<1>4. /\ synced \in Commits /\ ChangesOf(synced) \subseteq ChangesOf(target) \cup ChangesOf(tree[a].head)
      /\ ChangesOf(tree[a].head) \subseteq ChangesOf(synced)
  <2>1. CASE IsAncestor(tree[a].head, target)
    BY <1>2, <2>1, AncestorChanges
  <2>2. CASE ~IsAncestor(tree[a].head, target)
    <3>1. ChangesOf(replay.left) = {}
      BY <1>1, <2>2, RootFacts DEF Complete
    <3> QED BY <1>3, <2>2, <3>1 DEF ReplayStates
  <2> QED BY <2>1, <2>2
<1> HIDE DEF synced
<1>5. /\ tree'[a].dirty = tree[a].dirty /\ tree'[a].head = synced /\ tree'[a].replay = None
      /\ tree[a].replay = None
  BY <1>1, <1>2 DEF SetTree, Trees, Paused
<1>6. job'[a].at = "base"
  BY <1>1, <1>2 DEF Idle
<1>7. Within(synced) = ChangesOf(synced) /\ Within(tree[a].head) = ChangesOf(tree[a].head)
  BY <1>2, <1>4, NoneAssumption DEF Within
<1>8. StockOf(a)' \subseteq StockOf(a) \cup ChangesOf(target)
  BY <1>1, <1>4, <1>5, <1>7 DEF StockOf, CarriedBy
<1>9. CarriedBy(a) \subseteq CarriedBy(a)'
  BY <1>4, <1>5, <1>7 DEF CarriedBy
<1>10. WorkOf(a)'
  BY <1>1, <1>5, <1>6, RestingWork DEF Status, Before, Beyond, Landed
<1>11. Keeps(a)
  BY SyncKeeps
<1> QED BY <1>1, <1>8, <1>9, <1>10, <1>11, MovedCarries

\* The catch of a handler takes the worktree back to the frozen commit; before
\* the target is advanced nothing else is in it.
LEMMA BackCarries ==
  ASSUME Sound, NEW a \in Assignments, BackToFrozen(a), Keeps(a),
         job[a].at \in Beyond, ~job[a].attested,
         UNCHANGED <<row, frozen, recovery, target, primary, made, waived>>
  PROVE  Carries(a)
<1>1. /\ Status(a, "ready") /\ job[a].expected \in Commits /\ ~Paused(a) /\ frozen[a] \in Commits
      /\ job[a].at \in Before
  BY SoundFacts DEF PartsOf, StageOf, TreeOf, RowOf, IsIdle, Beyond, Before, Status
<1>2. /\ candidate'[a] = None /\ tree'[a].head = frozen[a] /\ tree'[a].dirty = {}
      /\ tree'[a].replay = tree[a].replay /\ job'[a].at = "idle"
  BY <1>1, BackIs DEF TreeIs, JobIs
<1>3. StockOf(a)' \subseteq StockOf(a)
  BY <1>1, <1>2 DEF StockOf, CarriedBy, Within
<1>4. ASSUME WorkOf(a), Fixed \subseteq Fixed'
      PROVE  CarriedBy(a) \subseteq (CarriedBy(a)' \cup Fixed') /\ WorkOf(a)'
  <2>1. tree[a].dirty = {} /\ Within(tree[a].head) \subseteq Within(frozen[a]) \cup Fixed
    BY <1>1, <1>4 DEF WorkOf, IsClean
  <2>2. CarriedBy(a) \subseteq CarriedBy(a)' \cup Fixed'
    BY <1>2, <1>4, <2>1 DEF CarriedBy
  <2>3. WorkOf(a)'
    BY <1>1, <1>2 DEF WorkOf, Status, Paused, Before, Beyond, Landed
  <2> QED BY <2>2, <2>3
<1> QED BY <1>3, <1>4, MovedCarries

LEMMA ReplayCarries ==
  ASSUME Sound, NEW a \in Assignments, Replay(a)
  PROVE  Carries(a)
<1> DEFINE replay == Replayed(ReplayPlan(target, row[a].base, tree[a].head))
           stopped == [done |-> replay.done, left |-> replay.left, staged |-> None]
<1>1. /\ UNCHANGED <<row, frozen, recovery, target, primary, made, waived>>
      /\ At(a, "replay")
  BY DEF Replay, shared, history
<1>2. /\ Status(a, "ready") /\ tree[a].present /\ tree[a].head \in Commits /\ ~Paused(a)
      /\ job[a].at \in Beyond /\ job[a].at \in Before /\ ~job[a].attested
      /\ tree[a] \in Trees /\ tree \in [Assignments -> Trees] /\ job \in [Assignments -> Jobs]
  BY <1>1, SoundFacts
     DEF PartsOf, CellsOf, StageOf, TreeOf, IsIdle, Beyond, Before, Status, At
<1>3. /\ replay \in ReplayStates
      /\ ChangesOf(replay.done) \cup ChangesOf(replay.left)
           \subseteq ChangesOf(target) \cup ChangesOf(tree[a].head)
      /\ ChangesOf(tree[a].head) \subseteq ChangesOf(replay.done) \cup ChangesOf(replay.left)
  BY <1>2, ReplayOnTarget
<1>4. Keeps(a)
  BY ReplayKeeps
<1>5. Within(tree[a].head) = ChangesOf(tree[a].head)
  BY <1>2, NoneAssumption DEF Within
<1>6. CASE BackToFrozen(a)
  BY <1>1, <1>2, <1>4, <1>6, BackCarries
<1>7. ASSUME IsClean(a), Complete(replay), SetTree(a, [tree[a] EXCEPT !.head = replay.done]),
             Goto(a, "prove"), UNCHANGED candidate
      PROVE  Carries(a)
  <2> HIDE DEF replay
  <2>1. /\ tree'[a].head = replay.done /\ tree'[a].dirty = tree[a].dirty
        /\ tree'[a].replay = tree[a].replay
    BY <1>2, <1>7 DEF SetTree, Trees
  <2>2. job'[a].at = "prove"
    BY <1>7, JobMoves DEF Places
  <2>3. /\ Within(replay.done) = ChangesOf(replay.done) /\ ChangesOf(replay.left) = {}
    BY <1>3, <1>7, NoneAssumption, RootFacts DEF Within, ReplayStates, Complete
  <2>4. StockOf(a)' \subseteq StockOf(a) \cup ChangesOf(target)
    BY <1>1, <1>3, <1>5, <1>7, <2>1, <2>3 DEF StockOf, CarriedBy
  <2>5. CarriedBy(a) \subseteq CarriedBy(a)'
    BY <1>3, <1>5, <2>1, <2>3 DEF CarriedBy
  <2>6. ASSUME WorkOf(a), Fixed \subseteq Fixed'
        PROVE  WorkOf(a)'
    <3>1. /\ Within(frozen[a]) \subseteq Within(tree[a].head) \cup Fixed
          /\ Within(tree[a].head) \subseteq Within(frozen[a]) \cup Fixed
      BY <1>2, <2>6 DEF WorkOf
    <3>2. ChangesOf(target) \subseteq Fixed
      BY DEF Fixed
    <3>3. /\ Within(frozen[a]) \subseteq Within(tree'[a].head) \cup Fixed'
          /\ Within(tree'[a].head) \subseteq Within(frozen[a]) \cup Fixed'
      BY <1>3, <1>5, <2>1, <2>3, <2>6, <3>1, <3>2
    <3> QED BY <1>1, <1>2, <1>7, <2>1, <2>2, <3>3 DEF WorkOf, Status, Paused, IsClean, Landed
  <2> QED BY <1>1, <1>4, <2>4, <2>5, <2>6, MovedCarries
<1>8. ASSUME SetTree(a, [tree[a] EXCEPT !.replay = stopped]), Finish(a), UNCHANGED candidate
      PROVE  Carries(a)
  <2>1. stopped.done = replay.done /\ stopped.left = replay.left /\ stopped.staged = None
    OBVIOUS
  <2> HIDE DEF replay, stopped
  <2>2. /\ tree'[a].head = tree[a].head /\ tree'[a].dirty = tree[a].dirty
        /\ tree'[a].replay = stopped
    BY <1>2, <1>8 DEF SetTree, Trees
  <2>3. job'[a].at = "idle"
    BY <1>8, SoundFacts, JobMoves
  <2>4. Underway(tree'[a].replay) \subseteq ChangesOf(target) \cup Within(tree[a].head)
    BY <1>3, <1>5, <2>1, <2>2 DEF Underway, Within
  <2>5. StockOf(a)' \subseteq StockOf(a) \cup ChangesOf(target)
    BY <1>1, <1>8, <2>2, <2>4 DEF StockOf, CarriedBy
  <2>6. CarriedBy(a)' = CarriedBy(a)
    BY <2>2 DEF CarriedBy
  <2>7. ASSUME WorkOf(a), Fixed \subseteq Fixed'
        PROVE  WorkOf(a)'
    <3>1. Within(frozen[a]) \subseteq Within(tree[a].head) \cup Fixed
      BY <1>2, <2>7 DEF WorkOf
    <3>2. /\ Within(tree'[a].head) \subseteq
               ChangesOf(tree'[a].replay.done) \cup ChangesOf(tree'[a].replay.left) \cup Fixed'
          /\ tree'[a].replay.staged = None
      BY <1>3, <1>5, <2>1, <2>2
    <3>3. row'[a].status = "ready"
      BY <1>1, <1>2 DEF Status
    <3> QED BY <1>1, <2>2, <2>3, <2>7, <3>1, <3>2, <3>3
            DEF WorkOf, Status, Before, Beyond, Landed
  <2> QED BY <1>1, <1>4, <2>5, <2>6, <2>7, MovedCarries
<1>9. ASSUME Finish(a), UNCHANGED <<tree, candidate>>
      PROVE  Carries(a)
  <2>1. job'[a].at = "idle"
    BY <1>9, SoundFacts, JobMoves
  <2>2. StockOf(a)' = StockOf(a) /\ CarriedBy(a)' = CarriedBy(a)
    BY <1>1, <1>9 DEF StockOf, CarriedBy
  <2>3. ASSUME WorkOf(a), Fixed \subseteq Fixed'
        PROVE  WorkOf(a)'
    BY <1>1, <1>2, <1>9, <2>1, <2>3 DEF WorkOf, Status, Paused, Before, Beyond, Landed
  <2> QED BY <1>1, <1>4, <2>2, <2>3, MovedCarries
<1> HIDE DEF replay
<1> QED BY <1>6, <1>7, <1>8, <1>9 DEF Replay, replay

LEMMA ProveCarries ==
  ASSUME Sound, NEW a \in Assignments, Prove(a)
  PROVE  Carries(a)
<1>1. CASE SameAsReviewed(a, job[a].expected, tree[a].head)
  BY <1>1, ProveStills, ProveKeeps, StillCarries
<1>2. CASE ~SameAsReviewed(a, job[a].expected, tree[a].head)
  <2>1. /\ BackToFrozen(a) /\ UNCHANGED <<row, frozen, recovery, target, primary, made, waived>>
        /\ At(a, "prove")
    BY <1>2 DEF Prove, shared, history
  <2>2. job[a].at \in Beyond /\ ~job[a].attested
    BY <2>1, SoundFacts DEF PartsOf, StageOf, At, Beyond
  <2> QED BY <2>1, <2>2, BackCarries, ProveKeeps
<1> QED BY <1>1, <1>2

LEMMA AdvanceCarries ==
  ASSUME Sound, NEW a \in Assignments, Advance(a)
  PROVE  Carries(a)
<1>1. CASE MayAdvance(a) \/ job[a].attested
  BY <1>1, AdvanceStills, AdvanceKeeps, StillCarries
<1>2. CASE ~(MayAdvance(a) \/ job[a].attested)
  <2>1. /\ BackToFrozen(a) /\ UNCHANGED <<row, frozen, recovery, target, primary, made, waived>>
        /\ job[a].at \in Beyond
    BY <1>2 DEF Advance, At, Beyond
  <2> QED BY <1>2, <2>1, BackCarries, AdvanceKeeps
<1> QED BY <1>1, <1>2

LEMMA CrashInReplayCarries ==
  ASSUME Sound, NEW a \in Assignments, CrashInReplay(a)
  PROVE  Carries(a)
<1> DEFINE plan == ReplayPlan(target, row[a].base, tree[a].head)
           StoppedAt(k) == [done   |-> plan.done \o SubSeq(plan.left, 1, k - 1),
                            left   |-> SubSeq(plan.left, k, Len(plan.left)),
                            staged |-> <<plan.left[k]>>]
<1>1. /\ UNCHANGED <<row, frozen, candidate, recovery, target, primary, made, waived>>
      /\ At(a, "replay") /\ Finish(a)
  BY DEF CrashInReplay, database, refs, shared
<1>2. /\ Status(a, "ready") /\ tree[a].present /\ tree[a].head \in Commits /\ ~Paused(a)
      /\ tree[a] \in Trees /\ tree \in [Assignments -> Trees] /\ row[a].base \in Commits
      /\ target \in Commits /\ IsAncestor(row[a].base, target)
  BY <1>1, SoundFacts, RowFields
     DEF PartsOf, CellsOf, WorldOK, StageOf, TreeOf, BaseOf, IsIdle, Beyond, Status, At
<1>3. /\ plan \in ReplayStates /\ plan.done = target /\ plan.left \in Commits
      /\ ChangesOf(plan.left) \subseteq ChangesOf(tree[a].head)
      /\ ChangesOf(tree[a].head) \subseteq
           ChangesOf(row[a].base) \cup ChangesOf(target) \cup ChangesOf(plan.left)
  BY <1>2, ReplayPlanFacts DEF ReplayStates
<1>4. ChangesOf(row[a].base) \subseteq ChangesOf(target)
  BY <1>2, AncestorChanges
<1>5. PICK k \in 1..Len(plan.left) : SetTree(a, [tree[a] EXCEPT !.replay = StoppedAt(k)])
  <2>1. /\ Replayed(plan) \in ReplayStates /\ Len(plan.left) \in Nat
        /\ Len(Replayed(plan).left) \in Nat
    BY <1>3, ReplayedFacts, CommitFacts DEF ReplayStates
  <2>2. \E k \in 1..(Len(plan.left) - Len(Replayed(plan).left)) :
           SetTree(a, [tree[a] EXCEPT !.replay = StoppedAt(k)])
    BY DEF CrashInReplay
  <2> HIDE DEF plan, StoppedAt
  <2>3. PICK k \in 1..(Len(plan.left) - Len(Replayed(plan).left)) :
           SetTree(a, [tree[a] EXCEPT !.replay = StoppedAt(k)])
    BY <2>2
  <2>4. k \in 1..Len(plan.left)
    BY <2>1
  <2> QED BY <2>3, <2>4
<1> DEFINE done == plan.done \o SubSeq(plan.left, 1, k - 1)
           left == SubSeq(plan.left, k, Len(plan.left))
           staged == <<plan.left[k]>>
<1>6. /\ StoppedAt(k).done = done /\ StoppedAt(k).left = left /\ StoppedAt(k).staged = staged
  OBVIOUS
<1>7. /\ Len(plan.left) \in Nat /\ k \in Nat \ {0} /\ k - 1 \in Nat /\ k - 1 <= Len(plan.left)
      /\ k <= Len(plan.left) /\ ChangesOf(plan.left) = {plan.left[i].of : i \in 1..Len(plan.left)}
      /\ plan.left[k] \in Patch
  <2>1. Len(plan.left) \in Nat /\ plan.left \in [1..Len(plan.left) -> Patch]
    BY <1>3, CommitFacts, LenProperties DEF Commits
  <2>2. ChangesOf(plan.left) = {plan.left[i].of : i \in 1..Len(plan.left)}
    BY <2>1 DEF ChangesOf
  <2> HIDE DEF plan
  <2> QED BY <1>5, <2>1, <2>2
<1>8. /\ SubSeq(plan.left, 1, k - 1) \in Commits /\ left \in Commits
      /\ ChangesOf(SubSeq(plan.left, 1, k - 1)) = {plan.left[i].of : i \in 1..(k - 1)}
      /\ ChangesOf(left) = {plan.left[i].of : i \in k..Len(plan.left)}
  <2>1. Len(plan.left) \in Nat /\ 1 \in Nat \ {0} /\ Len(plan.left) <= Len(plan.left)
    BY <1>7
  <2>2. /\ SubSeq(plan.left, 1, k - 1) \in Commits
        /\ ChangesOf(SubSeq(plan.left, 1, k - 1)) = {plan.left[i].of : i \in 1..(k - 1)}
    BY <1>3, <1>7, <2>1, SubSeqFacts
  <2>3. /\ left \in Commits
        /\ ChangesOf(left) = {plan.left[i].of : i \in k..Len(plan.left)}
    BY <1>3, <1>7, <2>1, SubSeqFacts
  <2> QED BY <2>2, <2>3
<1>9. ChangesOf(done) = ChangesOf(target) \cup ChangesOf(SubSeq(plan.left, 1, k - 1))
  BY <1>2, <1>3, <1>8, ConcatFacts
<1>10. ChangesOf(staged) = {plan.left[k].of} /\ left[1] = plan.left[k]
  <2>1. ChangesOf(staged) = {plan.left[k].of}
    <3>1. DOMAIN staged = {1} /\ staged[1] = plan.left[k]
      OBVIOUS
    <3> HIDE DEF staged, plan
    <3> QED BY <3>1, Zenon DEF ChangesOf
  <2>2. left[1] = plan.left[k]
    <3> HIDE DEF plan
    <3> QED BY <1>3, <1>7 DEF Commits
  <2> QED BY <2>1, <2>2
<1>11. ChangesOf(plan.left) = ChangesOf(SubSeq(plan.left, 1, k - 1)) \cup ChangesOf(left)
  <2> HIDE DEF plan, left
  <2> QED BY <1>7, <1>8
<1> HIDE DEF StoppedAt
<1>12. /\ tree'[a].head = tree[a].head /\ tree'[a].dirty = tree[a].dirty
       /\ tree'[a].replay = StoppedAt(k)
  BY <1>2, <1>5 DEF SetTree, Trees
<1> HIDE DEF done, left, staged, plan
<1>13. job'[a].at = "idle"
  BY <1>1, SoundFacts, JobMoves
<1>14. /\ Within(tree[a].head) = ChangesOf(tree[a].head)
       /\ Within(staged) = ChangesOf(staged) /\ ChangesOf(staged) \subseteq ChangesOf(plan.left)
  <2>1. staged # None => Within(staged) = ChangesOf(staged)
    BY DEF Within
  <2>2. staged \in Commits
    <3>1. plan.left[k] \in Patch
      BY <1>7
    <3> QED BY <3>1 DEF staged, Commits
  <2> QED BY <1>2, <1>7, <1>10, <2>1, <2>2, NoneAssumption DEF Within
<1>15. Underway(tree'[a].replay) \subseteq ChangesOf(target) \cup Within(tree[a].head)
  BY <1>3, <1>6, <1>9, <1>11, <1>12, <1>14 DEF Underway
<1>16. StockOf(a)' \subseteq StockOf(a) \cup ChangesOf(target)
  BY <1>1, <1>12, <1>15 DEF StockOf, CarriedBy
<1>17. CarriedBy(a)' = CarriedBy(a)
  BY <1>12 DEF CarriedBy
<1>18. ASSUME WorkOf(a), Fixed \subseteq Fixed'
       PROVE  WorkOf(a)'
  <2>1. Within(frozen[a]) \subseteq Within(tree[a].head) \cup Fixed
    BY <1>2, <1>18 DEF WorkOf
  <2>2. /\ Within(tree'[a].head) \subseteq
             ChangesOf(tree'[a].replay.done) \cup ChangesOf(tree'[a].replay.left) \cup Fixed'
        /\ tree'[a].replay.left[1].of \in ChangesOf(tree'[a].replay.staged)
    BY <1>3, <1>4, <1>6, <1>9, <1>10, <1>11, <1>12, <1>14
  <2>3. row'[a].status = "ready"
    BY <1>1, <1>2 DEF Status
  <2> QED BY <1>1, <1>12, <1>13, <1>18, <2>1, <2>2, <2>3
          DEF WorkOf, Status, Before, Beyond, Landed
<1>19. Keeps(a)
  BY CrashInReplayKeeps
<1> QED BY <1>1, <1>16, <1>17, <1>18, <1>19, MovedCarries

\* A ready row whose worktree is put on the target of today.
LEMMA RerebaseCarries ==
  ASSUME Sound, NEW a \in Assignments, Rerebase(a)
  PROVE  Carries(a)
<1> DEFINE replay == Replayed(ReplayPlan(target, row[a].base, tree[a].head))
<1>1. /\ UNCHANGED <<row, frozen, candidate, recovery, target, primary, job, made, waived>>
      /\ Free(a) /\ IsIdle(a) /\ ~Paused(a) /\ Status(a, "ready") /\ tree[a].present
      /\ tree[a].head = frozen[a] /\ IsClean(a) /\ SetTree(a, AfterReplay(a, replay))
  BY DEF Rerebase, AwaitsRecovery, Free, database, refs, shared, history
<1>2. tree[a].head \in Commits
  BY <1>1, SoundFacts DEF PartsOf, TreeOf
<1>3. /\ replay \in ReplayStates
      /\ ChangesOf(replay.done) \cup ChangesOf(replay.left)
           \subseteq ChangesOf(target) \cup ChangesOf(tree[a].head)
      /\ ChangesOf(tree[a].head) \subseteq ChangesOf(replay.done) \cup ChangesOf(replay.left)
  BY <1>2, ReplayOnTarget
<1> HIDE DEF replay
<1>4. Within(tree[a].head) = ChangesOf(tree[a].head) /\ Keeps(a)
  BY <1>2, NoneAssumption, RerebaseKeeps DEF Within
<1>5. job'[a].at = "idle" /\ row'[a].status = "ready"
  BY <1>1 DEF IsIdle, Status
<1>6. CASE /\ Complete(replay) /\ replay.done \in Commits
           /\ TreeIs(a, tree[a].present, replay.done, tree[a].dirty, None)
  <2>1. Within(replay.done) = ChangesOf(replay.done) /\ ChangesOf(replay.left) = {}
    BY <1>6, NoneAssumption, RootFacts DEF Within, Complete
  <2>2. /\ tree'[a].head = replay.done /\ tree'[a].dirty = tree[a].dirty
        /\ tree'[a].replay = None
    BY <1>6 DEF TreeIs
  <2>3. StockOf(a)' \subseteq StockOf(a) \cup ChangesOf(target)
    BY <1>1, <1>3, <1>4, <2>1, <2>2 DEF StockOf, CarriedBy, Underway
  <2>4. CarriedBy(a) \subseteq CarriedBy(a)'
    BY <1>3, <1>4, <2>1, <2>2 DEF CarriedBy
  <2>5. WorkOf(a)'
    BY <1>1, <1>3, <1>4, <1>5, <2>1, <2>2 DEF WorkOf, Status, Paused, Before, Beyond, Landed
  <2> QED BY <1>1, <1>4, <2>3, <2>4, <2>5, MovedCarries
<1>7. ASSUME NEW stopped \in Replays, stopped.done = replay.done, stopped.left = replay.left,
             stopped.staged = None,
             TreeIs(a, tree[a].present, tree[a].head, tree[a].dirty, stopped)
      PROVE  Carries(a)
  <2>1. /\ tree'[a].head = tree[a].head /\ tree'[a].dirty = tree[a].dirty
        /\ tree'[a].replay = stopped
    BY <1>7 DEF TreeIs
  <2>2. Underway(tree'[a].replay) \subseteq ChangesOf(target) \cup Within(tree[a].head)
    BY <1>3, <1>4, <1>7, <2>1 DEF Underway, Within
  <2>3. StockOf(a)' \subseteq StockOf(a) \cup ChangesOf(target)
    BY <1>1, <2>1, <2>2 DEF StockOf, CarriedBy
  <2>4. CarriedBy(a)' = CarriedBy(a)
    BY <2>1 DEF CarriedBy
  <2>5. Within(tree'[a].head) \subseteq
          ChangesOf(tree'[a].replay.done) \cup ChangesOf(tree'[a].replay.left) \cup Fixed'
    BY <1>3, <1>4, <1>7, <2>1
  <2>6. tree'[a].replay.staged = None
    BY <1>7, <2>1
  <2>7. Within(frozen'[a]) \subseteq Within(tree'[a].head)
    BY <1>1, <2>1
  <2>8. WorkOf(a)'
    BY <1>5, <2>5, <2>6, <2>7 DEF WorkOf, Status, Paused, Before, Beyond, Landed
  <2> QED BY <1>1, <1>4, <2>3, <2>4, <2>8, MovedCarries
<1> QED BY <1>1, <1>2, <1>3, <1>6, <1>7, AfterReplayIs

LEMMA RestoreFrozenCarries ==
  ASSUME Sound, NEW a \in Assignments, RestoreFrozen(a)
  PROVE  Carries(a)
<1>1. /\ UNCHANGED <<row, frozen, candidate, recovery, target, primary, job, made>>
      /\ IsIdle(a) /\ ~Paused(a) /\ Status(a, "ready") /\ IsClean(a) /\ tree[a].present
      /\ SetTree(a, ResetTo(a, frozen[a]))
      /\ waived' = waived \cup ((ChangesOf(tree[a].head) \ ChangesOf(frozen[a])) \X {"restore"})
  BY DEF RestoreFrozen, AwaitsRecovery, Free, database, refs, shared
<1>2. /\ tree[a] \in Trees /\ tree \in [Assignments -> Trees] /\ tree[a].head \in Commits
      /\ frozen[a] \in Commits
  BY <1>1, SoundFacts DEF CellsOf, PartsOf, TreeOf, RowOf, Status
<1>3. /\ tree'[a].dirty = {} /\ tree'[a].head = frozen[a] /\ tree'[a].replay = tree[a].replay
  BY <1>1, <1>2 DEF SetTree, Trees, ResetTo
<1>4. StockOf(a)' \subseteq StockOf(a)
  BY <1>1, <1>3 DEF StockOf, CarriedBy
<1>5. /\ Within(tree[a].head) = ChangesOf(tree[a].head)
      /\ Within(frozen[a]) = ChangesOf(frozen[a])
  BY <1>2, NoneAssumption DEF Within
<1>6. ChangesOf(tree[a].head) \ ChangesOf(frozen[a]) \subseteq Fixed'
  <2>1. ASSUME NEW c \in ChangesOf(tree[a].head) \ ChangesOf(frozen[a])
        PROVE  c \in {w[1] : w \in waived'}
    <3>1. <<c, "restore">> \in waived' /\ <<c, "restore">>[1] = c
      BY <1>1
    <3> QED BY <3>1
  <2>2. {w[1] : w \in waived'} \subseteq Fixed'
    BY Zenon DEF Fixed
  <2> QED BY <2>1, <2>2
<1>7. CarriedBy(a) \subseteq CarriedBy(a)' \cup Fixed'
  BY <1>1, <1>3, <1>5, <1>6 DEF CarriedBy, IsClean
<1>8. WorkOf(a)'
  BY <1>1, <1>3 DEF WorkOf, IsIdle, Status, Paused, Before, Beyond, Landed
<1>9. Keeps(a)
  BY RestoreFrozenKeeps
<1> QED BY <1>1, <1>4, <1>7, <1>8, <1>9, MovedCarries

LEMMA AbortReplayCarries ==
  ASSUME Sound, NEW a \in Assignments, AbortReplay(a)
  PROVE  Carries(a)
<1>1. /\ UNCHANGED <<row, frozen, candidate, recovery, target, primary, job, made, waived>>
      /\ IsIdle(a) /\ Status(a, "ready") /\ SetTree(a, [tree[a] EXCEPT !.replay = None])
  BY DEF AbortReplay, database, refs, shared, history
<1>2. tree[a] \in Trees /\ tree \in [Assignments -> Trees]
  BY SoundFacts DEF CellsOf
<1>3. /\ tree'[a].dirty = tree[a].dirty /\ tree'[a].head = tree[a].head /\ tree'[a].replay = None
  BY <1>1, <1>2 DEF SetTree, Trees
<1>4. StockOf(a)' \subseteq StockOf(a) /\ CarriedBy(a)' = CarriedBy(a)
  BY <1>1, <1>3 DEF StockOf, CarriedBy, Underway
<1>5. ASSUME WorkOf(a), Fixed \subseteq Fixed'
      PROVE  WorkOf(a)'
  BY <1>1, <1>3, <1>5 DEF WorkOf, IsIdle, Status, Paused, Before, Beyond, Landed
<1>6. Keeps(a)
  BY AbortReplayKeeps
<1> QED BY <1>1, <1>4, <1>5, <1>6, MovedCarries

-----------------------------------------------------------------------------
(* A stopped replay: a resolution takes the place of the patch it stopped   *)
(* at, and a change that the resolution leaves out was given up.            *)

\* The replay goes on with a resolution that has the change of the patch it
\* stopped at, or where that change need not be kept any more.
LEMMA ResolvedCarries ==
  ASSUME Sound, NEW a \in Assignments, Paused(a), Keeps(a), NEW resolution \in Commits,
         SetTree(a, AfterReplay(a, Resolved(Stopped(a), resolution))),
         UNCHANGED <<row, frozen, recovery, target, primary, made>>, waived \subseteq waived',
         \/ candidate' = candidate
         \/ candidate'[a] = Resolved(Stopped(a), resolution).done,
         ChangesOf(resolution) \subseteq {tree[a].replay.left[1].of} \cup Underway(tree[a].replay),
         WorkOf(a) => tree[a].replay.left[1].of \in ChangesOf(resolution) \cup Fixed',
         job'[a].at = "idle" \/ (job'[a].at = "lock" /\ job'[a].attested)
  PROVE  Carries(a)
<1> DEFINE replay == Resolved(Stopped(a), resolution)
           old == tree[a].replay
           first == old.left[1].of
<1>1. /\ Status(a, "ready") /\ tree[a].head \in Commits /\ Stopped(a) \in ReplayStates
      /\ Stopped(a).left = old.left /\ Stopped(a).left # Root /\ Stopped(a).done = old.done
  BY PausedFacts DEF Stopped
<1>2. /\ replay \in ReplayStates
      /\ ChangesOf(replay.done) \cup ChangesOf(replay.left) \cup {first}
           = ChangesOf(old.done) \cup ChangesOf(old.left) \cup ChangesOf(resolution)
      /\ ChangesOf(old.done) \cup ChangesOf(resolution)
           \subseteq ChangesOf(replay.done) \cup ChangesOf(replay.left)
  <2> DEFINE r == Stopped(a)
  <2>1. r \in ReplayStates /\ r.left # Root /\ r.left = old.left /\ r.done = old.done
    BY <1>1
  <2> HIDE DEF r, old
  <2>2. /\ Resolved(r, resolution) \in ReplayStates
        /\ ChangesOf(Resolved(r, resolution).done) \cup ChangesOf(Resolved(r, resolution).left)
             \cup {r.left[1].of}
           = ChangesOf(r.done) \cup ChangesOf(r.left) \cup ChangesOf(resolution)
        /\ ChangesOf(r.done) \cup ChangesOf(resolution)
             \subseteq ChangesOf(Resolved(r, resolution).done)
                          \cup ChangesOf(Resolved(r, resolution).left)
    BY <2>1, ResolvedFacts
  <2> QED BY <2>1, <2>2 DEF r
<1> HIDE DEF replay
<1>3. /\ Within(tree[a].head) = ChangesOf(tree[a].head)
      /\ ChangesOf(old.done) \cup ChangesOf(old.left) \subseteq Underway(old)
  BY <1>1, NoneAssumption DEF Within, Underway, Paused
<1>4. first \in Underway(old)
  <2>1. old.left \in Commits /\ old.left # Root /\ 1 \in 1..Len(old.left)
    BY <1>1, CommitFacts, RootFacts DEF ReplayStates
  <2>2. first \in ChangesOf(old.left)
    BY <2>1, CommitFacts DEF ChangesOf
  <2> QED BY <1>3, <2>2
<1>5. ChangesOf(replay.done) \cup ChangesOf(replay.left) \subseteq Underway(old)
  BY <1>2, <1>3, <1>4
<1>6. ASSUME WorkOf(a), Fixed \subseteq Fixed'
      PROVE  /\ Within(tree[a].head) \subseteq
                  ChangesOf(replay.done) \cup ChangesOf(replay.left) \cup Fixed'
             /\ Within(frozen[a]) \subseteq Within(tree[a].head) \cup Fixed'
  <2>1. /\ Within(tree[a].head) \subseteq ChangesOf(old.done) \cup ChangesOf(old.left) \cup Fixed
        /\ Within(frozen[a]) \subseteq Within(tree[a].head) \cup Fixed
    BY <1>1, <1>6 DEF WorkOf
  <2>2. first \in ChangesOf(resolution) \cup Fixed'
    BY <1>6
  <2>3. first \in ChangesOf(replay.done) \cup ChangesOf(replay.left) \cup Fixed'
    BY <1>2, <2>2
  <2>4. ChangesOf(old.done) \cup ChangesOf(old.left)
          \subseteq ChangesOf(replay.done) \cup ChangesOf(replay.left) \cup Fixed'
    BY <1>2, <2>3
  <2> QED BY <1>6, <2>1, <2>4
<1>7. row'[a].status = "ready"
  BY <1>1 DEF Status
<1>8. job'[a].at \notin Landed /\ ~(job'[a].at \in Before /\ ~job'[a].attested)
  BY DEF Before, Beyond, Landed
<1>9. \/ /\ Complete(replay) /\ replay.done \in Commits
         /\ TreeIs(a, tree[a].present, replay.done, tree[a].dirty, None)
      \/ /\ ~Complete(replay)
         /\ \E stopped \in Replays :
              /\ stopped.done = replay.done /\ stopped.left = replay.left
              /\ stopped.staged = None /\ stopped.left # Root
              /\ TreeIs(a, tree[a].present, tree[a].head, tree[a].dirty, stopped)
  BY <1>1, <1>2, AfterReplayIs DEF replay
<1>10. candidate'[a] = candidate[a] \/ candidate'[a] = replay.done
  BY DEF replay
<1>11. Within(replay.done) = ChangesOf(replay.done)
  BY <1>2, NoneAssumption DEF Within, ReplayStates
<1> HIDE DEF first
<1>12. CASE /\ Complete(replay) /\ replay.done \in Commits
            /\ TreeIs(a, tree[a].present, replay.done, tree[a].dirty, None)
  <2>1. ChangesOf(replay.left) = {}
    BY <1>12, RootFacts DEF Complete
  <2>2. tree'[a].head = replay.done /\ tree'[a].dirty = tree[a].dirty /\ tree'[a].replay = None
    BY <1>12 DEF TreeIs
  <2>3. Underway(tree'[a].replay) = {}
    BY <2>2 DEF Underway
  <2>4. StockOf(a)' \subseteq StockOf(a)
    BY <1>5, <1>10, <1>11, <2>2, <2>3 DEF StockOf, CarriedBy
  <2>5. ASSUME WorkOf(a), Fixed \subseteq Fixed'
        PROVE  CarriedBy(a) \subseteq (CarriedBy(a)' \cup Fixed') /\ WorkOf(a)'
    <3>1. CarriedBy(a) \subseteq CarriedBy(a)' \cup Fixed'
      BY <1>6, <1>11, <2>1, <2>2, <2>5 DEF CarriedBy
    <3>2. Within(frozen'[a]) \subseteq Within(tree'[a].head) \cup Fixed'
      BY <1>6, <1>11, <2>1, <2>2, <2>5
    <3>3. WorkOf(a)'
      BY <1>7, <1>8, <2>2, <3>2 DEF WorkOf, Status, Paused
    <3> QED BY <3>1, <3>3
  <2> QED BY <2>4, <2>5, MovedCarries
<1>13. ASSUME NEW stopped \in Replays, stopped.done = replay.done, stopped.left = replay.left,
              stopped.staged = None,
              TreeIs(a, tree[a].present, tree[a].head, tree[a].dirty, stopped)
       PROVE  Carries(a)
  <2>1. /\ tree'[a].head = tree[a].head /\ tree'[a].dirty = tree[a].dirty
        /\ tree'[a].replay = stopped
    BY <1>13 DEF TreeIs
  <2>2. Underway(tree'[a].replay) \subseteq Underway(old)
    <3>1. Underway(stopped) \subseteq ChangesOf(replay.done) \cup ChangesOf(replay.left)
      BY <1>13 DEF Underway, Within
    <3> QED BY <1>5, <2>1, <3>1
  <2>3. StockOf(a)' \subseteq StockOf(a)
    BY <1>5, <1>10, <1>11, <2>1, <2>2 DEF StockOf, CarriedBy
  <2>4. CarriedBy(a)' = CarriedBy(a)
    BY <2>1 DEF CarriedBy
  <2>5. ASSUME WorkOf(a), Fixed \subseteq Fixed'
        PROVE  WorkOf(a)'
    <3>1. Within(tree'[a].head) \subseteq
            ChangesOf(tree'[a].replay.done) \cup ChangesOf(tree'[a].replay.left) \cup Fixed'
      BY <1>6, <1>13, <2>1, <2>5
    <3>2. tree'[a].replay.staged = None
      BY <1>13, <2>1
    <3>3. Within(frozen'[a]) \subseteq Within(tree'[a].head) \cup Fixed'
      BY <1>6, <2>1, <2>5
    <3> QED BY <1>7, <1>8, <3>1, <3>2, <3>3 DEF WorkOf, Status, Paused
  <2> QED BY <2>3, <2>4, <2>5, MovedCarries
<1> QED BY <1>9, <1>12, <1>13

\* How a resolution may be, and what is given up by it.
LEMMA ResolutionFacts ==
  ASSUME Sound, NEW a \in Assignments, Paused(a), NEW resolution \in Resolutions(a)
  PROVE  LET first == tree[a].replay.left[1].of IN
         /\ resolution \in Commits /\ ChangesOf(resolution) \subseteq {first}
         /\ Waive(a, resolution) =>
              /\ waived \subseteq waived'
              /\ first \in ChangesOf(resolution) \cup Fixed'
<1> DEFINE p == tree[a].replay.left[1]
           reworked == <<Reworked(p)>>
<1>1. p \in Patch /\ resolution \in Commits
  BY PausedFacts
<1>2. ChangesOf(reworked) = {p.of}
  <2>1. Reworked(p).of = p.of
    BY <1>1 DEF Reworked, Patch
  <2>2. DOMAIN reworked = {1} /\ reworked[1] = Reworked(p)
    OBVIOUS
  <2> HIDE DEF reworked, p
  <2>3. ChangesOf(reworked) = {Reworked(p).of}
    BY <2>2, Zenon DEF ChangesOf
  <2> QED BY <2>1, <2>3
<1>3. resolution = Root \/ resolution = reworked
  BY DEF Resolutions
<1>4. waived \subseteq waived' => {w[1] : w \in waived'} \subseteq Fixed'
  BY Zenon DEF Fixed
<1>5. Waive(a, resolution) => waived \subseteq waived'
  BY DEF Waive
<1>6. Waive(a, resolution) /\ resolution = Root => p.of \in {w[1] : w \in waived'}
  <2>1. Waive(a, resolution) /\ resolution = Root => <<p.of, "resolution">> \in waived'
    BY DEF Waive
  <2>2. <<p.of, "resolution">>[1] = p.of
    OBVIOUS
  <2> HIDE DEF p
  <2> QED BY <2>1, <2>2
<1> HIDE DEF p, reworked
<1>7. CASE resolution = Root
  BY <1>1, <1>4, <1>5, <1>6, <1>7, RootFacts DEF p
<1>8. CASE resolution = reworked
  BY <1>1, <1>2, <1>5, <1>8 DEF p
<1> QED BY <1>3, <1>7, <1>8

LEMMA ResolveByHandCarries ==
  ASSUME Sound, NEW a \in Assignments, NEW resolution \in Resolutions(a),
         ResolveByHand(a, resolution)
  PROVE  Carries(a)
<1> DEFINE old == tree[a].replay
<1>1. /\ UNCHANGED <<row, frozen, candidate, recovery, target, primary, job, made>>
      /\ IsIdle(a) /\ Paused(a) /\ Waive(a, resolution)
      /\ SetTree(a, [tree[a] EXCEPT !.replay.staged = resolution])
  BY DEF ResolveByHand, database, refs, shared
<1>2. /\ tree[a] \in Trees /\ tree \in [Assignments -> Trees] /\ old \in Replays
      /\ Status(a, "ready") /\ tree[a].head \in Commits
  BY <1>1, PausedFacts, SoundFacts DEF CellsOf
<1>3. /\ resolution \in Commits /\ ChangesOf(resolution) \subseteq {old.left[1].of}
      /\ waived \subseteq waived' /\ old.left[1].of \in ChangesOf(resolution) \cup Fixed'
  BY <1>1, ResolutionFacts
<1>4. /\ tree'[a].dirty = tree[a].dirty /\ tree'[a].head = tree[a].head
      /\ tree'[a].replay = [old EXCEPT !.staged = resolution]
  BY <1>1, <1>2 DEF SetTree, Trees
<1>5. /\ tree'[a].replay.done = old.done /\ tree'[a].replay.left = old.left
      /\ tree'[a].replay.staged = resolution
  BY <1>2, <1>4 DEF Replays
<1>6. /\ Within(resolution) = ChangesOf(resolution)
      /\ ChangesOf(old.done) \cup ChangesOf(old.left) \subseteq Underway(old)
  BY <1>1, <1>3, NoneAssumption DEF Within, Underway, Paused
<1>7. old.left[1].of \in ChangesOf(old.left)
  <2>1. old.left \in Commits /\ old.left # Root
    BY <1>1, <1>2, PausedFacts DEF Replays
  <2>2. 1 \in 1..Len(old.left)
    BY <2>1, CommitFacts, RootFacts
  <2> QED BY <2>1, <2>2, CommitFacts DEF ChangesOf
<1>8. Underway(tree'[a].replay) \subseteq Underway(old)
  <2>1. Underway(tree'[a].replay) \subseteq
          ChangesOf(old.done) \cup ChangesOf(old.left) \cup ChangesOf(resolution)
    BY <1>5, <1>6 DEF Underway
  <2> QED BY <1>3, <1>6, <1>7, <2>1
<1> HIDE DEF old
<1>9. StockOf(a)' \subseteq StockOf(a)
  BY <1>1, <1>4, <1>8 DEF StockOf, CarriedBy, old
<1>10. CarriedBy(a)' = CarriedBy(a)
  BY <1>4 DEF CarriedBy
<1>11. ASSUME WorkOf(a), Fixed \subseteq Fixed'
       PROVE  WorkOf(a)'
  <2>1. /\ Within(tree'[a].head) \subseteq
             ChangesOf(tree'[a].replay.done) \cup ChangesOf(tree'[a].replay.left) \cup Fixed'
        /\ Within(frozen[a]) \subseteq Within(tree[a].head) \cup Fixed
    BY <1>1, <1>2, <1>4, <1>5, <1>11 DEF WorkOf, old
  <2>2. tree'[a].replay.left[1].of \in ChangesOf(tree'[a].replay.staged) \cup Fixed'
    BY <1>3, <1>5
  <2>3. row'[a].status = "ready" /\ job'[a].at = "idle"
    BY <1>1, <1>2 DEF Status, IsIdle
  <2> QED BY <1>1, <1>4, <1>11, <2>1, <2>2, <2>3 DEF WorkOf, Status, Before, Beyond, Landed
<1>12. Keeps(a)
  BY ResolveByHandKeeps
<1> QED BY <1>1, <1>3, <1>9, <1>10, <1>11, <1>12, MovedCarries

LEMMA ResolveHunkCarries ==
  ASSUME Sound, NEW a \in Assignments, NEW resolution \in Resolutions(a),
         ResolveHunk(a, resolution)
  PROVE  Carries(a)
<1>1. /\ UNCHANGED <<row, frozen, recovery, target, primary, job, made>>
      /\ IsIdle(a) /\ Paused(a) /\ Waive(a, resolution)
      /\ SetTree(a, AfterReplay(a, Resolved(Stopped(a), resolution)))
      /\ \/ candidate' = candidate
         \/ SetCandidate(a, Resolved(Stopped(a), resolution).done)
  BY DEF ResolveHunk, database, shared
<1>2. candidate' = candidate \/ candidate'[a] = Resolved(Stopped(a), resolution).done
  BY <1>1, SoundFacts DEF SetCandidate
<1>3. /\ resolution \in Commits /\ ChangesOf(resolution) \subseteq {tree[a].replay.left[1].of}
      /\ waived \subseteq waived'
      /\ tree[a].replay.left[1].of \in ChangesOf(resolution) \cup Fixed'
  BY <1>1, ResolutionFacts
<1>4. job'[a].at = "idle"
  BY <1>1 DEF IsIdle
<1>5. Keeps(a)
  BY ResolveHunkKeeps
<1> QED BY <1>1, <1>2, <1>3, <1>4, <1>5, ResolvedCarries

LEMMA ContinueReplayCarries ==
  ASSUME Sound, NEW a \in Assignments, ContinueReplay(a)
  PROVE  Carries(a)
<1> DEFINE resolution == tree[a].replay.staged
<1>1. /\ UNCHANGED <<row, frozen, recovery, target, primary, made, waived>>
      /\ IsIdle(a) /\ Paused(a) /\ resolution # None
      /\ SetTree(a, AfterReplay(a, Resolved(Stopped(a), resolution)))
      /\ \/ UNCHANGED <<candidate, job>>
         \/ /\ SetCandidate(a, Resolved(Stopped(a), resolution).done)
            /\ Attested(a, "reconcile")
  BY DEF ContinueReplay, database, shared, history
<1>2. candidate' = candidate \/ candidate'[a] = Resolved(Stopped(a), resolution).done
  BY <1>1, SoundFacts DEF SetCandidate
<1>3. resolution \in Commits /\ ChangesOf(resolution) \subseteq Underway(tree[a].replay)
  <2>1. tree[a].replay \in Replays
    BY <1>1, PausedFacts
  <2>2. resolution \in Commits
    BY <1>1, <2>1 DEF Replays
  <2> QED BY <1>1, <2>2 DEF Underway, Within, Paused
<1>4. Fixed \subseteq Fixed'
  <2>1. target \in Commits /\ target' \in Commits /\ IsAncestor(target, target')
    BY <1>1, AncestorReflexive DEF Sound, TypeOK
  <2> QED BY <1>1, <2>1, FixedGrows
<1>5. WorkOf(a) => tree[a].replay.left[1].of \in ChangesOf(resolution) \cup Fixed'
  BY <1>1, <1>4 DEF WorkOf
<1>6. job'[a].at = "idle" \/ (job'[a].at = "lock" /\ job'[a].attested)
  BY <1>1, SoundFacts, JobMoves DEF IsIdle, AllOps
<1>7. Keeps(a)
  BY ContinueReplayKeeps
<1> HIDE DEF resolution
<1> QED BY <1>1, <1>2, <1>3, <1>5, <1>6, <1>7, ResolvedCarries

-----------------------------------------------------------------------------
(* A worktree that is removed or put forward: the target has what it held.  *)

LEMMA PutAwayCarries ==
  ASSUME Sound, NEW a \in Assignments, Keeps(a), Status(a, "integrated"),
         UNCHANGED <<frozen, candidate, recovery, target, primary, made, waived>>,
         row'[a].status = "integrated", job'[a].at \notin Before \cup Landed,
         tree'[a].dirty = tree[a].dirty, tree'[a].replay = tree[a].replay,
         tree'[a].head \in {None, tree[a].head, candidate[a]},
         WorkOf(a) /\ tree'[a].head # tree[a].head => Within(tree[a].head) \subseteq Fixed
  PROVE  Carries(a)
<1>1. ~Paused(a)
  BY SoundFacts DEF PartsOf, TreeOf, Status
<1>2. StockOf(a)' \subseteq StockOf(a)
  BY DEF StockOf, CarriedBy, Within
<1>3. ASSUME WorkOf(a), Fixed \subseteq Fixed'
      PROVE  CarriedBy(a) \subseteq (CarriedBy(a)' \cup Fixed') /\ WorkOf(a)'
  <2>1. CarriedBy(a) \subseteq CarriedBy(a)' \cup Fixed'
    BY <1>3 DEF CarriedBy
  <2>2. WorkOf(a)'
    BY <1>1, <1>3 DEF WorkOf, Status, Paused
  <2> QED BY <2>1, <2>2
<1> QED BY <1>2, <1>3, MovedCarries

\* The HEAD of an integrated row, where it is not the commit integrated, was
\* set back to the frozen one.
LEMMA HealedFacts ==
  ASSUME Sound, NEW a \in Assignments, Status(a, "integrated"), PushRefsAgree(a)
  PROVE  /\ Healed(a) \in {tree[a].head, candidate[a]}
         /\ WorkOf(a) /\ Healed(a) # tree[a].head => Within(tree[a].head) \subseteq Fixed
         /\ WorkOf(a) /\ Healed(a) = row[a].integrated =>
              Within(tree[a].head) \subseteq Fixed
<1>1. /\ candidate[a] \in Commits /\ row[a].integrated = candidate[a] /\ target \in Commits
      /\ IsAncestor(candidate[a], target)
  BY SoundFacts DEF PartsOf, RowOf, WorldOK, HasIntegrationProof
<1>2. Within(candidate[a]) \subseteq Fixed
  BY <1>1, AncestorChanges, NoneAssumption DEF Within, Fixed
<1>3. \/ Healed(a) = tree[a].head
      \/ Healed(a) = row[a].integrated /\ tree[a].head = frozen[a]
  BY DEF Healed, PushRefsAgree
<1>4. WorkOf(a) => Within(frozen[a]) \subseteq Fixed
  BY DEF WorkOf
<1> QED BY <1>1, <1>2, <1>3, <1>4

LEMMA ReleaseCarries ==
  ASSUME Sound, NEW a \in Assignments, Release(a)
  PROVE  Carries(a)
<1>1. /\ UNCHANGED <<row, frozen, candidate, recovery, target, primary, made, waived>>
      /\ At(a, "release")
  BY DEF Release, database, refs, shared, history
<1>2. /\ Status(a, "integrated") /\ tree[a] \in Trees /\ tree \in [Assignments -> Trees]
      /\ candidate[a] \in Commits /\ row[a].integrated = candidate[a]
      /\ IsAncestor(candidate[a], target) /\ target \in Commits
  BY <1>1, SoundFacts DEF CellsOf, PartsOf, StageOf, RowOf, HasIntegrationProof, WorldOK, Status, At
<1>3. job'[a].at \in {"retire", "idle"}
  BY SoundFacts, JobMoves DEF Release, Places
<1>4. \/ UNCHANGED tree
      \/ /\ SetTree(a, Removed(a)) /\ IsClean(a) /\ tree[a].head = row[a].integrated
  BY DEF Release
<1>5. /\ tree'[a].dirty = tree[a].dirty /\ tree'[a].replay = tree[a].replay
      /\ tree'[a].head \in {None, tree[a].head}
      /\ tree'[a].head # tree[a].head => tree[a].head = row[a].integrated
  <2>1. CASE UNCHANGED tree
    BY <2>1
  <2>2. CASE SetTree(a, Removed(a)) /\ IsClean(a) /\ tree[a].head = row[a].integrated
    BY <1>2, <2>2 DEF SetTree, Removed, Trees, IsClean
  <2> QED BY <1>4, <2>1, <2>2
<1>6. Within(candidate[a]) \subseteq Fixed
  BY <1>2, AncestorChanges, NoneAssumption DEF Within, Fixed
<1>7. Keeps(a)
  BY ReleaseKeeps
<1>8. row'[a].status = "integrated"
  BY <1>1, <1>2 DEF Status
<1>9. job'[a].at \notin Before \cup Landed
  BY <1>3 DEF Before, Beyond, Landed
<1> QED BY <1>1, <1>2, <1>5, <1>6, <1>7, <1>8, <1>9, PutAwayCarries

LEMMA CloseCarries ==
  ASSUME Sound, NEW a \in Assignments, Close(a)
  PROVE  Carries(a)
<1>1. /\ UNCHANGED <<frozen, candidate, recovery, target, primary, made, waived>>
      /\ At(a, "close")
  BY DEF Close, refs, shared, history
<1>2. /\ Status(a, "integrated") /\ tree[a] \in Trees /\ tree \in [Assignments -> Trees]
      /\ row[a] \in Rows /\ row \in [Assignments -> Rows]
  BY <1>1, SoundFacts DEF CellsOf, PartsOf, StageOf, Status, At
<1>3. job'[a].at \in {"retire", "idle"}
  BY SoundFacts, JobMoves DEF Close, Places
<1>4. \/ /\ PushRefsAgree(a)
         /\ \/ SetTree(a, Removed(a)) /\ IsClean(a) /\ Healed(a) = row[a].integrated
            \/ SetTree(a, [tree[a] EXCEPT !.head = Healed(a)])
      \/ UNCHANGED tree
  BY DEF Close
<1>5. row'[a].status = "integrated"
  <2>1. CASE row' = row
    BY <1>2, <2>1 DEF Status
  <2>2. ASSUME NEW debt, SetRow(a, [row[a] EXCEPT !.debt = debt])
        PROVE  row'[a].status = "integrated"
    <3>1. [row[a] EXCEPT !.debt = debt].status = row[a].status
      BY <1>2 DEF Rows
    <3> QED BY <1>2, <2>2, <3>1 DEF SetRow, Status
  <2> QED BY <2>1, <2>2 DEF Close
<1>6. /\ tree'[a].dirty = tree[a].dirty /\ tree'[a].replay = tree[a].replay
      /\ tree'[a].head \in {None, tree[a].head, candidate[a]}
      /\ WorkOf(a) /\ tree'[a].head # tree[a].head => Within(tree[a].head) \subseteq Fixed
  <2>1. CASE UNCHANGED tree
    BY <2>1
  <2>2. CASE PushRefsAgree(a) /\ SetTree(a, Removed(a)) /\ IsClean(a) /\ Healed(a) = row[a].integrated
    BY <1>2, <2>2, HealedFacts DEF SetTree, Removed, Trees, IsClean
  <2>3. CASE PushRefsAgree(a) /\ SetTree(a, [tree[a] EXCEPT !.head = Healed(a)])
    BY <1>2, <2>3, HealedFacts DEF SetTree, Trees
  <2> QED BY <1>4, <2>1, <2>2, <2>3
<1>7. Keeps(a)
  BY CloseKeeps
<1>8. job'[a].at \notin Before \cup Landed
  BY <1>3 DEF Before, Beyond, Landed
<1> QED BY <1>1, <1>2, <1>5, <1>6, <1>7, <1>8, PutAwayCarries

LEMMA ReconcileIntegratedCarries ==
  ASSUME Sound, NEW a \in Assignments, ReconcileIntegrated(a)
  PROVE  Carries(a)
<1>1. /\ UNCHANGED <<frozen, candidate, recovery, target, primary, made, waived>>
      /\ IsIdle(a) /\ Status(a, "integrated") /\ PushRefsAgree(a)
      /\ SetTree(a, [tree[a] EXCEPT !.head = Healed(a)])
      /\ row' = row \/ SetRow(a, [row[a] EXCEPT !.debt = None])
      /\ \/ UNCHANGED job
         \/ job' = [job EXCEPT ![a] = [Idle EXCEPT !.at = "recycle", !.op = "reconcile"]]
  BY DEF ReconcileIntegrated, Free, refs, shared, history
<1>2. /\ tree[a] \in Trees /\ tree \in [Assignments -> Trees] /\ job \in [Assignments -> Jobs]
      /\ row[a] \in Rows /\ row \in [Assignments -> Rows]
  BY <1>1, SoundFacts DEF CellsOf
<1>3. job'[a].at \in {"recycle", "idle"}
  BY <1>1, <1>2 DEF Idle, IsIdle
<1>4. row'[a].status = "integrated"
  <2>1. [row[a] EXCEPT !.debt = None].status = row[a].status
    BY <1>2 DEF Rows
  <2> QED BY <1>1, <1>2, <2>1 DEF SetRow, Status
<1>5. /\ tree'[a].dirty = tree[a].dirty /\ tree'[a].replay = tree[a].replay
      /\ tree'[a].head = Healed(a)
  BY <1>1, <1>2 DEF SetTree, Trees
<1>6. /\ tree'[a].head \in {None, tree[a].head, candidate[a]}
      /\ WorkOf(a) /\ tree'[a].head # tree[a].head => Within(tree[a].head) \subseteq Fixed
  BY <1>1, <1>5, HealedFacts
<1>7. Keeps(a)
  BY ReconcileIntegratedKeeps
<1>8. job'[a].at \notin Before \cup Landed
  BY <1>3 DEF Before, Beyond, Landed
<1> QED BY <1>1, <1>4, <1>5, <1>6, <1>7, <1>8, PutAwayCarries

-----------------------------------------------------------------------------
(* Every step of an assignment, and of the others.                          *)

LEMMA BeginCarries ==
  ASSUME Sound, NEW a \in Assignments, Begin(a)
  PROVE  Carries(a) /\ Keeps(a)
<1>1. Work[a] \subseteq Changes
  BY FinalizationAssumption
<1>2. ASSUME NEW c \in Work[a],
             \/ Edit(a, c) \/ CommitAndStay(a, c) \/ BeginPush(a, c)
             \/ \E op \in AllOps : BeginCommander(a, c, op) \/ BeginRepair(a, c, op)
      PROVE  Carries(a)
  <2>1. CASE Edit(a, c)
    BY <2>1, EditCarries
  <2>2. CASE CommitAndStay(a, c) \/ BeginPush(a, c) \/ \E op \in AllOps : BeginCommander(a, c, op)
    <3>1. c \in tree[a].dirty
      BY <2>2 DEF CommitAndStay, BeginPush, BeginCommander
    <3> QED BY <2>2, <3>1, CommitCarries
  <2>3. CASE \E op \in AllOps : BeginRepair(a, c, op)
    <3>1. PICK op \in AllOps : BeginRepair(a, c, op)
      BY <2>3
    <3>2. c \in tree[a].dirty
      BY <3>1 DEF BeginRepair
    <3> QED BY <3>1, <3>2, BeginRepairCarries
  <2> QED BY <1>2, <2>1, <2>2, <2>3
<1>3. Keeps(a)
  BY BeginKeeps
<1>4. ASSUME BeginReconcile(a) \/ BeginReconcileReady(a) \/ BeginConfirm(a)
      PROVE  Carries(a)
  BY <1>3, <1>4, BeginStills, StillCarries
<1> QED BY <1>2, <1>3, <1>4, BeginCloseOutCarries DEF Begin

LEMMA StepCarries ==
  ASSUME Sound, NEW a \in Assignments, Step(a)
  PROVE  Carries(a) /\ Keeps(a)
<1>1. Keeps(a)
  BY StepKeeps
<1>2. ASSUME Still(a)
      PROVE  Carries(a)
  BY <1>1, <1>2, StillCarries
<1> QED BY <1>1, <1>2, FreezeStills, AcquireLockStills, ReplayCarries, ProveCarries,
           AdvanceCarries, CarryStills, RecordStills, SettlingStills, ReleaseCarries,
           CloseCarries DEF Step

LEMMA RecoverCarries ==
  ASSUME Sound, NEW a \in Assignments, Recover(a)
  PROVE  Carries(a) /\ Keeps(a)
<1>1. Keeps(a)
  BY RecoverKeeps
<1>2. ASSUME Still(a)
      PROVE  Carries(a)
  BY <1>1, <1>2, StillCarries
<1> QED BY <1>1, <1>2, ReconcileLandedStills, ReconcileFrozenStills, SettlingStills,
           ReconcileIntegratedCarries, ResolveByHandCarries, ResolveHunkCarries,
           ContinueReplayCarries, AbortReplayCarries, RerebaseCarries, RestoreFrozenCarries,
           ReopenCarries, SyncCarries DEF Recover

-----------------------------------------------------------------------------
(* No change is lost.                                                       *)

Kept ==
  /\ \A a \in Assignments : WorkOf(a)
  /\ made \ RemoteWork \subseteq
       primary.dirty \cup Fixed \cup UNION {CarriedBy(a) : a \in Assignments}

\* What one assignment has stays while the others move.
LEMMA WorkOfOthers ==
  ASSUME NEW b \in Assignments, row'[b].status = row[b].status, tree'[b] = tree[b],
         frozen'[b] = frozen[b], candidate'[b] = candidate[b], job'[b] = job[b]
  PROVE  /\ CarriedBy(b)' = CarriedBy(b)
         /\ WorkOf(b) /\ Fixed \subseteq Fixed' => WorkOf(b)'
<1>1. CarriedBy(b)' = CarriedBy(b)
  BY DEF CarriedBy
<1>2. WorkOf(b) /\ Fixed \subseteq Fixed' => WorkOf(b)'
  BY DEF WorkOf, Status, Paused, IsClean
<1> QED BY <1>1, <1>2

LEMMA CarriesKept ==
  ASSUME Sound, Kept, "edit-midway" \notin Slips, NEW a \in Assignments, Keeps(a), Carries(a)
  PROVE  Kept'
<1>1. /\ WorkOf(a)' /\ Fixed \subseteq Fixed' /\ CarriedBy(a) \subseteq CarriedBy(a)' \cup Fixed'
      /\ made' \subseteq made \cup CarriedBy(a)' /\ primary'.dirty = primary.dirty
  BY DEF Kept, Carries, NothingDropped
<1>2. ASSUME NEW b \in Assignments, b # a
      PROVE  CarriedBy(b)' = CarriedBy(b) /\ WorkOf(b)'
  <2>1. /\ row'[b] = row[b] /\ tree'[b] = tree[b] /\ job'[b] = job[b]
        /\ frozen'[b] = frozen[b] /\ candidate'[b] = candidate[b]
    BY <1>2, SoundFacts DEF Keeps, MoveOf, OnlyOf
  <2> QED BY <1>1, <2>1, WorkOfOthers DEF Kept
<1>3. ASSUME NEW c \in made' \ RemoteWork
      PROVE  c \in primary'.dirty \cup Fixed' \/ \E b \in Assignments : c \in CarriedBy(b)'
  <2>1. CASE c \in CarriedBy(a)'
    BY <2>1
  <2>2. CASE c \in primary.dirty \cup Fixed
    BY <1>1, <2>2
  <2>3. ASSUME NEW b \in Assignments, c \in CarriedBy(b)
        PROVE  c \in Fixed' \/ \E d \in Assignments : c \in CarriedBy(d)'
    <3>1. CASE b = a
      BY <1>1, <2>3, <3>1
    <3>2. CASE b # a
      BY <1>2, <2>3, <3>2
    <3> QED BY <3>1, <3>2
  <2>4. c \in CarriedBy(a)' \/ c \in made \ RemoteWork
    BY <1>1
  <2>5. \/ c \in CarriedBy(a)' \/ c \in primary.dirty \cup Fixed
        \/ \E b \in Assignments : c \in CarriedBy(b)
    BY <2>4 DEF Kept
  <2> QED BY <2>1, <2>2, <2>3, <2>5
<1>4. \A b \in Assignments : WorkOf(b)'
  BY <1>1, <1>2
<1>5. made' \ RemoteWork \subseteq
        primary'.dirty \cup Fixed' \cup UNION {CarriedBy(b)' : b \in Assignments}
  BY <1>3
<1> QED BY <1>4, <1>5 DEF Kept

\* The steps of the operator and the remote.
LEMMA EnvironmentKept ==
  ASSUME Sound, Kept,
         \/ \E c \in OperatorWork : OperatorEdit(c) \/ OperatorCommit(c)
         \/ OperatorSwitch \/ OperatorPush
         \/ \E c \in RemoteWork : RemotePush(c)
  PROVE  Kept'
<1>1. /\ UNCHANGED <<tree, frozen, candidate, job, recovery, waived>>
      /\ \A a \in Assignments : row'[a].status = row[a].status
      /\ target \in Commits /\ row \in [Assignments -> Rows]
      /\ primary \in [onRef : BOOLEAN, shows : {None} \cup Commits, dirty : SUBSET Changes]
  <2>1. row \in [Assignments -> Rows]
    BY DEF Sound, TypeOK
  <2>2. ASSUME NEW a \in Assignments
        PROVE  row'[a].status = row[a].status
    <3>1. \/ row'[a] = row[a]
          \/ row'[a] = [row[a] EXCEPT !.debt = None]
      BY DEF OperatorEdit, OperatorCommit, OperatorSwitch, OperatorPush, RemotePush, database
    <3>2. [row[a] EXCEPT !.debt = None].status = row[a].status
      BY <2>1 DEF Rows
    <3> QED BY <3>1, <3>2
  <2>3. target \in Commits
        /\ primary \in [onRef : BOOLEAN, shows : {None} \cup Commits, dirty : SUBSET Changes]
    BY DEF Sound, TypeOK
  <2> QED BY <2>1, <2>2, <2>3
          DEF OperatorEdit, OperatorCommit, OperatorSwitch, OperatorPush, RemotePush, refs, history
<1>2. /\ target' \in Commits /\ ChangesOf(target) \subseteq ChangesOf(target')
      /\ made' \ RemoteWork \subseteq made \cup primary'.dirty
      /\ primary.dirty \subseteq primary'.dirty \cup ChangesOf(target')
  <2>1. ASSUME NEW c \in OperatorWork, OperatorEdit(c)
        PROVE  /\ target' = target /\ made' \subseteq made \cup {c}
               /\ primary'.dirty = primary.dirty \cup {c}
    BY <1>1, <2>1 DEF OperatorEdit
  <2>2. ASSUME NEW c \in OperatorWork, OperatorCommit(c)
        PROVE  /\ target' \in Commits /\ ChangesOf(target') = ChangesOf(target) \cup {c}
               /\ made' = made /\ primary.dirty \subseteq primary'.dirty \cup {c}
    <3>1. /\ target' = Append(target, Written(c)) /\ made' = made
          /\ primary' = [primary EXCEPT !.shows = target', !.dirty = @ \ {c}]
      BY <2>2 DEF OperatorCommit, history
    <3>2. primary'.dirty = primary.dirty \ {c}
      BY <1>1, <3>1
    <3>3. Written(c) \in Patch /\ Written(c).of = c
      BY FinalizationAssumption, WrittenFacts
    <3> QED BY <1>1, <3>1, <3>2, <3>3, AppendFacts
  <2>3. ASSUME OperatorSwitch
        PROVE  target' = target /\ made' = made /\ primary'.dirty = primary.dirty
    BY <1>1, <2>3 DEF OperatorSwitch, history
  <2>4. ASSUME OperatorPush
        PROVE  target' = target /\ made' = made /\ primary'.dirty = primary.dirty
    BY <2>4, PrimaryKept DEF OperatorPush, history
  <2>5. ASSUME NEW c \in RemoteWork, RemotePush(c)
        PROVE  target' = target /\ made' = made \cup {c} /\ primary'.dirty = primary.dirty
    BY <2>5, PrimaryKept DEF RemotePush
  <2> QED BY <1>1, <2>1, <2>2, <2>3, <2>4, <2>5
<1>3. Fixed \subseteq Fixed' /\ ChangesOf(target') \subseteq Fixed'
  BY <1>1, <1>2 DEF Fixed
<1>4. \A a \in Assignments : CarriedBy(a)' = CarriedBy(a) /\ WorkOf(a)'
  BY <1>1, <1>3, WorkOfOthers DEF Kept
<1>5. ASSUME NEW c \in made' \ RemoteWork
      PROVE  c \in primary'.dirty \cup Fixed' \/ \E b \in Assignments : c \in CarriedBy(b)'
  <2>1. c \in primary'.dirty \/ c \in made \ RemoteWork
    BY <1>2
  <2>2. \/ c \in primary'.dirty \/ c \in primary.dirty \/ c \in Fixed
        \/ \E b \in Assignments : c \in CarriedBy(b)
    BY <2>1 DEF Kept
  <2> QED BY <1>2, <1>3, <1>4, <2>2
<1>6. made' \ RemoteWork \subseteq
        primary'.dirty \cup Fixed' \cup UNION {CarriedBy(b)' : b \in Assignments}
  BY <1>5
<1> QED BY <1>4, <1>6 DEF Kept

LEMMA NextKept ==
  ASSUME Sound, Kept, "edit-midway" \notin Slips, [Next]_vars
  PROVE  Kept'
<1>1. CASE \E a \in Assignments : Begin(a) \/ Step(a) \/ Recover(a)
  BY <1>1, BeginCarries, StepCarries, RecoverCarries, CarriesKept
<1>2. CASE \E a \in Assignments : Crash(a) \/ CrashInReplay(a)
  BY <1>2, CrashKeeps, CrashStills, StillCarries, CrashInReplayKeeps, CrashInReplayCarries,
     CarriesKept
<1>3. CASE \/ \E c \in OperatorWork : OperatorEdit(c) \/ OperatorCommit(c)
           \/ OperatorSwitch \/ OperatorPush
           \/ \E c \in RemoteWork : RemotePush(c)
  BY <1>3, EnvironmentKept
<1>4. CASE UNCHANGED vars
  BY <1>4 DEF vars, database, refs, shared, history, Kept, WorkOf, Fixed, CarriedBy, Status,
              Paused, IsClean
<1> QED BY <1>1, <1>2, <1>3, <1>4 DEF Next, Environment

LEMMA InitKept == Init => Kept
<1> SUFFICES ASSUME Init
             PROVE  Kept
  OBVIOUS
<1>1. \A a \in Assignments :
        row[a].status = "active" /\ job[a].at = "idle" /\ tree[a].replay = None
  BY DEF Init, Idle
<1>2. made = {}
  BY DEF Init
<1> QED BY <1>1, <1>2 DEF Kept, WorkOf, Status, Paused, Before, Beyond, Landed

\* Where no worker edits while a handler of its own worktree runs, every
\* change anyone made here is uncommitted in a checkout, in a commit that a
\* branch or a ref reaches, or was given up: no reset, removal, replay or
\* crash loses work.
THEOREM NoWorkLost ==
  ASSUME "edit-midway" \notin Slips
  PROVE  Spec => []WorkKept
<1>1. Sound /\ Kept => WorkKept
  <2> SUFFICES ASSUME Sound, Kept, NEW c \in made \ RemoteWork
               PROVE  \/ c \in Uncommitted
                      \/ \E commit \in CommitsHeld : c \in ChangesOf(commit)
                      \/ \E w \in waived : w[1] = c
    BY DEF WorkKept
  <2>1. target \in CommitsHeld /\ recovery \subseteq CommitsHeld
    <3>1. target \in Commits /\ recovery \subseteq Commits
      BY DEF Sound, TypeOK
    <3> QED BY <3>1, NoneAssumption DEF CommitsHeld
  <2>2. \A a \in Assignments : tree[a].head # None => tree[a].head \in CommitsHeld
    BY DEF CommitsHeld
  <2>3. c \in primary.dirty \/ c \in Fixed \/ \E a \in Assignments : c \in CarriedBy(a)
    BY DEF Kept
  <2>4. CASE c \in primary.dirty
    BY <2>4 DEF Uncommitted
  <2>5. CASE c \in Fixed
    BY <2>1, <2>5 DEF Fixed
  <2>6. ASSUME NEW a \in Assignments, c \in CarriedBy(a)
        PROVE  c \in Uncommitted \/ \E commit \in CommitsHeld : c \in ChangesOf(commit)
    <3>1. CASE c \in tree[a].dirty
      BY <3>1 DEF Uncommitted
    <3>2. CASE c \in Within(tree[a].head)
      BY <2>2, <3>2 DEF Within
    <3> QED BY <2>6, <3>1, <3>2 DEF CarriedBy
  <2> QED BY <2>3, <2>4, <2>5, <2>6
<1>2. Sound /\ Kept /\ [Next]_vars => Sound' /\ Kept'
  BY NextSound, NextKept
<1> QED BY InitSound, InitKept, <1>1, <1>2, PTL DEF Spec

-----------------------------------------------------------------------------
(* What is owed to the remote.                                              *)

\* Nothing of what others pushed gets into a worktree, a ref or the target,
\* so a commit without it tells the history of this repository.
Ours(commit) == ChangesOf(commit) \cap RemoteWork = {}

OursOnly ==
  /\ Ours(target) /\ primary.dirty \cap RemoteWork = {}
  /\ \A a \in Assignments : StockOf(a) \cap RemoteWork = {}

\* What of ours one commit has, the other has.
Outlives(old, new) ==
  \A commit \in Commits : Ours(commit) /\ IsAncestor(commit, old) => IsAncestor(commit, new)

\* The places of a handler up to the record.
Early == {"freeze", "lock"} \cup Beyond \cup Landed

\* The remote has what a push was seen to bring there, and a push with a
\* lease takes nothing of ours from it.
PushOf(a) ==
  LET debt == row[a].debt IN
  /\ debt # None /\ debt.phase = "push-succeeded" => IsAncestor(debt.candidate, remote)
  /\ At(a, "push") => job[a].op = "push"
  /\ job[a].op = "push" /\ job[a].at \in Early => debt # None /\ Outlives(debt.lease, target)
  /\ job[a].op = "push" /\ job[a].at \in {"unlock", "push"} =>
       debt # None /\ Outlives(debt.lease, candidate[a])

\* A step of a that owes what it owed, unless the remote has it.
Owing(a) ==
  OwesPush(row[a].debt) =>
    \/ OwesPush(row'[a].debt) /\ row'[a].debt.candidate = row[a].debt.candidate
    \/ IsAncestor(row[a].debt.candidate, remote')

Pays(a) ==
  /\ preserved \subseteq preserved'
  /\ remote' = remote \/ (At(a, "push") /\ remote = row[a].debt.lease /\ remote' = candidate[a])
  /\ Owing(a) /\ PushOf(a)'

\* The handler of a does not come to a push.
Onward(a) ==
  \/ job'[a] = job[a] /\ candidate'[a] = candidate[a]
  \/ /\ job'[a].at # "push"
     /\ \/ job'[a].op # "push" \/ job'[a].at \notin Early \cup {"unlock"}
        \/ job[a].op = "push" /\ job[a].at \in Early /\ job'[a].at \in Early

\* A step of a that leaves the remote and its debt alone, or that ends a debt
\* of which the remote has the commit.
Calm(a) ==
  /\ remote' = remote /\ preserved \subseteq preserved'
  /\ Onward(a)
  /\ \/ row'[a].debt = row[a].debt
     \/ /\ row'[a].debt = None
        /\ OwesPush(row[a].debt) => IsAncestor(row[a].debt.candidate, remote)
        /\ job'[a].op # "push" \/ job'[a].at \notin Early \cup {"unlock", "push"}

LEMMA OutlivesLonger ==
  ASSUME NEW old, NEW s \in Commits, NEW t \in Commits, IsAncestor(s, t), Outlives(old, s)
  PROVE  Outlives(old, t)
BY AncestorTransitive DEF Outlives

LEMMA CalmPays ==
  ASSUME Sound, NEW a \in Assignments, Keeps(a), PushOf(a), Calm(a)
  PROVE  Pays(a)
<1>1. target \in Commits /\ target' \in Commits /\ IsAncestor(target, target')
  BY DEF Keeps, MoveOf, WorldOK, Sound, TypeOK
<1>2. CASE row'[a].debt = row[a].debt
  <2>1. Owing(a)
    BY <1>2 DEF Owing
  <2>2. row'[a].debt # None /\ row'[a].debt.phase = "push-succeeded" =>
          IsAncestor(row'[a].debt.candidate, remote')
    BY <1>2 DEF Calm, PushOf
  <2>3. job'[a].at = "push" => job'[a].op = "push"
    BY DEF Calm, Onward, PushOf, At
  <2>4. job'[a].op = "push" /\ job'[a].at \in Early =>
          row'[a].debt # None /\ Outlives(row'[a].debt.lease, target')
    <3>1. job'[a].op = "push" /\ job'[a].at \in Early => job[a].op = "push" /\ job[a].at \in Early
      BY DEF Calm, Onward
    <3> QED BY <1>1, <1>2, <3>1, OutlivesLonger DEF PushOf
  <2>5. job'[a].op = "push" /\ job'[a].at \in {"unlock", "push"} =>
          row'[a].debt # None /\ Outlives(row'[a].debt.lease, candidate'[a])
    <3>1. job'[a].op = "push" /\ job'[a].at \in {"unlock", "push"} =>
            job'[a] = job[a] /\ candidate'[a] = candidate[a]
      BY DEF Calm, Onward, Early, Beyond, Landed
    <3> QED BY <1>2, <3>1 DEF PushOf
  <2> QED BY <2>1, <2>2, <2>3, <2>4, <2>5 DEF Pays, Calm, PushOf, At
<1>3. CASE /\ row'[a].debt = None
           /\ OwesPush(row[a].debt) => IsAncestor(row[a].debt.candidate, remote)
           /\ job'[a].op # "push" \/ job'[a].at \notin Early \cup {"unlock", "push"}
  <2>1. Owing(a)
    BY <1>3 DEF Owing, Calm
  <2>2. job'[a].at = "push" => job'[a].op = "push"
    BY DEF Calm, Onward, PushOf, At
  <2> QED BY <1>3, <2>1, <2>2 DEF Pays, Calm, PushOf, At
<1> QED BY <1>2, <1>3 DEF Calm

-----------------------------------------------------------------------------
(* The steps that are calm.                                                 *)

LEMMA IdleCalm ==
  ASSUME Sound, NEW a \in Assignments,
         \/ \E c \in Work[a] : Edit(a, c) \/ CommitAndStay(a, c)
         \/ \E resolution : ResolveByHand(a, resolution) \/ ResolveHunk(a, resolution)
         \/ AbortReplay(a) \/ Rerebase(a) \/ RestoreFrozen(a)
  PROVE  Calm(a)
<1>1. UNCHANGED <<row, job, remote, preserved>> /\ (candidate' = candidate \/ IsIdle(a))
  BY DEF Edit, CommitAndStay, ResolveByHand, ResolveHunk, AbortReplay, Rerebase, RestoreFrozen,
         database, refs, shared, history
<1>2. Onward(a)
  BY <1>1 DEF Onward, IsIdle, Early, Beyond, Landed
<1> QED BY <1>1, <1>2 DEF Calm

LEMMA EntryCalm ==
  ASSUME Sound, NEW a \in Assignments,
         \/ \E c \in Work[a], op \in AllOps : BeginCommander(a, c, op) \/ BeginRepair(a, c, op)
         \/ BeginReconcile(a) \/ BeginReconcileReady(a) \/ BeginConfirm(a)
         \/ ContinueReplay(a) \/ ReconcileFrozen(a) \/ Sync(a)
  PROVE  Calm(a)
<1>1. UNCHANGED <<row, remote, preserved>>
  BY DEF BeginCommander, BeginRepair, BeginReconcile, BeginReconcileReady, BeginConfirm,
         ContinueReplay, ReconcileFrozen, Sync, database, refs, shared, history
<1>2. job \in [Assignments -> Jobs]
  BY SoundFacts
<1>3. job'[a].at # "push" /\ (job'[a].op # "push" \/ job'[a].at = "idle")
  <2>1. ASSUME NEW c \in Work[a], NEW op \in AllOps, BeginCommander(a, c, op)
        PROVE  job'[a].at = "freeze" /\ job'[a].op # "push"
    BY <1>2, <2>1 DEF BeginCommander, Idle
  <2>2. ASSUME NEW op \in {"commander", "release", "reconcile"}, Attested(a, op)
        PROVE  job'[a].at = "lock" /\ job'[a].op # "push"
    BY <1>2, <2>2 DEF Attested
  <2>3. ASSUME NEW c \in Work[a], NEW op \in AllOps, BeginRepair(a, c, op)
        PROVE  job'[a].at = "lock" /\ job'[a].op # "push"
    BY <2>2, <2>3 DEF BeginRepair
  <2>4. CASE BeginReconcile(a)
    BY <1>2, <2>4 DEF BeginReconcile, Idle
  <2>5. CASE BeginReconcileReady(a) \/ BeginConfirm(a)
    BY <2>2, <2>5 DEF BeginReconcileReady, BeginConfirm
  <2>6. CASE ContinueReplay(a)
    BY <2>2, <2>6 DEF ContinueReplay, IsIdle
  <2>7. CASE ReconcileFrozen(a)
    BY <1>2, <2>7 DEF ReconcileFrozen, Idle
  <2>8. CASE Sync(a)
    BY <1>2, <2>8 DEF Sync, Idle
  <2> QED BY <2>1, <2>3, <2>4, <2>5, <2>6, <2>7, <2>8
<1>4. Onward(a)
  BY <1>3 DEF Onward, Early, Beyond, Landed
<1> QED BY <1>1, <1>4 DEF Calm

LEMMA CloseOutCalm ==
  ASSUME Sound, NEW a \in Assignments, BeginCloseOut(a)
  PROVE  Calm(a)
<1> DEFINE entry == [Idle EXCEPT !.op = "close-out"]
           opened == [entry EXCEPT !.at = "lock", !.expected = target, !.attested = TRUE]
           closing == [entry EXCEPT !.at = "close"]
           freezing == [entry EXCEPT !.at = "freeze"]
<1>1. UNCHANGED <<row, remote, preserved>> /\ job[a].at = "idle" /\ job \in [Assignments -> Jobs]
  BY SoundFacts DEF BeginCloseOut, Free, IsIdle, database, shared
<1>2. /\ opened.at = "lock" /\ opened.op = "close-out" /\ closing.at = "close"
      /\ closing.op = "close-out" /\ freezing.at = "freeze" /\ freezing.op = "close-out"
  BY DEF Idle
<1>3. \/ UNCHANGED job \/ job' = [job EXCEPT ![a] = opened]
      \/ job' = [job EXCEPT ![a] = closing] \/ job' = [job EXCEPT ![a] = freezing]
  BY DEF BeginCloseOut
<1> HIDE DEF opened, closing, freezing
<1>4. job'[a].at # "push" /\ (job'[a].op # "push" \/ job'[a].at = "idle")
  <2>1. CASE UNCHANGED job
    BY <1>1, <2>1
  <2>2. ASSUME NEW j, job' = [job EXCEPT ![a] = j], j.at # "push", j.op = "close-out"
        PROVE  job'[a].at # "push" /\ job'[a].op # "push"
    BY <1>1, <2>2
  <2> QED BY <1>2, <1>3, <2>1, <2>2
<1>5. Onward(a)
  BY <1>4 DEF Onward, Early, Beyond, Landed
<1> QED BY <1>1, <1>5 DEF Calm

LEMMA EarlyCalm ==
  ASSUME Sound, NEW a \in Assignments,
         Freeze(a) \/ AcquireLock(a) \/ Replay(a) \/ Prove(a) \/ Advance(a) \/ Carry(a)
  PROVE  Calm(a)
<1>1. /\ UNCHANGED <<remote, preserved>> /\ job[a].at \in Early
      /\ row' = row \/ SetRow(a, [row[a] EXCEPT !.status = "ready"])
  BY DEF Freeze, AcquireLock, Replay, Prove, Advance, Carry, database, refs, shared, history, At,
         Early, Beyond, Landed
<1>2. job \in [Assignments -> Jobs] /\ row \in [Assignments -> Rows] /\ row[a] \in Rows
  BY SoundFacts DEF CellsOf
<1>3. row'[a].debt = row[a].debt
  <2>1. [row[a] EXCEPT !.status = "ready"].debt = row[a].debt
    BY <1>2 DEF Rows
  <2> QED BY <1>1, <1>2, <2>1 DEF SetRow
<1>4. \/ Finish(a) \/ (job'[a].at = "lock" /\ job'[a].op = job[a].op)
      \/ \E p \in {"advance", "replay", "prove", "carry", "record"} : Goto(a, p)
  <2>1. job' = [job EXCEPT ![a].at = "lock", ![a].expected = target] =>
          job'[a].at = "lock" /\ job'[a].op = job[a].op
    BY <1>2 DEF Jobs
  <2> QED BY <2>1 DEF Freeze, AcquireLock, Replay, Prove, Advance, Carry, BackToFrozen
<1>5. \A p \in {"advance", "replay", "prove", "carry", "record"} : p \in Places /\ p \in Early
  BY DEF Places, Early, Beyond, Landed
<1>6. \/ job'[a].at = "idle" \/ (job'[a].at \in Early /\ job'[a].op = job[a].op)
  <2>1. "lock" \in Early
    BY DEF Early
  <2> QED BY <1>4, <1>5, <2>1, JobMoves
<1>7. Onward(a)
  BY <1>1, <1>6 DEF Onward, Early, Beyond, Landed
<1> QED BY <1>1, <1>3, <1>7 DEF Calm

\* The steps after a push, and the ends of a row.
LEMMA SettlingCalm ==
  ASSUME Sound, NEW a \in Assignments, PushOf(a),
         \/ Settle(a) \/ Recycle(a) \/ Forget(a) \/ Release(a) \/ Retire(a) \/ Clear(a)
         \/ SyncBase(a) \/ CompleteTeardown(a) \/ Crash(a) \/ CrashInReplay(a)
  PROVE  Calm(a)
<1>1. /\ job \in [Assignments -> Jobs] /\ row \in [Assignments -> Rows] /\ row[a] \in Rows
      /\ PartsOf(a) /\ PreservedInTarget
  BY SoundFacts DEF CellsOf
<1>2. remote' = remote /\ preserved \subseteq preserved'
  BY DEF Settle, Recycle, Forget, Release, Retire, Retired, Clear, SyncBase, CompleteTeardown,
         Crash, CrashInReplay, database, refs, shared, history
<1>3. \/ Finish(a) \/ (job' = job /\ IsIdle(a)) \/ (Forget(a) /\ job[a].op = "landed" /\ Goto(a, "unlock"))
      \/ \E p \in {"recycle", "forget", "retire"} : Goto(a, p)
  BY DEF Settle, Recycle, Forget, ProceedTo, Release, Retire, Clear, SyncBase, CompleteTeardown,
         Crash, CrashInReplay
<1>4. \A p \in {"recycle", "forget", "retire", "unlock"} : p \in Places
  BY DEF Places
<1>5. \/ job'[a].at \in {"idle", "recycle", "forget", "retire"}
      \/ job'[a].at = "unlock" /\ job'[a].op = "landed"
  BY <1>3, <1>4, JobMoves DEF IsIdle
<1>6. Onward(a)
  BY <1>5 DEF Onward, Early, Beyond, Landed
<1>7. job'[a].op # "push" \/ job'[a].at \notin Early \cup {"unlock", "push"}
  BY <1>5 DEF Early, Beyond, Landed
<1>8. \/ row' = row
      \/ Settle(a) /\ SetRow(a, [row[a] EXCEPT !.debt = None])
      \/ Recycle(a) /\ MayRecycle(a) /\ SetRow(a, Recycled(a))
      \/ SetRow(a, [row[a] EXCEPT !.status = "cleaned"])
      \/ SetRow(a, [row[a] EXCEPT !.base = job[a].expected])
  BY DEF Settle, Recycle, Forget, Release, Retire, Retired, Clear, SyncBase, CompleteTeardown,
         Crash, CrashInReplay, database
<1>9. CASE row' = row
  BY <1>2, <1>6, <1>9 DEF Calm
<1>10. CASE Settle(a) /\ SetRow(a, [row[a] EXCEPT !.debt = None])
  <2>1. [row[a] EXCEPT !.debt = None].debt = None
    BY <1>1 DEF Rows
  <2>2. row'[a].debt = None
    BY <1>1, <1>10, <2>1 DEF SetRow
  <2>3. IsAncestor(row[a].debt.candidate, remote)
    BY <1>1, <1>10 DEF Settle, PartsOf, DebtOf, PushOf
  <2> QED BY <1>2, <1>6, <1>7, <2>2, <2>3 DEF Calm
<1>11. CASE MayRecycle(a) /\ SetRow(a, Recycled(a))
  <2>1. Recycled(a).debt = None
    BY DEF Recycled
  <2>2. row'[a].debt = None
    BY <1>1, <1>11, <2>1 DEF SetRow
  <2> QED BY <1>2, <1>6, <1>7, <1>11, <2>2 DEF Calm, MayRecycle
<1>12. CASE \/ SetRow(a, [row[a] EXCEPT !.status = "cleaned"])
            \/ SetRow(a, [row[a] EXCEPT !.base = job[a].expected])
  <2>1. /\ [row[a] EXCEPT !.status = "cleaned"].debt = row[a].debt
        /\ [row[a] EXCEPT !.base = job[a].expected].debt = row[a].debt
    BY <1>1 DEF Rows
  <2>2. row'[a].debt = row[a].debt
    BY <1>1, <1>12, <2>1 DEF SetRow
  <2> QED BY <1>2, <1>6, <2>2 DEF Calm
<1> QED BY <1>8, <1>9, <1>10, <1>11, <1>12

\* A row that is reopened owes nothing yet; one that is reconciled or closed
\* drops its debt when the remote shows the commit, or was seen to.
LEMMA DroppingCalm ==
  ASSUME Sound, NEW a \in Assignments, PushOf(a),
         Reopen(a) \/ ReconcileIntegrated(a) \/ Close(a)
  PROVE  Calm(a)
<1>1. /\ job \in [Assignments -> Jobs] /\ row \in [Assignments -> Rows] /\ row[a] \in Rows
      /\ PartsOf(a) /\ remote \in Commits
  BY SoundFacts DEF CellsOf, WorldOK
<1>2. remote' = remote /\ preserved' = preserved
  BY DEF Reopen, ReconcileIntegrated, Close, shared
<1>3. job'[a].at \in {"idle", "clear", "recycle", "retire"}
  <2>1. CASE Reopen(a)
    BY <1>1, <2>1 DEF Reopen, Idle
  <2>2. CASE ReconcileIntegrated(a)
    BY <1>1, <2>2 DEF ReconcileIntegrated, Idle, Free, IsIdle
  <2>3. CASE Close(a)
    <3>1. Finish(a) \/ Goto(a, "retire")
      BY <2>3 DEF Close
    <3> QED BY <3>1, JobMoves DEF Places
  <2> QED BY <2>1, <2>2, <2>3
<1>4. Onward(a) /\ (job'[a].op # "push" \/ job'[a].at \notin Early \cup {"unlock", "push"})
  BY <1>3 DEF Onward, Early, Beyond, Landed
<1>5. \/ row'[a].debt = row[a].debt
      \/ /\ row'[a].debt = None
         /\ OwesPush(row[a].debt) => IsAncestor(row[a].debt.candidate, remote)
  <2>1. CASE Reopen(a)
    <3>1. ~OwesPush(row[a].debt)
      BY <1>1, <2>1 DEF Reopen, AwaitsRecovery, Status, PartsOf, DebtOf
    <3>2. [row[a] EXCEPT !.status = "active", !.debt = None].debt = None
      BY <1>1 DEF Rows
    <3> QED BY <1>1, <2>1, <3>1, <3>2 DEF Reopen, SetRow
  <2>2. CASE ReconcileIntegrated(a)
    <3>1. \/ row' = row
          \/ /\ SetRow(a, [row[a] EXCEPT !.debt = None])
             /\ OwesPush(row[a].debt) => remote = candidate[a]
      BY <2>2 DEF ReconcileIntegrated
    <3>2. OwesPush(row[a].debt) => row[a].debt.candidate = candidate[a]
      BY <1>1, <2>2 DEF ReconcileIntegrated, PartsOf, DebtOf, RowOf
    <3>3. [row[a] EXCEPT !.debt = None].debt = None
      BY <1>1 DEF Rows
    <3> QED BY <1>1, <3>1, <3>2, <3>3, AncestorReflexive DEF SetRow
  <2>3. CASE Close(a)
    <3>1. row' = row \/ \E debt \in Probed(a) : SetRow(a, [row[a] EXCEPT !.debt = debt])
      BY <2>3 DEF Close
    <3>2. ASSUME NEW debt \in Probed(a), SetRow(a, [row[a] EXCEPT !.debt = debt])
          PROVE  \/ row'[a].debt = row[a].debt
                 \/ /\ row'[a].debt = None
                    /\ OwesPush(row[a].debt) => IsAncestor(row[a].debt.candidate, remote)
      <4>1. [row[a] EXCEPT !.debt = debt].debt = debt
        BY <1>1 DEF Rows
      <4>2. row'[a].debt = debt
        BY <1>1, <3>2, <4>1 DEF SetRow
      <4>3. debt = row[a].debt \/ debt = None
        BY <3>2 DEF Probed
      <4>4. OwesPush(row[a].debt) /\ debt # row[a].debt =>
              row[a].debt.phase = "push-succeeded" \/ remote = row[a].debt.candidate
        BY <3>2 DEF Probed
      <4>5. OwesPush(row[a].debt) /\ debt # row[a].debt => IsAncestor(row[a].debt.candidate, remote)
        BY <1>1, <4>4, AncestorReflexive DEF PushOf, OwesPush
      <4> QED BY <4>2, <4>3, <4>5
    <3> QED BY <3>1, <3>2
  <2> QED BY <2>1, <2>2, <2>3
<1> QED BY <1>2, <1>4, <1>5 DEF Calm

-----------------------------------------------------------------------------
(* The steps of a push.                                                     *)

LEMMA BeginPushPays ==
  ASSUME Sound, NEW a \in Assignments, NEW c \in Work[a], BeginPush(a, c), Outlives(remote, target)
  PROVE  Pays(a)
<1> DEFINE debt == [phase |-> "integration-pending", frozen |-> Committed(a, c).head,
                    candidate |-> None, lease |-> remote]
<1>1. /\ job \in [Assignments -> Jobs] /\ row \in [Assignments -> Rows] /\ row[a] \in Rows
      /\ PartsOf(a)
  BY SoundFacts DEF CellsOf
<1>2. /\ UNCHANGED <<preserved, target, remote>> /\ Status(a, "active") /\ Free(a)
      /\ c \in tree[a].dirty /\ SetTree(a, Committed(a, c))
      /\ SetRow(a, [row[a] EXCEPT !.debt = debt])
      /\ job' = [job EXCEPT ![a] = [Idle EXCEPT !.at = "freeze", !.op = "push"]]
  BY DEF BeginPush, shared
<1>3. debt.phase = "integration-pending" /\ debt.lease = remote
  OBVIOUS
<1>4. debt # None
  <2>1. Committed(a, c).head \in Commits /\ remote \in Commits
    BY <1>2, CommitIs DEF Sound, TypeOK
  <2>2. debt \in Debts
    BY <2>1 DEF Debts
  <2> QED BY <2>2, NoneAssumption
<1> HIDE DEF debt
<1>5. row'[a].debt = debt
  <2>1. [row[a] EXCEPT !.debt = debt].debt = debt
    BY <1>1 DEF Rows
  <2> QED BY <1>1, <1>2, <2>1 DEF SetRow
<1>6. job'[a].at = "freeze"
  BY <1>1, <1>2 DEF Idle
<1>7. ~OwesPush(row[a].debt)
  BY <1>1, <1>2 DEF PartsOf, DebtOf, Status
<1>8. PushOf(a)'
  BY <1>2, <1>3, <1>4, <1>5, <1>6 DEF PushOf, At
<1> QED BY <1>2, <1>7, <1>8 DEF Pays, Owing

\* A record is written when target and candidate are one, so what the lease
\* has of ours is in the candidate.
LEMMA RecordPays ==
  ASSUME Sound, NEW a \in Assignments, Record(a), PushOf(a), Keeps(a)
  PROVE  Pays(a)
<1>1. /\ job \in [Assignments -> Jobs] /\ row \in [Assignments -> Rows] /\ PartsOf(a)
      /\ target \in Commits
  BY SoundFacts DEF WorldOK
<1>2. UNCHANGED <<preserved, remote, target, candidate>> /\ Status(a, "ready") /\ job[a].at \in Early
  BY <1>1 DEF Record, refs, shared, At, PartsOf, StageOf, Status, Early, Landed
<1>3. CASE row' = row /\ Finish(a)
  <2>1. job'[a].at = "idle"
    BY <1>3, JobMoves
  <2>2. Calm(a)
    BY <1>2, <1>3, <2>1 DEF Calm, Onward, Early, Beyond, Landed
  <2> QED BY <2>2, CalmPays
<1>4. CASE CheckoutAt(candidate[a]) /\ SetRow(a, Integrated(a)) /\ Goto(a, "unlock")
  <2>1. target = candidate[a] /\ candidate[a] \in Commits
    BY <1>1, <1>4 DEF CheckoutAt
  <2>2. PICK debt \in {None} \cup Debts :
          /\ RowIs(a, "integrated", row[a].base, candidate[a], candidate[a], debt)
          /\ debt = None <=> row[a].debt = None
          /\ debt # None => debt.phase = "push-pending" /\ debt.candidate = candidate[a]
          /\ debt # None => debt.lease = row[a].debt.lease
    BY <1>4, <2>1, IntegratedIs
  <2>3. job'[a].at = "unlock" /\ job'[a].op = job[a].op
    BY <1>4, JobMoves DEF Places
  <2>4. row'[a].debt = debt
    BY <2>2 DEF RowIs
  <2>5. job[a].op = "push" => row[a].debt # None /\ Outlives(row[a].debt.lease, target)
    BY <1>2 DEF PushOf
  <2>6. PushOf(a)'
    BY <1>2, <2>1, <2>2, <2>3, <2>4, <2>5 DEF PushOf, At, Early, Beyond, Landed
  <2>7. ~OwesPush(row[a].debt)
    BY <1>1, <1>2 DEF PartsOf, DebtOf, Status
  <2> QED BY <1>2, <2>6, <2>7 DEF Pays, Owing
<1> QED BY <1>3, <1>4 DEF Record

LEMMA ReconcileLandedPays ==
  ASSUME Sound, NEW a \in Assignments, ReconcileLanded(a), PushOf(a), Keeps(a)
  PROVE  Pays(a)
<1>1. /\ job \in [Assignments -> Jobs] /\ row \in [Assignments -> Rows] /\ PartsOf(a)
      /\ candidate[a] \in {None} \cup Commits
  BY SoundFacts
<1>2. /\ UNCHANGED <<preserved, remote, target, candidate>> /\ Status(a, "ready") /\ IsIdle(a)
      /\ candidate[a] \in Commits
  BY <1>1 DEF ReconcileLanded, AwaitsRecovery, Free, refs
<1>3. CASE row' = row /\ UNCHANGED job
  <2>1. Calm(a)
    BY <1>2, <1>3 DEF Calm, Onward
  <2> QED BY <2>1, CalmPays
<1>4. CASE SetRow(a, Integrated(a)) /\ job'[a].op = "landed" /\ job'[a].at \in {"recycle", "unlock"}
  <2>1. PICK debt \in {None} \cup Debts :
          /\ RowIs(a, "integrated", row[a].base, candidate[a], candidate[a], debt)
          /\ debt = None <=> row[a].debt = None
          /\ debt # None => debt.phase = "push-pending" /\ debt.candidate = candidate[a]
          /\ debt # None => debt.lease = row[a].debt.lease
    BY <1>2, <1>4, IntegratedIs
  <2>2. row'[a].debt = debt
    BY <2>1 DEF RowIs
  <2>3. PushOf(a)'
    BY <1>4, <2>1, <2>2 DEF PushOf, At
  <2>4. ~OwesPush(row[a].debt)
    BY <1>1, <1>2 DEF PartsOf, DebtOf, Status
  <2> QED BY <1>2, <2>3, <2>4 DEF Pays, Owing
<1>5. ASSUME job' = [job EXCEPT ![a] =
               [Idle EXCEPT !.op = "landed", !.expected = lock.expected,
                            !.at = IF row[a].debt = None THEN "recycle" ELSE "unlock"]]
      PROVE  job'[a].op = "landed" /\ job'[a].at \in {"recycle", "unlock"}
  BY <1>1, <1>5 DEF Idle
<1> QED BY <1>3, <1>4, <1>5 DEF ReconcileLanded

LEMMA UnlockPays ==
  ASSUME Sound, NEW a \in Assignments, Unlock(a), PushOf(a), Keeps(a)
  PROVE  Pays(a)
<1>1. /\ UNCHANGED <<row, preserved, remote, target, candidate>> /\ At(a, "unlock")
      /\ job \in [Assignments -> Jobs] /\ PartsOf(a)
  BY SoundFacts DEF Unlock, refs, shared
<1>2. /\ job[a].op \in AllOps \cup {"none", "landed"} /\ job[a].op # "none"
  BY <1>1, JobFields DEF PartsOf, StageOf, At, IsIdle
<1>3. /\ AfterIntegration(a) \in {"push", "idle", "recycle", "release", "close"}
      /\ AfterIntegration(a) = "push" => job[a].op = "push"
  BY <1>2 DEF AfterIntegration, AllOps
<1>4. CASE AfterIntegration(a) = "push"
  <2>1. job'[a].at = "push" /\ job'[a].op = "push" /\ job[a].op = "push"
    BY <1>3, <1>4, JobMoves DEF Unlock, ProceedTo, Places
  <2>2. PushOf(a)'
    BY <1>1, <2>1 DEF PushOf, At, Early, Beyond, Landed
  <2> QED BY <1>1, <2>2 DEF Pays, Owing
<1>5. CASE AfterIntegration(a) # "push"
  <2>1. job'[a].at \in {"idle", "recycle", "release", "close"}
    <3>1. \A p \in {"recycle", "release", "close"} : p \in Places
      BY DEF Places
    <3> QED BY <1>3, <1>5, <3>1, JobMoves DEF Unlock, ProceedTo
  <2>2. Calm(a)
    BY <1>1, <2>1 DEF Calm, Onward, Early, Beyond, Landed
  <2> QED BY <2>2, CalmPays
<1> QED BY <1>4, <1>5

LEMMA PushCandidatePays ==
  ASSUME Sound, NEW a \in Assignments, PushCandidate(a), PushOf(a), Keeps(a)
  PROVE  Pays(a)
<1>1. /\ UNCHANGED <<row, preserved, target, candidate>> /\ At(a, "push")
      /\ remote' = remote \/ (remote = row[a].debt.lease /\ remote' = candidate[a])
  BY DEF PushCandidate, database, refs
<1>2. row[a].debt.phase = "push-pending"
  BY <1>1, SoundFacts DEF PartsOf, DebtOf, At
<1>3. job'[a].at = "readback"
  BY JobMoves DEF PushCandidate, Places
<1>4. PushOf(a)'
  BY <1>1, <1>2, <1>3 DEF PushOf, At, Early, Beyond, Landed
<1> QED BY <1>1, <1>4 DEF Pays, Owing

LEMMA ReadbackPays ==
  ASSUME Sound, NEW a \in Assignments, Readback(a), PushOf(a), Keeps(a)
  PROVE  Pays(a)
<1>1. /\ UNCHANGED <<preserved, remote, target, candidate>> /\ At(a, "readback")
      /\ PartsOf(a) /\ remote \in Commits
  BY SoundFacts DEF Readback, refs, shared, WorldOK
<1>2. CASE Finish(a) /\ row' = row
  <2>1. job'[a].at = "idle"
    BY <1>2, JobMoves
  <2>2. Calm(a)
    BY <1>1, <1>2, <2>1 DEF Calm, Onward, Early, Beyond, Landed
  <2> QED BY <2>2, CalmPays
<1>3. CASE /\ remote = candidate[a] /\ Goto(a, "settle")
           /\ SetRow(a, [row[a] EXCEPT !.debt.phase = "push-succeeded"])
  <2>1. /\ row[a].debt # None /\ row[a].debt.phase = "push-pending" /\ Status(a, "integrated")
        /\ row[a].debt.candidate = candidate[a]
    BY <1>1 DEF PartsOf, StageOf, DebtOf, RowOf, At, OwesPush, Status
  <2>2. PICK debt \in Debts :
          /\ RowIs(a, row[a].status, row[a].base, row[a].integrated, row[a].record, debt)
          /\ debt.phase = "push-succeeded" /\ debt.frozen = row[a].debt.frozen
          /\ debt.candidate = row[a].debt.candidate /\ debt.lease = row[a].debt.lease
    BY <1>3, <2>1, PhaseIs
  <2>3. row'[a].debt = debt /\ debt # None
    BY <2>2, NoneAssumption DEF RowIs
  <2>4. job'[a].at = "settle"
    BY <1>3, JobMoves DEF Places
  <2>5. IsAncestor(debt.candidate, remote')
    BY <1>1, <1>3, <2>1, <2>2, AncestorReflexive
  <2>6. PushOf(a)'
    BY <2>3, <2>4, <2>5 DEF PushOf, At, Early, Beyond, Landed
  <2>7. Owing(a)
    BY <2>2, <2>3 DEF Owing, OwesPush
  <2> QED BY <1>1, <2>6, <2>7 DEF Pays
<1> QED BY <1>2, <1>3 DEF Readback

-----------------------------------------------------------------------------
(* Every debt is paid, or kept.                                             *)

Paid ==
  /\ OursOnly /\ Outlives(remote, target)
  /\ \A a \in Assignments : PushOf(a)

PaidOff == \A commit \in Owed \ Owed' : IsAncestor(commit, remote')

LEMMA OursBelow ==
  ASSUME Sound, OursOnly, NEW commit \in Commits, IsAncestor(commit, target)
  PROVE  Ours(commit)
<1>1. target \in Commits
  BY DEF Sound, TypeOK
<1> QED BY <1>1, AncestorChanges DEF OursOnly, Ours

\* What others append to the remote is not ours, so it adds nothing that the
\* target should have.
LEMMA AppendOutlives ==
  ASSUME NEW s \in Commits, NEW t \in Commits, NEW p \in Patch, p.of \in RemoteWork,
         Outlives(s, t)
  PROVE  Outlives(Append(s, p), t)
<1> DEFINE u == Append(s, p)
<1>1. /\ u \in Commits /\ IsAncestor(s, u) /\ p.of \in ChangesOf(u)
      /\ Len(u) = Len(s) + 1
  BY AppendFacts, AppendProperties DEF Commits
<1> HIDE DEF u
<1>2. ASSUME NEW commit \in Commits, Ours(commit), IsAncestor(commit, u)
      PROVE  IsAncestor(commit, t)
  <2>1. Len(s) \in Nat /\ Len(commit) \in Nat /\ Len(u) \in Nat
    BY <1>1, CommitFacts
  <2>2. ~IsAncestor(u, commit)
    BY <1>1, <1>2, AncestorChanges DEF Ours
  <2>3. /\ Len(commit) <= Len(u) /\ \A i \in 1..Len(commit) : commit[i] = u[i]
        /\ \A i \in 1..Len(s) : s[i] = u[i]
    BY <1>1, <1>2, AncestorIs
  <2>4. Len(commit) # Len(u)
    <3>1. Len(commit) = Len(u) => IsAncestor(u, commit)
      BY <1>1, <2>1, <2>3, AncestorIs
    <3> QED BY <2>2, <3>1
  <2>5. Len(commit) <= Len(s)
    BY <1>1, <2>1, <2>3, <2>4
  <2>6. IsAncestor(commit, s)
    BY <2>1, <2>3, <2>5, AncestorIs
  <2> QED BY <1>2, <2>6 DEF Outlives
<1> QED BY <1>2 DEF Outlives, u

\* A push of a takes nothing of ours from the remote.
LEMMA RemoteKeeps ==
  ASSUME Sound, Paid, NEW a \in Assignments, Pays(a), NEW commit \in Commits,
         IsAncestor(commit, target), IsAncestor(commit, remote)
  PROVE  IsAncestor(commit, remote')
<1>1. Ours(commit)
  BY OursBelow DEF Paid
<1>2. CASE At(a, "push") /\ remote = row[a].debt.lease /\ remote' = candidate[a]
  <2>1. Outlives(remote, candidate[a])
    BY <1>2 DEF Paid, PushOf, At
  <2> QED BY <1>1, <1>2, <2>1 DEF Outlives
<1> QED BY <1>2 DEF Pays

LEMMA PaysPaid ==
  ASSUME Sound, Paid, NEW a \in Assignments, Keeps(a), Draws(a), Pays(a)
  PROVE  Paid' /\ PaidOff
<1>1. /\ target \in Commits /\ target' \in Commits /\ IsAncestor(target, target')
      /\ PartsOf(a)
  BY DEF Keeps, MoveOf, WorldOK, Sound, TypeOK
<1>2. ASSUME NEW b \in Assignments, b # a
      PROVE  /\ row'[b] = row[b] /\ tree'[b] = tree[b] /\ job'[b] = job[b]
             /\ frozen'[b] = frozen[b] /\ candidate'[b] = candidate[b]
  BY <1>2, SoundFacts DEF Keeps, MoveOf, OnlyOf
<1>3. OursOnly'
  <2>1. StockOf(a) \cap RemoteWork = {} /\ ChangesOf(target) \cap RemoteWork = {}
    BY DEF Paid, OursOnly, Ours
  <2>2. Work[a] \cap RemoteWork = {}
    BY FinalizationAssumption
  <2>3. ChangesOf(target') \cap RemoteWork = {} /\ StockOf(a)' \cap RemoteWork = {}
    BY <2>1, <2>2 DEF Draws
  <2>4. ASSUME NEW b \in Assignments, b # a
        PROVE  StockOf(b)' \cap RemoteWork = {}
    <3>1. StockOf(b)' = StockOf(b)
      BY <1>2, <2>4 DEF StockOf, CarriedBy
    <3> QED BY <3>1 DEF Paid, OursOnly
  <2>5. primary'.dirty \cap RemoteWork = {}
    BY DEF Draws, Paid, OursOnly
  <2>6. \A b \in Assignments : StockOf(b)' \cap RemoteWork = {}
    BY <2>3, <2>4
  <2> QED BY <2>3, <2>5, <2>6 DEF OursOnly, Ours
<1>4. Outlives(remote', target')
  <2>1. CASE remote' = remote
    BY <1>1, <2>1, OutlivesLonger DEF Paid
  <2>2. CASE At(a, "push") /\ remote' = candidate[a]
    <3>1. candidate[a] \in Commits /\ IsAncestor(candidate[a], target)
      BY <1>1, <2>2 DEF PartsOf, StageOf, RowOf, HasIntegrationProof, At
    <3>2. IsAncestor(candidate[a], target')
      BY <1>1, <3>1, AncestorTransitive
    <3> QED BY <1>1, <2>2, <3>1, <3>2, AncestorTransitive DEF Outlives
  <2> QED BY <2>1, <2>2 DEF Pays
<1>5. ASSUME NEW b \in Assignments, b # a
      PROVE  PushOf(b)'
  <2>1. PushOf(b) /\ PartsOf(b)
    BY SoundFacts DEF Paid
  <2>2. row[b].debt # None /\ row[b].debt.phase = "push-succeeded" =>
          IsAncestor(row[b].debt.candidate, remote')
    BY <2>1, RemoteKeeps DEF PartsOf, DebtOf, OwesPush, PushOf
  <2>3. job[b].op = "push" /\ job[b].at \in Early =>
          row[b].debt # None /\ Outlives(row[b].debt.lease, target')
    BY <1>1, <2>1, OutlivesLonger DEF PushOf
  <2> QED BY <1>2, <1>5, <2>1, <2>2, <2>3 DEF PushOf, At
<1>6. PaidOff
  <2> SUFFICES ASSUME NEW commit \in Owed \ Owed'
               PROVE  IsAncestor(commit, remote')
    BY DEF PaidOff
  <2>1. commit \notin preserved'
    BY DEF Owed
  <2>2. PICK b \in Assignments : OwesPush(row[b].debt) /\ commit = row[b].debt.candidate
    BY <2>1 DEF Owed, Pays
  <2>3. ~(OwesPush(row'[b].debt) /\ row'[b].debt.candidate = commit)
    BY DEF Owed
  <2>4. b = a
    BY <1>2, <2>2, <2>3
  <2> QED BY <2>2, <2>3, <2>4 DEF Pays, Owing
<1>7. \A b \in Assignments : PushOf(b)'
  BY <1>5 DEF Pays
<1> QED BY <1>3, <1>4, <1>6, <1>7 DEF Paid

\* Every step of an assignment.
LEMMA BeginPays ==
  ASSUME Sound, Paid, NEW a \in Assignments, Begin(a)
  PROVE  Pays(a)
<1>1. PushOf(a) /\ Outlives(remote, target) /\ Keeps(a)
  BY BeginKeeps DEF Paid
<1>2. CASE \E c \in Work[a] : Edit(a, c) \/ CommitAndStay(a, c)
  BY <1>1, <1>2, IdleCalm, CalmPays
<1>3. CASE \E c \in Work[a] : BeginPush(a, c)
  BY <1>1, <1>3, BeginPushPays
<1>4. CASE \/ \E c \in Work[a], op \in AllOps : BeginCommander(a, c, op) \/ BeginRepair(a, c, op)
           \/ BeginReconcile(a) \/ BeginReconcileReady(a) \/ BeginConfirm(a)
  <2>1. Calm(a)
    BY <1>4, EntryCalm
  <2> QED BY <1>1, <2>1, CalmPays
<1>5. CASE BeginCloseOut(a)
  BY <1>1, <1>5, CloseOutCalm, CalmPays
<1> QED BY <1>2, <1>3, <1>4, <1>5 DEF Begin

LEMMA StepPays ==
  ASSUME Sound, Paid, NEW a \in Assignments, Step(a)
  PROVE  Pays(a)
<1>1. PushOf(a) /\ Keeps(a)
  BY StepKeeps DEF Paid
<1>2. CASE Freeze(a) \/ AcquireLock(a) \/ Replay(a) \/ Prove(a) \/ Advance(a) \/ Carry(a)
  BY <1>1, <1>2, EarlyCalm, CalmPays
<1>3. CASE Record(a) \/ Unlock(a) \/ PushCandidate(a) \/ Readback(a)
  BY <1>1, <1>3, RecordPays, UnlockPays, PushCandidatePays, ReadbackPays
<1>4. CASE \/ Settle(a) \/ Recycle(a) \/ Forget(a) \/ Release(a) \/ Retire(a) \/ Clear(a)
           \/ SyncBase(a)
  BY <1>1, <1>4, SettlingCalm, CalmPays
<1>5. CASE Close(a)
  BY <1>1, <1>5, DroppingCalm, CalmPays
<1> QED BY <1>2, <1>3, <1>4, <1>5 DEF Step

LEMMA RecoverPays ==
  ASSUME Sound, Paid, NEW a \in Assignments, Recover(a)
  PROVE  Pays(a)
<1>1. PushOf(a) /\ Keeps(a)
  BY RecoverKeeps DEF Paid
<1>2. CASE ReconcileLanded(a)
  BY <1>1, <1>2, ReconcileLandedPays
<1>3. CASE ContinueReplay(a) \/ ReconcileFrozen(a) \/ Sync(a)
  BY <1>1, <1>3, EntryCalm, CalmPays
<1>4. CASE ReconcileIntegrated(a) \/ Reopen(a)
  BY <1>1, <1>4, DroppingCalm, CalmPays
<1>5. CASE \/ \E resolution : ResolveByHand(a, resolution) \/ ResolveHunk(a, resolution)
           \/ AbortReplay(a) \/ Rerebase(a) \/ RestoreFrozen(a)
  <2>1. Calm(a)
    BY <1>5, IdleCalm
  <2> QED BY <1>1, <2>1, CalmPays
<1>6. CASE CompleteTeardown(a)
  BY <1>1, <1>6, SettlingCalm, CalmPays
<1> QED BY <1>2, <1>3, <1>4, <1>5, <1>6 DEF Recover

\* A step of the operator or the remote: worktrees, refs and handlers stay,
\* and what is no longer owed is on the remote.
LEMMA ElsewherePaid ==
  ASSUME Sound, Paid, UNCHANGED <<job, candidate, tree, frozen>>,
         target' \in Commits, IsAncestor(target, target'), Ours(target'),
         primary'.dirty \cap RemoteWork = {},
         Outlives(remote, remote'), Outlives(remote', target'),
         \A commit \in preserved \ preserved' : IsAncestor(commit, remote'),
         \A a \in Assignments :
           \/ row'[a] = row[a]
           \/ /\ Status(a, "cleaned") /\ row'[a].debt = None
              /\ OwesPush(row[a].debt) => IsAncestor(row[a].debt.candidate, remote')
  PROVE  Paid' /\ PaidOff
<1>1. target \in Commits
  BY DEF Sound, TypeOK
<1>2. \A a \in Assignments : StockOf(a)' = StockOf(a)
  BY DEF StockOf, CarriedBy
<1>3. OursOnly'
  BY <1>2 DEF Paid, OursOnly, Ours
<1>4. ASSUME NEW a \in Assignments
      PROVE  PushOf(a)'
  <2>1. PushOf(a) /\ PartsOf(a)
    BY SoundFacts DEF Paid
  <2>2. CASE row'[a] = row[a]
    <3>1. ASSUME row[a].debt # None, row[a].debt.phase = "push-succeeded"
          PROVE  IsAncestor(row[a].debt.candidate, remote')
      <4>1. /\ row[a].debt.candidate \in Commits /\ IsAncestor(row[a].debt.candidate, target)
            /\ IsAncestor(row[a].debt.candidate, remote)
        BY <2>1, <3>1 DEF PartsOf, DebtOf, OwesPush, PushOf
      <4>2. Ours(row[a].debt.candidate)
        BY <4>1, OursBelow DEF Paid
      <4> QED BY <4>1, <4>2 DEF Outlives
    <3>2. job[a].op = "push" /\ job[a].at \in Early =>
            row[a].debt # None /\ Outlives(row[a].debt.lease, target')
      BY <1>1, <2>1, OutlivesLonger DEF PushOf
    <3> QED BY <2>1, <2>2, <3>1, <3>2 DEF PushOf, At
  <2>3. CASE Status(a, "cleaned") /\ row'[a].debt = None
    <3>1. job[a].at \notin Early /\ job[a].at \notin {"unlock", "push"}
      BY <2>1, <2>3 DEF PartsOf, StageOf, Status, At, Early
    <3> QED BY <2>3, <3>1 DEF PushOf, At
  <2> QED BY <2>2, <2>3
<1>5. PaidOff
  <2> SUFFICES ASSUME NEW commit \in Owed \ Owed'
               PROVE  IsAncestor(commit, remote')
    BY DEF PaidOff
  <2>1. commit \notin preserved'
    BY DEF Owed
  <2>2. CASE commit \in preserved
    BY <2>1, <2>2
  <2>3. CASE commit \notin preserved
    <3>1. PICK a \in Assignments : OwesPush(row[a].debt) /\ commit = row[a].debt.candidate
      BY <2>3 DEF Owed
    <3>2. ~(OwesPush(row'[a].debt) /\ row'[a].debt.candidate = commit)
      BY DEF Owed
    <3> QED BY <3>1, <3>2
  <2> QED BY <2>2, <2>3
<1> QED BY <1>3, <1>4, <1>5 DEF Paid

LEMMA EnvironmentPaid ==
  ASSUME Sound, Paid,
         \/ \E c \in OperatorWork : OperatorEdit(c) \/ OperatorCommit(c)
         \/ OperatorSwitch \/ OperatorPush
         \/ \E c \in RemoteWork : RemotePush(c)
  PROVE  Paid' /\ PaidOff
<1>1. /\ target \in Commits /\ remote \in Commits /\ row \in [Assignments -> Rows]
      /\ primary \in [onRef : BOOLEAN, shows : {None} \cup Commits, dirty : SUBSET Changes]
  BY DEF Sound, TypeOK
<1>2. /\ Ours(target) /\ primary.dirty \cap RemoteWork = {} /\ Outlives(remote, target)
      /\ IsAncestor(target, target) /\ Outlives(remote, remote)
  BY <1>1, AncestorReflexive DEF Paid, OursOnly, Outlives
<1>3. /\ OperatorWork \cap RemoteWork = {}
      /\ \A c \in RemoteWork : Written(c) \in Patch /\ Written(c).of = c
      /\ \A c \in OperatorWork : Written(c) \in Patch /\ Written(c).of = c
  BY FinalizationAssumption, WrittenFacts
<1>4. ASSUME NEW c \in OperatorWork, OperatorEdit(c)
      PROVE  Paid' /\ PaidOff
  <2>1. UNCHANGED <<job, candidate, tree, frozen, row, preserved, target, remote>>
    BY <1>4 DEF OperatorEdit, database, refs
  <2>2. primary'.dirty = primary.dirty \cup {c}
    BY <1>1, <1>4 DEF OperatorEdit
  <2>3. primary'.dirty \cap RemoteWork = {}
    BY <1>2, <1>3, <2>2
  <2> QED BY <1>1, <1>2, <2>1, <2>3, ElsewherePaid
<1>5. ASSUME NEW c \in OperatorWork, OperatorCommit(c)
      PROVE  Paid' /\ PaidOff
  <2>1. UNCHANGED <<job, candidate, tree, frozen, row, preserved, remote>>
    BY <1>5 DEF OperatorCommit, database, refs
  <2>2. /\ target' \in Commits /\ IsAncestor(target, target')
        /\ ChangesOf(target') = ChangesOf(target) \cup {c}
    <3>1. target' = Append(target, Written(c)) /\ Written(c) \in Patch /\ Written(c).of = c
      BY <1>3, <1>5 DEF OperatorCommit
    <3> QED BY <1>1, <3>1, AppendFacts
  <2>3. Ours(target')
    BY <1>2, <1>3, <2>2 DEF Ours
  <2>4. primary'.dirty = primary.dirty \ {c}
    BY <1>1, <1>5 DEF OperatorCommit
  <2>5. primary'.dirty \cap RemoteWork = {}
    BY <1>2, <2>4
  <2>6. Outlives(remote, target')
    BY <1>1, <1>2, <2>2, OutlivesLonger
  <2> QED BY <1>2, <2>1, <2>2, <2>3, <2>5, <2>6, ElsewherePaid
<1>6. ASSUME OperatorSwitch
      PROVE  Paid' /\ PaidOff
  <2>1. UNCHANGED <<job, candidate, tree, frozen, row, preserved, target, remote>>
    BY <1>6 DEF OperatorSwitch, database, refs
  <2>2. primary'.dirty = primary.dirty
    BY <1>1, <1>6 DEF OperatorSwitch
  <2> QED BY <1>1, <1>2, <2>1, <2>2, ElsewherePaid
<1>7. ASSUME OperatorPush
      PROVE  Paid' /\ PaidOff
  <2>1. /\ UNCHANGED <<job, candidate, tree, frozen, target, primary>> /\ remote' = target
        /\ preserved' = StillPreserved(target)
        /\ row' = [a \in Assignments |->
                     IF a \in Drained(target) THEN [row[a] EXCEPT !.debt = None] ELSE row[a]]
    BY <1>7 DEF OperatorPush, refs
  <2>2. ASSUME NEW a \in Assignments
        PROVE  \/ row'[a] = row[a]
               \/ /\ Status(a, "cleaned") /\ row'[a].debt = None
                  /\ OwesPush(row[a].debt) => IsAncestor(row[a].debt.candidate, remote')
    <3>1. CASE a \in Drained(target)
      <4>1. [row[a] EXCEPT !.debt = None].debt = None
        BY <1>1 DEF Rows
      <4> QED BY <2>1, <3>1, <4>1 DEF Drained
    <3> QED BY <2>1, <3>1
  <2>3. \A commit \in preserved \ preserved' : IsAncestor(commit, remote')
    BY <2>1 DEF StillPreserved
  <2>4. Outlives(target, target)
    BY DEF Outlives
  <2>5. primary'.dirty = primary.dirty
    BY <2>1, PrimaryKept
  <2> QED BY <1>1, <1>2, <2>1, <2>2, <2>3, <2>4, <2>5, ElsewherePaid
<1>8. ASSUME NEW c \in RemoteWork, RemotePush(c)
      PROVE  Paid' /\ PaidOff
  <2>1. UNCHANGED <<job, candidate, tree, frozen, row, preserved, target, primary>>
    BY <1>8 DEF RemotePush, database, refs
  <2>2. remote' = Append(remote, Written(c))
    BY <1>8 DEF RemotePush
  <2>3. Outlives(remote', target)
    BY <1>1, <1>2, <1>3, <2>2, AppendOutlives
  <2>4. remote' \in Commits /\ IsAncestor(remote, remote')
    BY <1>1, <1>3, <2>2, AppendFacts
  <2>5. Outlives(remote, remote')
    BY <1>1, <1>2, <2>4, OutlivesLonger
  <2>6. primary'.dirty = primary.dirty
    BY <2>1, PrimaryKept
  <2> QED BY <1>1, <1>2, <2>1, <2>3, <2>5, <2>6, ElsewherePaid
<1> QED BY <1>4, <1>5, <1>6, <1>7, <1>8

LEMMA NextPaid ==
  ASSUME Sound, Paid, [Next]_vars
  PROVE  Paid' /\ PaidOff
<1>1. CASE \E a \in Assignments : Begin(a) \/ Step(a) \/ Recover(a)
  <2>1. PICK a \in Assignments : Begin(a) \/ Step(a) \/ Recover(a)
    BY <1>1
  <2>2. Keeps(a) /\ Pays(a)
    BY <2>1, BeginKeeps, StepKeeps, RecoverKeeps, BeginPays, StepPays, RecoverPays
  <2>3. Draws(a)
    BY <2>1, BeginCarries, StepCarries, RecoverCarries DEF Carries
  <2> QED BY <2>2, <2>3, PaysPaid
<1>2. CASE \E a \in Assignments : Crash(a) \/ CrashInReplay(a)
  <2>1. PICK a \in Assignments : Crash(a) \/ CrashInReplay(a)
    BY <1>2
  <2>2. Keeps(a) /\ Pays(a)
    BY <2>1, CrashKeeps, CrashInReplayKeeps, SettlingCalm, CalmPays DEF Paid
  <2>3. Draws(a)
    BY <2>1, <2>2, CrashStills, StillCarries, CrashInReplayCarries DEF Carries
  <2> QED BY <2>2, <2>3, PaysPaid
<1>3. CASE \/ \E c \in OperatorWork : OperatorEdit(c) \/ OperatorCommit(c)
           \/ OperatorSwitch \/ OperatorPush
           \/ \E c \in RemoteWork : RemotePush(c)
  BY <1>3, EnvironmentPaid
<1>4. CASE UNCHANGED vars
  <2>1. Owed' = Owed
    BY <1>4 DEF vars, database, Owed
  <2>2. Paid'
    BY <1>4 DEF vars, database, refs, shared, Paid, OursOnly, StockOf, CarriedBy, PushOf, At
  <2> QED BY <2>1, <2>2 DEF PaidOff
<1> QED BY <1>1, <1>2, <1>3, <1>4 DEF Next, Environment

LEMMA InitPaid ==
  ASSUME Init
  PROVE  Paid
<1>1. /\ target = Root /\ remote = Root /\ primary.dirty = {}
      /\ \A a \in Assignments :
           /\ tree[a].head = Root /\ tree[a].dirty = {} /\ tree[a].replay = None
           /\ frozen[a] = None /\ candidate[a] = None
           /\ row[a].debt = None /\ job[a].at = "idle" /\ job[a].op = "none"
  BY DEF Init, Idle
<1>2. Ours(Root) /\ Outlives(Root, Root) /\ Root # None
  BY RootFacts, NoneAssumption DEF Ours, Outlives
<1>3. \A a \in Assignments : StockOf(a) = {}
  BY <1>1, <1>2, RootFacts DEF StockOf, CarriedBy, Within, Underway
<1>4. \A a \in Assignments : PushOf(a)
  BY <1>1 DEF PushOf, At, Early
<1> QED BY <1>1, <1>2, <1>3, <1>4 DEF Paid, OursOnly

\* No obligation to push is dropped: one that ends, with its row, by a
\* readback, a reconcile, a close-out or an operator's push, leaves its commit
\* on the remote, however often others push there in between.
THEOREM DebtsDischarged == Spec => DebtIsDischarged
<1>1. Sound /\ Paid /\ [Next]_vars => Sound' /\ Paid' /\ PaidOff
  BY NextSound, NextPaid
<1>2. Sound /\ Paid /\ [Next]_vars
        => Sound' /\ Paid' /\ [\A commit \in Owed \ Owed' : IsAncestor(commit, remote')]_vars
  BY <1>1 DEF PaidOff
<1> QED BY InitSound, InitPaid, <1>2, PTL DEF Spec, DebtIsDischarged

=============================================================================
