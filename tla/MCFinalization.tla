-------------------------- MODULE MCFinalization --------------------------
\* Small instances of Finalization: two assignments, an operator and a remote.
EXTENDS Finalization, TLC

CONSTANTS a1, a2, w1, w2, v1, o1, r1

\* o1 touches the lines of w2, so that w2 cannot be replayed over it; v1
\* shares a file with w1, so that a replay over it changes the effect.
AllChanges == {w1, w2, v1, o1, r1}
Meets(pairs) == [c \in AllChanges |-> {d \in AllChanges : {c, d} \in pairs}]
ClashPairs == {{w2, o1}}
NearPairs == ClashPairs \cup {{w1, v1}}
MCNear == Meets(NearPairs)
MCClash == Meets(ClashPairs)

OneAssignment == {a1}
OneChange == (a1 :> {w1})
OneWork == (a1 :> {w1, w2})
TwoAssignments == {a1, a2}
TwoWork == (a1 :> {w1}) @@ (a2 :> {v1})

\* The two assignments, each with its change, stand for one another.
Swap ==
  {f \in Permutations({a1, a2, w1, v1}) :
     /\ \A a \in TwoAssignments : f[a] \in TwoAssignments
     /\ \A a \in TwoAssignments : TwoWork[f[a]] = {f[c] : c \in TwoWork[a]}}
=============================================================================
