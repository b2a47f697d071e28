---------------------------- MODULE MCAuthority ----------------------------
\* A small instance of Authority: two sessions, two assignments, of which each
\* session may have one, plans that cover one or both of two files, and two
\* branches.
EXTENDS Authority, TLC

CONSTANTS s1, s2, f, g

AllFiles == {f, g}
PlanScopes == {{f}, {f, g}}
Symmetry == Permutations({s1, s2})
=============================================================================
