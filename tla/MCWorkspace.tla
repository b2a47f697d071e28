---------------------------- MODULE MCWorkspace ----------------------------
\* A small instance of Workspace: one GUID, which may live several times,
\* and three processes.
EXTENDS Workspace, TLC

CONSTANTS s1, s2, c1, c2, c3

Symmetry == Permutations({s1, s2}) \cup Permutations({c1, c2, c3})
=============================================================================
