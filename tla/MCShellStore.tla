---------------------------- MODULE MCShellStore ----------------------------
(* Small instances of ShellStore for TLC. *)
EXTENDS ShellStore

CONSTANTS k1, k2, v1, v2

MCKeys == {k1, k2}
MCVals == {v1, v2}

\* No command compares two keys or two values but for equality.
Symmetry == Permutations(MCKeys) \cup Permutations(MCVals)
=============================================================================
