------------------------------ MODULE MCEngine ------------------------------
EXTENDS Engine, TLC

Symmetry == Permutations(Pages) \cup Permutations(Value)
=============================================================================
