--------------------------- MODULE MCBufferManager ---------------------------
EXTENDS BufferManager, TLC

Symmetry == Permutations(Handles)
==============================================================================
