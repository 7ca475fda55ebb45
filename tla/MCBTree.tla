------------------------------ MODULE MCBTree ------------------------------
(* Small instances of BTree for TLC: keys 1 .. n, the record id of k is 10 + k. *)
EXTENDS BTree

MCKeys == 1 .. 7
MCKeysDeep == 1 .. 9
MCRidOf == [k \in Keys |-> 10 + k]
=============================================================================
