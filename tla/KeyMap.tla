------------------------------- MODULE KeyMap -------------------------------
(***************************************************************************)
(* What BTreeIndex promises its users (src/include/btree_index.hpp:39-55): *)
(* a partial function from keys to record ids.  insert refuses a key that  *)
(* is there, remove one that is not; nothing else changes the map.         *)
(***************************************************************************)
CONSTANT Entries        \* the pairs <<key, rid>> a user may insert

VARIABLE map

MapInit == map = <<>>

\* What insert may make of the map m, and what remove may.
AfterInsert(m) ==
    {[k \in DOMAIN m \cup {e[1]} |-> IF k = e[1] THEN e[2] ELSE m[k]] :
        e \in {x \in Entries : x[1] \notin DOMAIN m}}

AfterRemove(m) ==
    {[j \in DOMAIN m \ {k} |-> m[j]] : k \in DOMAIN m}

MapNext == map' \in AfterInsert(map) \cup AfterRemove(map)

MapSpec == MapInit /\ [][MapNext]_map
=============================================================================
