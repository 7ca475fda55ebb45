------------------------------- MODULE BTree -------------------------------
(***************************************************************************)
(* The B+ tree index (src/src/btree_index.cpp over the node layouts of     *)
(* src/src/btree_page.cpp).  Every node is a page.  A node is a record:    *)
(* keys in order, refs (the record ids of a leaf, the children of an       *)
(* internal node), the page id of its parent, and for a leaf the page id   *)
(* of the next leaf.  The code indexes from 0, sequences from 1.           *)
(*                                                                         *)
(* An index has one user at a time and holds no pins between calls, so an  *)
(* insert with all the splits it causes is one step.                       *)
(***************************************************************************)
EXTENDS Integers, SequencesExt

CONSTANTS
    Keys,                   \* keys a user may insert
    RidOf,                  \* the record id that a key is inserted with
    LEAF_MAX_ENTRIES,
    INTERNAL_MAX_KEYS,
    MaxPages                \* bound on the pages of the tree

ASSUME TreeAssumption ==
    /\ Keys \subseteq Int
    /\ RidOf \in [Keys -> Nat \ {0}]
    /\ LEAF_MAX_ENTRIES \in Nat \ {0, 1}
    /\ INTERNAL_MAX_KEYS \in Nat \ {0, 1}
    /\ MaxPages \in Nat \ {0}

VARIABLES
    nodes,      \* the pages of the tree; a page id is an index
    root        \* root_page_id_

vars == <<nodes, root>>

INVALID_PAGE_ID == 0
InvalidRid == 0

Tree == [nodes |-> nodes, root |-> root]

NewPageId(t) == Len(t.nodes) + 1

EmptyLeaf ==
    [leaf |-> TRUE, keys |-> <<>>, refs |-> <<>>, parent |-> INVALID_PAGE_ID,
     next |-> INVALID_PAGE_ID]

EmptyInternal ==
    [leaf |-> FALSE, keys |-> <<>>, refs |-> <<>>, parent |-> INVALID_PAGE_ID,
     next |-> INVALID_PAGE_ID]

-----------------------------------------------------------------------------
(* One node. *)

\* lower_bound by binary search: how many keys of the leaf are below k.
KeyIndex(keys, k) ==
    LET find[r \in (0 .. Len(keys)) \X (0 .. Len(keys))] ==
            LET lo == r[1]
                hi == r[2]
                mid == lo + (hi - lo) \div 2
            IN  IF lo >= hi THEN lo
                ELSE IF keys[mid + 1] < k THEN find[<<mid + 1, hi>>] ELSE find[<<lo, mid>>]
    IN  find[<<0, Len(keys)>>]

Lookup(leaf, k) ==
    LET pos == KeyIndex(leaf.keys, k) + 1
    IN  IF pos <= Len(leaf.keys) /\ leaf.keys[pos] = k THEN leaf.refs[pos] ELSE InvalidRid

\* Mutant: the leaf is taken for full one entry late.
LeafHasRoom_Late(leaf) == Len(leaf.keys) <= LEAF_MAX_ENTRIES

LeafHasRoom(leaf) == Len(leaf.keys) < LEAF_MAX_ENTRIES

LeafInsert(leaf, k, r) ==
    LET pos == KeyIndex(leaf.keys, k) + 1
    IN  [leaf EXCEPT !.keys = InsertAt(@, pos, k), !.refs = InsertAt(@, pos, r)]

LeafRemove(leaf, k) ==
    LET pos == KeyIndex(leaf.keys, k) + 1
    IN  [leaf EXCEPT !.keys = RemoveAt(@, pos), !.refs = RemoveAt(@, pos)]

\* The child to follow: as many children are skipped as keys are at most k.
LookupChild(node, k) ==
    LET skip[i \in 0 .. Len(node.keys)] ==
            IF i < Len(node.keys) /\ k >= node.keys[i + 1] THEN skip[i + 1] ELSE i
    IN  node.refs[skip[0] + 1]

\* The node with key and new_child to the right of old_child, full or not.
InsertAfter(node, old_child, key, new_child) ==
    LET i == CHOOSE j \in DOMAIN node.refs : node.refs[j] = old_child
    IN  [node EXCEPT !.keys = InsertAt(@, i, key), !.refs = InsertAt(@, i + 1, new_child)]

-----------------------------------------------------------------------------
(* Reading the tree. *)

FindLeaf(t, k) ==
    LET walk[p \in DOMAIN t.nodes] ==
            IF t.nodes[p].leaf THEN p ELSE walk[LookupChild(t.nodes[p], k)]
    IN  walk[t.root]

Search(t, k) == Lookup(t.nodes[FindLeaf(t, k)], k)

RangeScan(t, begin_key, end_key) ==
    LET scan[p \in 0 .. Len(t.nodes)] ==
            IF p = INVALID_PAGE_ID THEN <<>>
            ELSE LET leaf == t.nodes[p]
                     first == KeyIndex(leaf.keys, begin_key) + 1
                     past == {i \in first .. Len(leaf.keys) : leaf.keys[i] > end_key}
                 IN  IF past = {}
                     THEN SubSeq(leaf.refs, first, Len(leaf.refs)) \o scan[leaf.next]
                     ELSE SubSeq(leaf.refs, first,
                                 (CHOOSE i \in past : \A j \in past : i <= j) - 1)
    IN  scan[FindLeaf(t, begin_key)]

\* get_tree_layout: the page ids level by level, the root's level first.
Layout(t) ==
    LET below(level) == FlattenSeq([i \in DOMAIN level |->
                            IF t.nodes[level[i]].leaf THEN <<>> ELSE t.nodes[level[i]].refs])
        levels[n \in 1 .. Len(t.nodes) + 1] ==
            IF n = 1 THEN <<t.root>> ELSE below(levels[n - 1])
    IN  SelectSeq([n \in 1 .. Len(t.nodes) |-> levels[n]], LAMBDA level : level # <<>>)

-----------------------------------------------------------------------------
(* Changing the tree. *)

SetParent(t, pids, parent) ==
    [t EXCEPT !.nodes = [p \in DOMAIN @ |->
                            IF p \in pids THEN [@[p] EXCEPT !.parent = parent] ELSE @[p]]]

\* A split that its parent has still to be told of: right is new, and
\* INVALID_PAGE_ID when nothing is left to do.
Pending(t, left, key, right) == [t |-> t, left |-> left, key |-> key, right |-> right]

\* Mutant: the entry at the split point goes to neither half.
SplitLeaf_Drops(t, pid) ==
    LET left == t.nodes[pid]
        n == Len(left.keys)
        mid == n \div 2
        new == NewPageId(t)
        right == [left EXCEPT !.keys = SubSeq(@, mid + 2, n), !.refs = SubSeq(@, mid + 2, n)]
        shrunk == [left EXCEPT !.keys = SubSeq(@, 1, mid), !.refs = SubSeq(@, 1, mid),
                               !.next = new]
    IN  Pending([t EXCEPT !.nodes = Append([@ EXCEPT ![pid] = shrunk], right)],
                pid, left.keys[mid + 1], new)

\* Mutant: the new leaf does not take over the old one's next pointer.
SplitLeaf_Unlinked(t, pid) ==
    LET left == t.nodes[pid]
        n == Len(left.keys)
        mid == n \div 2
        new == NewPageId(t)
        right == [left EXCEPT !.keys = SubSeq(@, mid + 1, n), !.refs = SubSeq(@, mid + 1, n),
                              !.next = INVALID_PAGE_ID]
        shrunk == [left EXCEPT !.keys = SubSeq(@, 1, mid), !.refs = SubSeq(@, 1, mid),
                               !.next = new]
    IN  Pending([t EXCEPT !.nodes = Append([@ EXCEPT ![pid] = shrunk], right)],
                pid, left.keys[mid + 1], new)

\* The new right leaf takes the upper half, the parent id and the next leaf.
SplitLeaf(t, pid) ==
    LET left == t.nodes[pid]
        n == Len(left.keys)
        mid == n \div 2
        new == NewPageId(t)
        right == [left EXCEPT !.keys = SubSeq(@, mid + 1, n), !.refs = SubSeq(@, mid + 1, n)]
        shrunk == [left EXCEPT !.keys = SubSeq(@, 1, mid), !.refs = SubSeq(@, 1, mid),
                               !.next = new]
    IN  Pending([t EXCEPT !.nodes = Append([@ EXCEPT ![pid] = shrunk], right)],
                pid, left.keys[mid + 1], new)

\* insert_into_parent, case 1: the root was split and gets a root above it.
GrowRoot(s) ==
    LET new == NewPageId(s.t)
        top == [EmptyInternal EXCEPT !.keys = <<s.key>>, !.refs = <<s.left, s.right>>]
        t == [nodes |-> Append(s.t.nodes, top), root |-> new]
    IN  Pending(SetParent(t, {s.left, s.right}, new), s.left, s.key, INVALID_PAGE_ID)

\* Case 2: the parent has room.
FillParent(s) ==
    LET parent == s.t.nodes[s.left].parent
        t == [s.t EXCEPT !.nodes[parent] = InsertAfter(@, s.left, s.key, s.right)]
    IN  Pending(SetParent(t, {s.right}, parent), s.left, s.key, INVALID_PAGE_ID)

\* Mutant: the children that move keep the parent they had.
SplitParent_OldParent(s) ==
    LET parent == s.t.nodes[s.left].parent
        full == InsertAfter(s.t.nodes[parent], s.left, s.key, s.right)
        total == Len(full.keys)
        mid == total \div 2
        new == NewPageId(s.t)
        left == [full EXCEPT !.keys = SubSeq(@, 1, mid), !.refs = SubSeq(@, 1, mid + 1)]
        right == [EmptyInternal EXCEPT !.keys = SubSeq(full.keys, mid + 2, total),
                                       !.refs = SubSeq(full.refs, mid + 2, total + 1)]
        t == [s.t EXCEPT !.nodes = Append([@ EXCEPT ![parent] = left], right)]
    IN  Pending(t, parent, full.keys[mid + 1], new)

\* Case 3: the parent is full.  It is split with the new child in place; the
\* middle key moves up.  Only the children of the right half get a new parent
\* id, and the right half itself none before its own parent takes it.
SplitParent(s) ==
    LET parent == s.t.nodes[s.left].parent
        full == InsertAfter(s.t.nodes[parent], s.left, s.key, s.right)
        total == Len(full.keys)
        mid == total \div 2
        new == NewPageId(s.t)
        left == [full EXCEPT !.keys = SubSeq(@, 1, mid), !.refs = SubSeq(@, 1, mid + 1)]
        right == [EmptyInternal EXCEPT !.keys = SubSeq(full.keys, mid + 2, total),
                                       !.refs = SubSeq(full.refs, mid + 2, total + 1)]
        t == [s.t EXCEPT !.nodes = Append([@ EXCEPT ![parent] = left], right)]
    IN  Pending(SetParent(t, ToSet(right.refs), new), parent, full.keys[mid + 1], new)

\* One call of insert_into_parent.  It finds the parent by the id in the left
\* node's header, which has to be right (ParentIds).
InsertIntoParent(s) ==
    IF s.right = INVALID_PAGE_ID THEN s
    ELSE IF s.left = s.t.root THEN GrowRoot(s)
    ELSE IF Len(s.t.nodes[s.t.nodes[s.left].parent].keys) < INTERNAL_MAX_KEYS
         THEN FillParent(s)
         ELSE SplitParent(s)

\* The recursion climbs one level per call.
Climb(s) ==
    LET pending[level \in 0 .. Len(s.t.nodes)] ==
            IF level = 0 THEN s ELSE InsertIntoParent(pending[level - 1])
    IN  pending[Len(s.t.nodes)].t

Inserted(t, k, r) ==
    LET pid == FindLeaf(t, k)
        split == SplitLeaf(t, pid)
        half == IF k >= split.key THEN split.right ELSE split.left
    IN  IF LeafHasRoom(t.nodes[pid])
        THEN [t EXCEPT !.nodes[pid] = LeafInsert(@, k, r)]
        ELSE Climb([split EXCEPT !.t.nodes[half] = LeafInsert(@, k, r)])

InsertKey(k) ==
    /\ Search(Tree, k) = InvalidRid     \* a key that exists is refused
    /\ LET t == Inserted(Tree, k, RidOf[k])
       IN  /\ Len(t.nodes) <= MaxPages
           /\ nodes' = t.nodes
           /\ root' = t.root

\* Mutant: an emptied leaf is taken out of the chain and stays in the tree.
RemoveKey_Unlinks(k) ==
    /\ Search(Tree, k) # InvalidRid
    /\ LET pid == FindLeaf(Tree, k)
           leaf == LeafRemove(nodes[pid], k)
       IN  nodes' = [p \in DOMAIN nodes |->
                        IF p = pid THEN leaf
                        ELSE IF nodes[p].next = pid /\ leaf.keys = <<>>
                             THEN [nodes[p] EXCEPT !.next = leaf.next]
                             ELSE nodes[p]]
    /\ UNCHANGED root

\* Nodes are never merged.
RemoveKey(k) ==
    /\ Search(Tree, k) # InvalidRid
    /\ nodes' = [nodes EXCEPT ![FindLeaf(Tree, k)] = LeafRemove(@, k)]
    /\ UNCHANGED root

\* create(): one empty leaf.
Init ==
    /\ nodes = <<EmptyLeaf>>
    /\ root = 1

Next == \E k \in Keys : InsertKey(k) \/ RemoveKey(k)

Spec == Init /\ [][Next]_vars

-----------------------------------------------------------------------------
(* Properties. *)

\* Nodes keep to their capacity, and an internal node has one child more than
\* it has keys.
TypeOK ==
    /\ root \in DOMAIN nodes
    /\ Len(nodes) <= MaxPages
    /\ \A p \in DOMAIN nodes :
           LET node == nodes[p]
           IN  /\ node.parent \in 0 .. Len(nodes)
               /\ node.next \in 0 .. Len(nodes)
               /\ IF node.leaf
                  THEN /\ Len(node.keys) <= LEAF_MAX_ENTRIES
                       /\ Len(node.refs) = Len(node.keys)
                  ELSE /\ Len(node.keys) \in 1 .. INTERNAL_MAX_KEYS
                       /\ Len(node.refs) = Len(node.keys) + 1
                       /\ ToSet(node.refs) \subseteq DOMAIN nodes

\* The map that search computes.
Found ==
    [k \in {x \in Keys : Search(Tree, x) # InvalidRid} |-> Search(Tree, k)]

Map == INSTANCE KeyMap WITH Entries <- {<<k, RidOf[k]>> : k \in Keys}, map <- Found

\* Seen through search, the tree is the map of its interface: an insert adds
\* its key and a remove takes it away, and no other key is lost, moved or
\* found again, whatever splits happen on the way.
RefinesKeyMap == Map!MapSpec

\* range_scan, which follows the leaf chain and not the separators, returns
\* what search finds, in key order.
RangeScanExact ==
    LET found == Found
    IN  \A b, e \in Keys :
            LET result == RangeScan(Tree, b, e)
                within == {k \in DOMAIN found : b <= k /\ k <= e}
            IN  /\ Len(result) = Cardinality(within)
                /\ \A k \in within :
                       result[Cardinality({x \in within : x <= k})] = found[k]

\* Every node's header names the internal node that points to it, so that
\* insert_into_parent can navigate upward (btree_index.cpp:305,364).
ParentIds ==
    /\ nodes[root].parent = INVALID_PAGE_ID
    /\ \A p \in DOMAIN nodes : ~nodes[p].leaf =>
           \A c \in ToSet(nodes[p].refs) : nodes[c].parent = p

\* The tree is balanced and complete: the levels hold every page once, only
\* the last level holds leaves, and its order is that of the leaf chain.
LayoutComplete ==
    LET levels == Layout(Tree)
        bottom == Last(levels)
    IN  /\ Len(FlattenSeq(levels)) = Len(nodes)
        /\ ToSet(FlattenSeq(levels)) = DOMAIN nodes
        /\ \A n \in DOMAIN levels : \A p \in ToSet(levels[n]) :
               nodes[p].leaf <=> n = Len(levels)
        /\ \A i \in DOMAIN bottom :
               nodes[bottom[i]].next =
                   IF i = Len(bottom) THEN INVALID_PAGE_ID ELSE bottom[i + 1]
=============================================================================
